---------------------------- MODULE DeptProofs ----------------------------
(***************************************************************************)
(* Theorems about TreeTool and UpmDept, for every set of departments, users *)
(* and concurrent calls, and every number of calls.  The lemmas on numbers  *)
(* and joined sequences are those of DictSyncProofs.                        *)
(***************************************************************************)
EXTENDS UpmDept, DictSyncProofs, FiniteSetTheorems, TLAPS

-----------------------------------------------------------------------------
(* Repetition and sequences *)

\* The equation of Repeats has a solution for every n: by the least n without one.
LEMMA RepeatsIs ==
  ASSUME NEW round, NEW start, NEW n \in Nat
  PROVE  /\ Repeats(round, start, n) = [k \in 0 .. n |-> Repeats(round, start, n)[k]]
         /\ Repeats(round, start, n)[0] = start
         /\ \A k \in 1 .. n :
              Repeats(round, start, n)[k] = round[k][Repeats(round, start, n)[k - 1]]
<1> DEFINE Solves(f, m) == f = [k \in 0 .. m |-> IF k = 0 THEN start ELSE round[k][f[k - 1]]]
           none == {m \in Nat : ~ \E f : Solves(f, m)}
<1>1. ASSUME none # {} PROVE FALSE
  <2>1. PICK m \in none : \A l \in none : m <= l
    BY <1>1, LeastNumber
  <2>2. m \in Nat /\ ~ \E f : Solves(f, m)
    OBVIOUS
  <2>3. CASE m = 0
    <3>1. Solves([k \in 0 .. 0 |-> start], 0)
      OBVIOUS
    <3> QED
      BY <2>2, <2>3, <3>1
  <2>4. CASE m # 0
    <3>0. m - 1 \in Nat /\ ~ (m <= m - 1)
      BY <2>2, <2>4
    <3>1. m - 1 \in Nat /\ m - 1 \notin none
      <4> HIDE DEF none
      <4> QED
        BY <2>1, <3>0
    <3>2. PICK f : Solves(f, m - 1)
      BY <3>1 DEF none
    <3> DEFINE g == [k \in 0 .. m |-> IF k = m THEN round[m][f[m - 1]] ELSE f[k]]
    <3>4. \A k \in 0 .. m - 1 : g[k] = f[k]
      BY <2>2, <3>1
    <3>3. \A k \in 0 .. m - 1 : g[k] = IF k = 0 THEN start ELSE round[k][f[k - 1]]
      <4> HIDE DEF g
      <4>1. \A k \in 0 .. m - 1 : f[k] = IF k = 0 THEN start ELSE round[k][f[k - 1]]
        BY <3>2
      <4> QED
        BY <3>4, <4>1
    <3>5. g[m] = round[m][g[m - 1]]
      BY <2>2, <2>4, <3>1, <3>4
    <3>6. \A k \in 0 .. m - 1 : k # 0 => f[k - 1] = g[k - 1]
      BY <2>2, <3>1, <3>4
    <3>7. \A k \in 0 .. m : g[k] = IF k = 0 THEN start ELSE round[k][g[k - 1]]
      <4> HIDE DEF g
      <4> SUFFICES ASSUME NEW k \in 0 .. m PROVE g[k] = IF k = 0 THEN start ELSE round[k][g[k - 1]]
        OBVIOUS
      <4>1. CASE k = m
        BY <4>1, <3>5, <2>4
      <4>2. CASE k \in 0 .. m - 1
        BY <4>2, <3>3, <3>6
      <4> QED
        BY <4>1, <4>2, <2>2
    <3>8. g = [k \in 0 .. m |-> g[k]]
      OBVIOUS
    <3> HIDE DEF g
    <3>9. Solves(g, m)
      BY <3>7, <3>8
    <3> QED
      BY <2>2, <3>9
  <2> QED
    BY <2>3, <2>4
<1> DEFINE after == Repeats(round, start, n)
<1>2. \E f : Solves(f, n)
  BY <1>1
<1>3. Solves(after, n)
  BY <1>2 DEF Repeats
<1> HIDE DEF after
<1>4. after = [k \in 0 .. n |-> after[k]] /\ \A k \in 0 .. n : after[k] = IF k = 0 THEN start ELSE round[k][after[k - 1]]
  BY <1>3
<1>5. after[0] = start /\ \A k \in 1 .. n : after[k] = round[k][after[k - 1]]
  <2>1. 0 \in 0 .. n /\ \A k \in 1 .. n : k \in 0 .. n /\ k # 0
    OBVIOUS
  <2> QED
    BY <1>4, <2>1
<1> QED
  BY <1>4, <1>5 DEF after

\* What the rounds keep in a set stays in it.
LEMMA RepeatsTyped ==
  ASSUME NEW S, NEW n \in Nat, NEW round \in [1 .. n -> [S -> S]], NEW start \in S
  PROVE  Repeats(round, start, n) \in [0 .. n -> S]
<1> DEFINE after == Repeats(round, start, n)  wrong == {k \in 0 .. n : after[k] \notin S}
<1>1. /\ after = [k \in 0 .. n |-> after[k]] /\ after[0] = start
      /\ \A k \in 1 .. n : after[k] = round[k][after[k - 1]]
  BY RepeatsIs
<1> HIDE DEF after
<1>2. ASSUME wrong # {} PROVE FALSE
  <2>1. wrong \subseteq Nat
    OBVIOUS
  <2>2. PICK k \in wrong : \A l \in wrong : k <= l
    BY <1>2, <2>1, LeastNumber
  <2>3. k \in 0 .. n /\ k # 0 /\ after[k] \notin S
    BY <1>1
  <2>4. k \in 1 .. n /\ k - 1 \in 0 .. n /\ ~ (k <= k - 1)
    BY <2>3
  <2>5. after[k - 1] \in S
    BY <2>2, <2>4
  <2>6. round[k] \in [S -> S]
    BY <2>4
  <2> QED
    BY <1>1, <2>3, <2>4, <2>5, <2>6
<1> QED
  BY <1>1, <1>2 DEF after

\* Sequences without repetition stay so when they get what is not in them.
LEMMA Appended ==
  ASSUME NEW S, NEW seq \in Seq(S), NEW e \in S
  PROVE  /\ Append(seq, e) \in Seq(S) /\ Len(Append(seq, e)) = Len(seq) + 1
         /\ ToSet(Append(seq, e)) = ToSet(seq) \cup {e}
         /\ IsInjective(seq) /\ e \notin ToSet(seq) => IsInjective(Append(seq, e))
<1> DEFINE n == Len(seq)  q == Append(seq, e)
<1>1. n \in Nat /\ q \in Seq(S) /\ Len(q) = n + 1
  OBVIOUS
<1>2. DOMAIN seq = 1 .. n /\ DOMAIN q = 1 .. n + 1
  OBVIOUS
<1>3. q[n + 1] = e /\ \A k \in 1 .. n : q[k] = seq[k]
  OBVIOUS
<1> HIDE DEF n, q
<1>4. ToSet(q) = ToSet(seq) \cup {e}
  <2>1. \A k \in 1 .. n + 1 : k \in 1 .. n \/ k = n + 1
    BY <1>1
  <2>2. 1 .. n \subseteq 1 .. n + 1 /\ n + 1 \in 1 .. n + 1
    BY <1>1
  <2> QED
    BY <1>2, <1>3, <2>1, <2>2 DEF ToSet
<1>5. ASSUME IsInjective(seq), e \notin ToSet(seq) PROVE IsInjective(q)
  <2>1. \A k \in 1 .. n + 1 : k \in 1 .. n \/ k = n + 1
    BY <1>1
  <2>2. \A k \in 1 .. n : q[k] # e
    BY <1>2, <1>3, <1>5 DEF ToSet
  <2>3. \A k, l \in 1 .. n : q[k] = q[l] => k = l
    BY <1>2, <1>3, <1>5 DEF IsInjective
  <2> QED
    BY <1>2, <1>3, <2>1, <2>2, <2>3 DEF IsInjective
<1> QED
  BY <1>1, <1>4, <1>5 DEF n, q

LEMMA Concatenated ==
  ASSUME NEW S, NEW a \in Seq(S), NEW b \in Seq(S)
  PROVE  /\ a \o b \in Seq(S)
         /\ ToSet(a \o b) = ToSet(a) \cup ToSet(b)
         /\ IsInjective(a) /\ IsInjective(b) /\ ToSet(a) \cap ToSet(b) = {} => IsInjective(a \o b)
<1> DEFINE n == Len(a)  m == Len(b)  q == a \o b
<1>1. n \in Nat /\ m \in Nat
  OBVIOUS
<1>2. /\ q \in Seq(S) /\ DOMAIN q = 1 .. n + m
      /\ \A k \in 1 .. n : q[k] = a[k]
      /\ \A k \in 1 .. m : q[n + k] = b[k]
  BY Joined
<1>3. DOMAIN a = 1 .. n /\ DOMAIN b = 1 .. m
  OBVIOUS
<1> HIDE DEF n, m, q
<1>4. /\ \A k \in 1 .. n + m : k \in 1 .. n \/ (k - n \in 1 .. m /\ n + (k - n) = k)
      /\ \A k \in 1 .. n : k \in 1 .. n + m
      /\ \A k \in 1 .. m : n + k \in 1 .. n + m
  BY <1>1
<1>5. ToSet(q) = ToSet(a) \cup ToSet(b)
  <2>1. ToSet(q) \subseteq ToSet(a) \cup ToSet(b)
    BY <1>2, <1>3, <1>4 DEF ToSet
  <2>2. ToSet(a) \cup ToSet(b) \subseteq ToSet(q)
    BY <1>2, <1>3, <1>4 DEF ToSet
  <2> QED
    BY <2>1, <2>2
<1>6. ASSUME IsInjective(a), IsInjective(b), ToSet(a) \cap ToSet(b) = {}
      PROVE  IsInjective(q)
  <2> SUFFICES ASSUME NEW k \in 1 .. n + m, NEW l \in 1 .. n + m, q[k] = q[l] PROVE k = l
    BY <1>2 DEF IsInjective
  <2>1. CASE k \in 1 .. n /\ l \in 1 .. n
    BY <2>1, <1>2, <1>3, <1>6 DEF IsInjective
  <2>2. CASE k - n \in 1 .. m /\ l - n \in 1 .. m
    <3>1. q[n + (k - n)] = b[k - n] /\ q[n + (l - n)] = b[l - n]
      BY <2>2, <1>2
    <3>0. n + (k - n) = k /\ n + (l - n) = l
      BY <1>1
    <3>2. k - n = l - n
      BY <2>2, <3>0, <3>1, <1>3, <1>6 DEF IsInjective
    <3> QED
      BY <3>2, <1>1
  <2>3. ASSUME NEW i \in 1 .. n, NEW j \in 1 .. m PROVE a[i] # b[j]
    BY <1>3, <1>6 DEF ToSet
  <2>4. CASE k \in 1 .. n /\ l - n \in 1 .. m
    <3>1. q[k] = a[k] /\ q[n + (l - n)] = b[l - n] /\ n + (l - n) = l
      BY <2>4, <1>1, <1>2
    <3> QED
      BY <2>3, <2>4, <3>1
  <2>5. CASE k - n \in 1 .. m /\ l \in 1 .. n
    <3>1. q[l] = a[l] /\ q[n + (k - n)] = b[k - n] /\ n + (k - n) = k
      BY <2>5, <1>1, <1>2
    <3> QED
      BY <2>3, <2>5, <3>1
  <2> QED
    BY <2>1, <2>2, <2>4, <2>5, <1>4
<1> QED
  BY <1>2, <1>5, <1>6 DEF q

LEMMA LastApart ==
  ASSUME NEW S, NEW seq \in Seq(S), seq # <<>>
  PROVE  /\ Front(seq) \in Seq(S) /\ Last(seq) \in S
         /\ ToSet(seq) = ToSet(Front(seq)) \cup {Last(seq)}
         /\ IsInjective(seq) => IsInjective(Front(seq)) /\ Last(seq) \notin ToSet(Front(seq))
<1> DEFINE n == Len(seq)  q == Front(seq)
<1>1. n \in Nat /\ n # 0 /\ DOMAIN seq = 1 .. n /\ Last(seq) = seq[n] /\ seq[n] \in S
  BY DEF Last
<1>2. q \in Seq(S) /\ DOMAIN q = 1 .. n - 1 /\ \A k \in 1 .. n - 1 : q[k] = seq[k]
  BY DEF Front
<1> HIDE DEF n, q
<1>3. /\ \A k \in 1 .. n : k \in 1 .. n - 1 \/ k = n
      /\ \A k \in 1 .. n - 1 : k \in 1 .. n /\ k # n
      /\ n \in 1 .. n
  BY <1>1
<1>4. ToSet(seq) = ToSet(q) \cup {Last(seq)}
  BY <1>1, <1>2, <1>3 DEF ToSet
<1>5. IsInjective(seq) => IsInjective(q) /\ Last(seq) \notin ToSet(q)
  BY <1>1, <1>2, <1>3 DEF ToSet, IsInjective
<1> QED
  BY <1>1, <1>2, <1>4, <1>5 DEF q

LEMMA HeadApart ==
  ASSUME NEW S, NEW seq \in Seq(S), seq # <<>>
  PROVE  /\ Tail(seq) \in Seq(S) /\ Head(seq) \in S
         /\ ToSet(seq) = ToSet(Tail(seq)) \cup {Head(seq)}
         /\ IsInjective(seq) => IsInjective(Tail(seq)) /\ Head(seq) \notin ToSet(Tail(seq))
<1> DEFINE n == Len(seq)  q == Tail(seq)
<1>1. n \in Nat /\ n # 0 /\ DOMAIN seq = 1 .. n /\ Head(seq) = seq[1] /\ seq[1] \in S
  OBVIOUS
<1>2. q \in Seq(S) /\ DOMAIN q = 1 .. n - 1 /\ \A k \in 1 .. n - 1 : q[k] = seq[k + 1]
  OBVIOUS
<1> HIDE DEF n, q
<1>3. /\ \A k \in 1 .. n : k = 1 \/ (k - 1 \in 1 .. n - 1 /\ (k - 1) + 1 = k)
      /\ \A k \in 1 .. n - 1 : k + 1 \in 1 .. n /\ k + 1 # 1
      /\ 1 \in 1 .. n
      /\ \A k, l \in 1 .. n - 1 : k + 1 = l + 1 => k = l
  BY <1>1
<1>6. \A k \in 1 .. n : k # 1 => k - 1 \in 1 .. n - 1 /\ q[k - 1] = seq[k]
  BY <1>2, <1>3
<1>4. ToSet(seq) = ToSet(q) \cup {Head(seq)}
  <2>1. ToSet(seq) \subseteq ToSet(q) \cup {Head(seq)}
    <3>1. \A k \in 1 .. n : k # 1 => seq[k] \in ToSet(q)
      BY <1>2, <1>6 DEF ToSet
    <3>2. \A k \in 1 .. n : seq[k] \in ToSet(q) \cup {Head(seq)}
      BY <1>1, <3>1
    <3> QED
      BY <1>1, <3>2 DEF ToSet
  <2>2. ToSet(q) \cup {Head(seq)} \subseteq ToSet(seq)
    <3>1. \A k \in 1 .. n : seq[k] \in ToSet(seq)
      BY <1>1 DEF ToSet
    <3>2. \A k \in 1 .. n - 1 : q[k] \in ToSet(seq)
      BY <1>2, <1>3, <3>1
    <3>3. Head(seq) \in ToSet(seq)
      BY <1>1, <1>3, <3>1
    <3> QED
      BY <1>2, <3>2, <3>3 DEF ToSet
  <2> QED
    BY <2>1, <2>2
<1>5. IsInjective(seq) => IsInjective(q) /\ Head(seq) \notin ToSet(q)
  <2>1. ASSUME IsInjective(seq) PROVE IsInjective(q)
    <3> SUFFICES ASSUME NEW k \in 1 .. n - 1, NEW l \in 1 .. n - 1, q[k] = q[l] PROVE k = l
      BY <1>2 DEF IsInjective
    <3>1. seq[k + 1] = seq[l + 1] /\ k + 1 \in 1 .. n /\ l + 1 \in 1 .. n
      BY <1>2, <1>3
    <3>2. k + 1 = l + 1
      BY <3>1, <2>1, <1>1 DEF IsInjective
    <3> QED
      BY <3>2, <1>3
  <2>2. ASSUME IsInjective(seq), NEW k \in 1 .. n - 1 PROVE q[k] # Head(seq)
    <3>1. k + 1 \in 1 .. n /\ 1 \in 1 .. n /\ k + 1 # 1
      BY <1>3
    <3>2. seq[k + 1] # seq[1]
      BY <3>1, <2>2, <1>1 DEF IsInjective
    <3> QED
      BY <3>2, <1>1, <1>2
  <2> QED
    BY <2>1, <2>2, <1>2 DEF ToSet
<1> QED
  BY <1>1, <1>2, <1>4, <1>5 DEF q

LEMMA Reversed ==
  ASSUME NEW S, NEW seq \in Seq(S)
  PROVE  /\ Reverse(seq) \in Seq(S) /\ ToSet(Reverse(seq)) = ToSet(seq)
         /\ IsInjective(seq) => IsInjective(Reverse(seq))
<1> DEFINE n == Len(seq)  q == Reverse(seq)
<1>1. n \in Nat /\ DOMAIN seq = 1 .. n /\ \A k \in 1 .. n : seq[k] \in S
  OBVIOUS
<1>2. q = [k \in 1 .. n |-> seq[n - k + 1]]
  BY DEF Reverse
<1> HIDE DEF n, q
<1>3. /\ \A k \in 1 .. n : n - k + 1 \in 1 .. n /\ n - (n - k + 1) + 1 = k
      /\ \A k, l \in 1 .. n : n - k + 1 = n - l + 1 => k = l
  BY <1>1
<1>4. DOMAIN q = 1 .. n /\ \A k \in 1 .. n : q[k] = seq[n - k + 1] /\ q[k] \in S
  BY <1>1, <1>2, <1>3
<1>5. q \in Seq(S)
  BY <1>1, <1>2, <1>4
<1>6. ToSet(q) = ToSet(seq)
  <2>1. ToSet(q) \subseteq ToSet(seq)
    BY <1>1, <1>3, <1>4 DEF ToSet
  <2>2. ASSUME NEW k \in 1 .. n PROVE seq[k] \in ToSet(q)
    <3>1. n - k + 1 \in 1 .. n /\ q[n - k + 1] = seq[k]
      BY <1>3, <1>4
    <3> QED
      BY <3>1, <1>4 DEF ToSet
  <2> QED
    BY <2>1, <2>2, <1>1 DEF ToSet
<1>7. IsInjective(seq) => IsInjective(q)
  BY <1>1, <1>3, <1>4 DEF IsInjective
<1> QED
  BY <1>5, <1>6, <1>7 DEF q

\* A sequence without repetition is as long as it has elements.
LEMMA LengthOf ==
  ASSUME NEW S, NEW seq \in Seq(S), IsInjective(seq)
  PROVE  IsFiniteSet(ToSet(seq)) /\ Cardinality(ToSet(seq)) = Len(seq)
<1> DEFINE n == Len(seq)
<1>1. n \in Nat /\ seq \in [1 .. n -> ToSet(seq)] /\ \A e \in ToSet(seq) : \E k \in 1 .. n : seq[k] = e
  BY DEF ToSet
<1>2. seq \in Bijection(1 .. n, ToSet(seq))
  BY <1>1 DEF Bijection, Injection, Surjection, IsInjective
<1> HIDE DEF n
<1>3. IsFiniteSet(1 .. n) /\ Cardinality(1 .. n) = n
  <2>1. n \in Nat
    BY <1>1
  <2> QED
    BY <2>1, FS_Interval
<1>4. ExistsBijection(1 .. n, ToSet(seq))
  BY <1>2 DEF ExistsBijection
<1> QED
  BY <1>3, <1>4, FS_Bijection DEF n

\* Select keeps the elements of the set, each as often as it is there.
LEMMA Selected ==
  ASSUME NEW S, NEW seq \in Seq(S), NEW chosen
  PROVE  /\ Select(seq, chosen) \in Seq(S)
         /\ ToSet(Select(seq, chosen)) = ToSet(seq) \cap chosen
         /\ IsInjective(seq) => IsInjective(Select(seq, chosen))
<1> DEFINE n == Len(seq)  T == ToSet(seq)
           pick == [k \in DOMAIN seq |-> [out \in Seq(T) |->
                     IF seq[k] \in chosen THEN Append(out, seq[k]) ELSE out]]
           after == Repeats(pick, <<>>, n)
           upto(k) == {seq[i] : i \in 1 .. k}
           Right(k) == /\ after[k] \in Seq(T)
                       /\ ToSet(after[k]) = upto(k) \cap chosen
                       /\ IsInjective(seq) => IsInjective(after[k])
<1>0. n \in Nat
  OBVIOUS
<1>1. n \in Nat /\ DOMAIN seq = 1 .. n
  OBVIOUS
<1>3. \A k \in 1 .. n : seq[k] \in T
  BY <1>1 DEF ToSet
<1>4. \A k \in 1 .. n : \A out \in Seq(T) :
        pick[k][out] = IF seq[k] \in chosen THEN Append(out, seq[k]) ELSE out
  BY <1>1
<1>5. T \subseteq S
  BY <1>1 DEF ToSet
<1> HIDE DEF n, pick, T
<1>2. after[0] = <<>> /\ \A k \in 1 .. n : after[k] = pick[k][after[k - 1]]
  BY <1>0, RepeatsIs
<1> HIDE DEF after
<1>6. Right(0)
  <2>1. ToSet(<<>>) = {} /\ IsInjective(<<>>)
    BY DEF ToSet, IsInjective
  <2> QED
    BY <1>2, <2>1
<1>7. ASSUME NEW k \in 1 .. n, Right(k - 1) PROVE Right(k)
  <2> DEFINE out == after[k - 1]
  <2>1. out \in Seq(T) /\ seq[k] \in T /\ after[k] = IF seq[k] \in chosen THEN Append(out, seq[k]) ELSE out
    BY <1>2, <1>3, <1>4, <1>7
  <2>2. ToSet(out) = upto(k - 1) \cap chosen /\ (IsInjective(seq) => IsInjective(out))
    BY <1>7
  <2> HIDE DEF out
  <2>3. upto(k) = upto(k - 1) \cup {seq[k]}
    <3>1. \A i : i \in 1 .. k <=> i \in 1 .. k - 1 \/ i = k
      BY <1>1
    <3> QED
      BY <3>1
  <2>4. IsInjective(seq) => seq[k] \notin upto(k - 1)
    <3>1. \A i \in 1 .. k - 1 : i \in 1 .. n /\ i # k
      BY <1>1
    <3> QED
      BY <3>1, <1>1 DEF IsInjective
  <2>5. CASE seq[k] \in chosen
    <3>1. after[k] = Append(out, seq[k])
      BY <2>1, <2>5
    <3>2. /\ after[k] \in Seq(T) /\ ToSet(after[k]) = ToSet(out) \cup {seq[k]}
          /\ IsInjective(out) /\ seq[k] \notin ToSet(out) => IsInjective(after[k])
      BY <2>1, <3>1, Appended
    <3> QED
      BY <2>2, <2>3, <2>4, <2>5, <3>2
  <2>6. CASE seq[k] \notin chosen
    BY <2>1, <2>2, <2>3, <2>6
  <2> QED
    BY <2>5, <2>6
<1>8. Right(n)
  <2> DEFINE wrong == {k \in 0 .. n : ~ Right(k)}
  <2> SUFFICES ASSUME wrong # {} PROVE FALSE
    BY <1>1
  <2>1. wrong \subseteq Nat
    BY <1>1
  <2>2. PICK k \in wrong : \A l \in wrong : k <= l
    BY <2>1, LeastNumber
  <2>3. k # 0 /\ k \in 0 .. n
    BY <1>6
  <2>4. k \in 1 .. n /\ k - 1 \in 0 .. n /\ ~ (k <= k - 1)
    BY <1>1, <2>3
  <2>5. Right(k - 1)
    BY <2>2, <2>4
  <2> QED
    BY <1>7, <2>4, <2>5
<1>9. upto(n) = T
  BY <1>1 DEF T, ToSet
<1>10. Select(seq, chosen) = after[n]
  BY DEF Select, after, n, pick, T
<1> QED
  BY <1>5, <1>8, <1>9, <1>10 DEF T

-----------------------------------------------------------------------------
(* Traversals.  Flatten and Walk take one node of those that are pending in   *)
(* each round, write it down, and add its children; neither remembers what it *)
(* has seen.                                                                  *)

Visits(pend, out, pendNext, outNext, kids) ==
  \E p \in ToSet(pend) :
    /\ outNext = Append(out, p)
    /\ (ToSet(pend) \ {p}) \cup kids[p] \subseteq ToSet(pendNext)
    /\ IsInjective(pend) /\ kids[p] \cap ToSet(pend) = {}
         => IsInjective(pendNext) /\ ToSet(pendNext) = (ToSet(pend) \ {p}) \cup kids[p]

Round(pend, out, pendNext, outNext, kids) ==
  IF pend = <<>> THEN pendNext = <<>> /\ outNext = out
                 ELSE Visits(pend, out, pendNext, outNext, kids)

\* Every node written down is a first one or a child of one before it.
ParentsFirst(out, first, kids) ==
  \A i \in 1 .. Len(out) : out[i] \in first \/ \E j \in 1 .. i - 1 : out[i] \in kids[out[j]]

\* What is pending or written down is there once, and has been reached.
InOrder(pend, out, first, kids) ==
  /\ IsInjective(pend) /\ IsInjective(out) /\ ToSet(pend) \cap ToSet(out) = {}
  /\ \A x : x \in ToSet(pend) \/ x \in ToSet(out) <=> x \in first \/ \E p \in ToSet(out) : x \in kids[p]
  /\ ParentsFirst(out, first, kids)

\* From the first nodes one stays in W, and reaches every node in one way only.
OneWay(U, W, first, kids) ==
  /\ first \subseteq W /\ W \subseteq U /\ kids \in [U -> SUBSET U]
  /\ \A p \in W : kids[p] \subseteq W /\ kids[p] \cap first = {}
  /\ \A p, q \in W : p # q => kids[p] \cap kids[q] = {}

\* A visit keeps the order, and writes down one node more.
LEMMA VisitKeeps ==
  ASSUME NEW U, NEW W, NEW first, NEW kids,
         NEW pend \in Seq(U), NEW out \in Seq(U), NEW pendNext \in Seq(U), NEW outNext \in Seq(U),
         OneWay(U, W, first, kids), InOrder(pend, out, first, kids),
         Visits(pend, out, pendNext, outNext, kids),
         ToSet(out) \subseteq W, ToSet(pend) \subseteq W
  PROVE  /\ InOrder(pendNext, outNext, first, kids) /\ Len(outNext) = Len(out) + 1
         /\ ToSet(outNext) \subseteq W /\ ToSet(pendNext) \subseteq W
<1>1. PICK p \in ToSet(pend) :
        /\ outNext = Append(out, p)
        /\ IsInjective(pend) /\ kids[p] \cap ToSet(pend) = {}
             => IsInjective(pendNext) /\ ToSet(pendNext) = (ToSet(pend) \ {p}) \cup kids[p]
  BY DEF Visits
<1>0. /\ first \subseteq W /\ W \subseteq U /\ kids \in [U -> SUBSET U]
      /\ \A q \in W : kids[q] \subseteq W /\ kids[q] \cap first = {}
      /\ \A q, r \in W : q # r => kids[q] \cap kids[r] = {}
  BY DEF OneWay
<1>2. p \in W /\ p \in U /\ p \notin ToSet(out)
  BY <1>0 DEF InOrder
<1>3. kids[p] \cap (ToSet(pend) \cup ToSet(out)) = {}
  <2> SUFFICES ASSUME NEW x \in kids[p], x \in ToSet(pend) \cup ToSet(out) PROVE FALSE
    OBVIOUS
  <2>1. x \in first \/ \E q \in ToSet(out) : x \in kids[q]
    BY DEF InOrder
  <2> QED
    BY <1>0, <1>2, <2>1
<1>4. IsInjective(pendNext) /\ ToSet(pendNext) = (ToSet(pend) \ {p}) \cup kids[p]
  BY <1>1, <1>3 DEF InOrder
<1>5. /\ Len(outNext) = Len(out) + 1 /\ ToSet(outNext) = ToSet(out) \cup {p}
      /\ IsInjective(outNext)
  BY <1>1, <1>2, Appended DEF InOrder
<1>6. ASSUME NEW x
      PROVE  x \in ToSet(pendNext) \/ x \in ToSet(outNext)
               <=> x \in first \/ \E q \in ToSet(outNext) : x \in kids[q]
  <2>1. (\E q \in ToSet(outNext) : x \in kids[q])
          <=> (\E q \in ToSet(out) : x \in kids[q]) \/ x \in kids[p]
    BY <1>5
  <2>2. x \in ToSet(pendNext) \/ x \in ToSet(outNext)
          <=> x \in ToSet(pend) \/ x \in ToSet(out) \/ x \in kids[p]
    BY <1>1, <1>4, <1>5
  <2> QED
    BY <2>1, <2>2 DEF InOrder
<1>7. ParentsFirst(outNext, first, kids)
  <2> DEFINE n == Len(out)
  <2>1. n \in Nat /\ outNext[n + 1] = p /\ \A i \in 1 .. n : outNext[i] = out[i]
    BY <1>1
  <2>2. DOMAIN out = 1 .. n
    OBVIOUS
  <2> HIDE DEF n
  <2> SUFFICES ASSUME NEW i \in 1 .. n + 1
               PROVE  outNext[i] \in first \/ \E j \in 1 .. i - 1 : outNext[i] \in kids[outNext[j]]
    BY <1>5 DEF ParentsFirst, n
  <2>3. CASE i \in 1 .. n
    <3>1. out[i] \in first \/ \E j \in 1 .. i - 1 : out[i] \in kids[out[j]]
      BY <2>3 DEF InOrder, ParentsFirst, n
    <3>2. \A j \in 1 .. i - 1 : j \in 1 .. n
      BY <2>1, <2>3
    <3> QED
      BY <2>1, <2>3, <3>1, <3>2
  <2>4. CASE i = n + 1
    <3>1. p \in first \/ \E q \in ToSet(out) : p \in kids[q]
      BY <1>1 DEF InOrder
    <3>2. p \in first \/ \E j \in 1 .. n : p \in kids[out[j]]
      BY <3>1, <2>2 DEF ToSet
    <3>3. i - 1 = n
      BY <2>1, <2>4
    <3> QED
      BY <2>1, <2>4, <3>2, <3>3
  <2> QED
    BY <2>1, <2>3, <2>4
<1>8. ToSet(outNext) \subseteq W /\ ToSet(pendNext) \subseteq W
  BY <1>0, <1>2, <1>4, <1>5
<1> QED
  BY <1>2, <1>3, <1>4, <1>5, <1>6, <1>7, <1>8 DEF InOrder

\* pend and out after each of n rounds.
Rounds(n, U, first, kids, pend, out) ==
  /\ pend \in [0 .. n -> Seq(U)] /\ out \in [0 .. n -> Seq(U)]
  /\ ToSet(pend[0]) = first /\ IsInjective(pend[0]) /\ out[0] = <<>>
  /\ \A k \in 1 .. n : Round(pend[k - 1], out[k - 1], pend[k], out[k], kids)

\* A traversal of as many rounds as there are nodes to reach leaves nothing pending
\* if every node is reached in one way only.
LEMMA Traversal ==
  ASSUME NEW U, NEW W, NEW first, NEW kids, OneWay(U, W, first, kids),
         NEW n \in Nat, IsFiniteSet(W), Cardinality(W) <= n,
         NEW pend, NEW out, Rounds(n, U, first, kids, pend, out)
  PROVE  /\ pend[n] = <<>>
         /\ IsInjective(out[n]) /\ ToSet(out[n]) \subseteq W
         /\ \A x : x \in ToSet(out[n]) <=> x \in first \/ \E p \in ToSet(out[n]) : x \in kids[p]
         /\ ParentsFirst(out[n], first, kids)
<1> DEFINE Right(k) == /\ InOrder(pend[k], out[k], first, kids)
                       /\ ToSet(out[k]) \subseteq W /\ ToSet(pend[k]) \subseteq W
                       /\ pend[k] # <<>> => Len(out[k]) = k
<1>1. Right(0)
  <2>0. first \subseteq W
    BY DEF OneWay
  <2>1. ToSet(<<>>) = {} /\ IsInjective(<<>>) /\ Len(<<>>) = 0
    BY DEF ToSet, IsInjective
  <2>2. ParentsFirst(out[0], first, kids)
    BY DEF ParentsFirst, Rounds
  <2> QED
    BY <2>0, <2>1, <2>2 DEF InOrder, Rounds
<1>2. ASSUME NEW k \in 1 .. n, Right(k - 1) PROVE Right(k)
  <2>1. k - 1 \in 0 .. n /\ k \in 0 .. n /\ (k - 1) + 1 = k
    OBVIOUS
  <2>2. PICK a \in Seq(U) : a = pend[k - 1]
    BY <2>1 DEF Rounds
  <2>3. PICK b \in Seq(U) : b = out[k - 1]
    BY <2>1 DEF Rounds
  <2>4. PICK c \in Seq(U) : c = pend[k]
    BY <2>1 DEF Rounds
  <2>5. PICK e \in Seq(U) : e = out[k]
    BY <2>1 DEF Rounds
  <2>6. /\ InOrder(a, b, first, kids) /\ ToSet(b) \subseteq W /\ ToSet(a) \subseteq W
        /\ a # <<>> => Len(b) = k - 1
        /\ Round(a, b, c, e, kids)
    BY <1>2, <2>2, <2>3, <2>4, <2>5 DEF Rounds
  <2>7. CASE a = <<>>
    <3>1. c = <<>> /\ e = b
      BY <2>6, <2>7 DEF Round
    <3> QED
      BY <2>4, <2>5, <2>6, <2>7, <3>1
  <2>8. CASE a # <<>>
    <3>1. Visits(a, b, c, e, kids)
      BY <2>6, <2>8 DEF Round
    <3>0. InOrder(a, b, first, kids) /\ ToSet(b) \subseteq W /\ ToSet(a) \subseteq W
      BY <2>6
    <3>2. InOrder(c, e, first, kids) /\ Len(e) = Len(b) + 1 /\ ToSet(e) \subseteq W /\ ToSet(c) \subseteq W
      BY <3>0, <3>1, VisitKeeps
    <3>3. Len(e) = k
      BY <2>1, <2>6, <2>8, <3>2
    <3> QED
      BY <2>4, <2>5, <3>2, <3>3
  <2> QED
    BY <2>7, <2>8
<1>3. Right(n)
  <2> DEFINE wrong == {k \in 0 .. n : ~ Right(k)}
  <2>0. n \in 0 .. n /\ 0 .. n \subseteq Nat
    OBVIOUS
  <2> HIDE DEF Right
  <2> SUFFICES ASSUME wrong # {} PROVE FALSE
    BY <2>0
  <2>1. wrong \subseteq Nat
    BY <2>0
  <2>2. PICK k \in wrong : \A l \in wrong : k <= l
    BY <2>1, LeastNumber
  <2>3. k # 0 /\ k \in 0 .. n
    BY <1>1
  <2>4. k \in 1 .. n /\ k - 1 \in 0 .. n /\ ~ (k <= k - 1)
    BY <2>3
  <2>5. Right(k - 1)
    BY <2>2, <2>4
  <2> QED
    BY <1>2, <2>4, <2>5
<1>4. ASSUME pend[n] # <<>> PROVE FALSE
  <2> DEFINE done == ToSet(out[n])
  <2>0. pend[n] \in Seq(U) /\ out[n] \in Seq(U)
    BY DEF Rounds
  <2>1. PICK p \in ToSet(pend[n]) : TRUE
    <3>0. PICK a \in Seq(U) : a = pend[n]
      BY <2>0
    <3>1. 1 \in DOMAIN a
      BY <1>4, <3>0
    <3> QED
      BY <3>0, <3>1 DEF ToSet
  <2>2. IsFiniteSet(done) /\ Cardinality(done) = n
    BY <1>3, <1>4, <2>0, LengthOf DEF InOrder
  <2>3. p \notin done /\ done \cup {p} \subseteq W
    BY <1>3, <2>1 DEF InOrder
  <2> HIDE DEF done
  <2>4. Cardinality(done \cup {p}) = n + 1
    BY <2>2, <2>3, FS_AddElement
  <2>5. Cardinality(done \cup {p}) <= Cardinality(W)
    BY <2>3, FS_Subset
  <2>6. Cardinality(W) \in Nat
    BY FS_CardinalityType
  <2> QED
    BY <2>4, <2>5, <2>6
<1>5. InOrder(pend[n], out[n], first, kids) /\ ToSet(out[n]) \subseteq W /\ pend[n] = <<>>
  BY <1>3, <1>4
<1>6. ToSet(pend[n]) = {}
  BY <1>5 DEF ToSet
<1> QED
  BY <1>5, <1>6 DEF InOrder

\* A traversal that comes to nodes each of which has another of them for a child does
\* not end.
LEMMA NeverDone ==
  ASSUME NEW U, NEW first, NEW kids, NEW C, NEW n \in Nat, NEW pend, NEW out,
         Rounds(n, U, first, kids, pend, out),
         first \cap C # {}, \A c \in C : kids[c] \cap C # {}
  PROVE  pend[n] # <<>>
<1> DEFINE Right(k) == ToSet(pend[k]) \cap C # {}
<1>1. Right(0)
  BY DEF Rounds
<1>0. \A k : pend[k] = <<>> => ~ Right(k)
  BY DEF ToSet
<1>2. ASSUME NEW k \in 1 .. n, Right(k - 1) PROVE Right(k)
  <2>1. Round(pend[k - 1], out[k - 1], pend[k], out[k], kids)
    BY DEF Rounds
  <2>2. PICK a, b, c, e : a = pend[k - 1] /\ b = out[k - 1] /\ c = pend[k] /\ e = out[k]
    OBVIOUS
  <2>3. a # <<>> /\ ToSet(a) \cap C # {}
    BY <1>0, <1>2, <2>2
  <2>4. PICK p \in ToSet(a) : (ToSet(a) \ {p}) \cup kids[p] \subseteq ToSet(c)
    BY <2>1, <2>2, <2>3 DEF Round, Visits
  <2>5. ToSet(c) \cap C # {}
    BY <2>3, <2>4
  <2> QED
    BY <2>2, <2>5
<1>3. Right(n)
  <2> DEFINE wrong == {k \in 0 .. n : ~ Right(k)}
  <2>0. n \in 0 .. n /\ 0 .. n \subseteq Nat
    OBVIOUS
  <2> HIDE DEF Right
  <2> SUFFICES ASSUME wrong # {} PROVE FALSE
    BY <2>0
  <2>1. wrong \subseteq Nat
    BY <2>0
  <2>2. PICK k \in wrong : \A l \in wrong : k <= l
    BY <2>1, LeastNumber
  <2>3. k # 0 /\ k \in 0 .. n
    BY <1>1
  <2>4. k \in 1 .. n /\ k - 1 \in 0 .. n /\ ~ (k <= k - 1)
    BY <2>3
  <2>5. Right(k - 1)
    BY <2>2, <2>4
  <2> QED
    BY <1>2, <2>4, <2>5
<1> QED
  BY <1>0, <1>3

-----------------------------------------------------------------------------
(* The functions of TreeTool *)

\* No node is a root and a child, or twice a child.
IsForest(forest) ==
  /\ IsFiniteSet(Nodes(forest))
  /\ forest.roots \in Seq(Nodes(forest)) /\ IsInjective(forest.roots)
  /\ forest.children \in [Nodes(forest) -> Seq(Nodes(forest))]
  /\ \A p \in Nodes(forest) : /\ IsInjective(forest.children[p])
                              /\ ToSet(forest.children[p]) \cap ToSet(forest.roots) = {}
  /\ \A p, q \in Nodes(forest) :
       p # q => ToSet(forest.children[p]) \cap ToSet(forest.children[q]) = {}

KidsIn(forest) == [p \in Nodes(forest) |-> ToSet(forest.children[p])]

\* Flatten writes down what is reached from the roots, once, and after its parent.
LEMMA Flattened ==
  ASSUME NEW forest, IsForest(forest)
  PROVE  /\ Flatten(forest) \in Seq(Nodes(forest)) /\ IsInjective(Flatten(forest))
         /\ \A x : x \in ToSet(Flatten(forest))
              <=> \/ x \in ToSet(forest.roots)
                  \/ \E p \in ToSet(Flatten(forest)) : x \in KidsIn(forest)[p]
         /\ ParentsFirst(Flatten(forest), ToSet(forest.roots), KidsIn(forest))
<1> DEFINE V == Nodes(forest)  n == NumNodes(forest)
           S == [stack : Seq(V), out : Seq(V)]
           kids == KidsIn(forest)
           next(at) == IF at.stack = <<>> THEN at
                       ELSE [stack |-> Front(at.stack) \o Reverse(forest.children[Last(at.stack)]),
                             out |-> Append(at.out, Last(at.stack))]
           visit == [k \in 1 .. n |-> [at \in S |-> next(at)]]
           start == [stack |-> forest.roots, out |-> <<>>]
           after == Repeats(visit, start, n)
           pend == [k \in 0 .. n |-> after[k].stack]
           out == [k \in 0 .. n |-> after[k].out]
<1>1. /\ n \in Nat /\ n = Cardinality(V) /\ IsFiniteSet(V)
      /\ forest.roots \in Seq(V) /\ forest.children \in [V -> Seq(V)]
  BY FS_CardinalityType DEF IsForest, NumNodes
<1>2. ASSUME NEW at \in S
      PROVE  /\ next(at) \in S
             /\ Round(at.stack, at.out, next(at).stack, next(at).out, kids)
  <2>0. at.stack \in Seq(V) /\ at.out \in Seq(V)
    OBVIOUS
  <2>1. CASE at.stack = <<>>
    BY <2>1 DEF Round
  <2>2. CASE at.stack # <<>>
    <3> DEFINE p == Last(at.stack)  rest == Front(at.stack)  pushed == Reverse(forest.children[p])
    <3>1. /\ rest \in Seq(V) /\ p \in V /\ ToSet(at.stack) = ToSet(rest) \cup {p}
          /\ IsInjective(at.stack) => IsInjective(rest) /\ p \notin ToSet(rest)
      BY <2>0, <2>2, LastApart
    <3>2. forest.children[p] \in Seq(V) /\ IsInjective(forest.children[p])
      BY <1>1, <3>1 DEF IsForest
    <3>3. pushed \in Seq(V) /\ ToSet(pushed) = kids[p] /\ IsInjective(pushed)
      BY <3>1, <3>2, Reversed DEF KidsIn
    <3>4. next(at) = [stack |-> rest \o pushed, out |-> Append(at.out, p)]
      BY <2>2
    <3> HIDE DEF p, rest, pushed, next, kids
    <3>5. /\ rest \o pushed \in Seq(V) /\ ToSet(rest \o pushed) = ToSet(rest) \cup kids[p]
          /\ IsInjective(rest) /\ ToSet(rest) \cap kids[p] = {} => IsInjective(rest \o pushed)
      BY <3>1, <3>3, Concatenated
    <3>6. next(at).stack = rest \o pushed /\ next(at).out = Append(at.out, p)
      BY <3>4
    <3>7. p \in ToSet(at.stack)
      BY <3>1
    <3>8. IsInjective(at.stack) /\ kids[p] \cap ToSet(at.stack) = {}
            => /\ IsInjective(next(at).stack)
               /\ ToSet(next(at).stack) = (ToSet(at.stack) \ {p}) \cup kids[p]
      BY <3>1, <3>5, <3>6
    <3>9. next(at) \in S
      BY <2>0, <3>1, <3>4, <3>5
    <3>10. (ToSet(at.stack) \ {p}) \cup kids[p] \subseteq ToSet(next(at).stack)
      BY <3>1, <3>5, <3>6
    <3> QED
      BY <2>2, <3>6, <3>7, <3>8, <3>9, <3>10 DEF Round, Visits
  <2> QED
    BY <2>1, <2>2
<1> HIDE DEF next
<1>3. visit \in [1 .. n -> [S -> S]] /\ start \in S
  BY <1>1, <1>2
<1>4. \A k \in 1 .. n : \A at \in S : visit[k][at] = next(at)
  OBVIOUS
<1> HIDE DEF visit, start, S, V, n
<1>5. /\ after \in [0 .. n -> S] /\ after[0] = start
      /\ \A k \in 1 .. n : after[k] = visit[k][after[k - 1]]
  <2>0. n \in Nat
    BY <1>1
  <2>1. after \in [0 .. n -> S]
    BY <2>0, <1>3, RepeatsTyped
  <2>2. after[0] = start /\ \A k \in 1 .. n : after[k] = visit[k][after[k - 1]]
    BY <2>0, RepeatsIs
  <2> HIDE DEF after
  <2> QED
    BY <2>1, <2>2
<1> HIDE DEF after
<1>6. Rounds(n, V, ToSet(forest.roots), kids, pend, out)
  <2>1. pend \in [0 .. n -> Seq(V)] /\ out \in [0 .. n -> Seq(V)]
    BY <1>5 DEF S
  <2>2. pend[0] = forest.roots /\ out[0] = <<>> /\ IsInjective(forest.roots)
    BY <1>1, <1>5 DEF start, IsForest
  <2>3. ASSUME NEW k \in 1 .. n PROVE Round(pend[k - 1], out[k - 1], pend[k], out[k], kids)
    <3>1. k - 1 \in 0 .. n /\ k \in 0 .. n
      BY <1>1
    <3>2. PICK at \in S : at = after[k - 1]
      BY <1>5, <3>1
    <3>3. after[k] = next(at)
      BY <1>4, <1>5, <3>2
    <3> QED
      BY <1>2, <3>1, <3>2, <3>3
  <2> HIDE DEF pend, out
  <2> QED
    BY <2>1, <2>2, <2>3 DEF Rounds
<1>7. OneWay(V, V, ToSet(forest.roots), kids)
  <2>1. ToSet(forest.roots) \subseteq V
    BY <1>1 DEF ToSet
  <2>2. \A p \in V : ToSet(forest.children[p]) \subseteq V
    BY <1>1 DEF ToSet
  <2>3. kids = [p \in V |-> ToSet(forest.children[p])]
    BY DEF KidsIn, V
  <2> HIDE DEF kids
  <2> QED
    BY <2>1, <2>2, <2>3 DEF OneWay, IsForest, V
<1> HIDE DEF pend, kids
<1>8. Cardinality(V) <= n
  BY <1>1
<1>9. /\ IsInjective(out[n])
      /\ \A x : x \in ToSet(out[n]) <=> x \in ToSet(forest.roots) \/ \E p \in ToSet(out[n]) : x \in kids[p]
      /\ ParentsFirst(out[n], ToSet(forest.roots), kids)
  <2> HIDE DEF out
  <2>0. n \in Nat /\ IsFiniteSet(V)
    BY <1>1
  <2>1. IsInjective(out[n])
    BY <2>0, <1>6, <1>7, <1>8, Traversal
  <2>2. \A x : x \in ToSet(out[n]) <=> x \in ToSet(forest.roots) \/ \E p \in ToSet(out[n]) : x \in kids[p]
    BY <2>0, <1>6, <1>7, <1>8, Traversal
  <2>3. ParentsFirst(out[n], ToSet(forest.roots), kids)
    BY <2>0, <1>6, <1>7, <1>8, Traversal
  <2> QED
    BY <2>1, <2>2, <2>3
<1>10. out[n] = Flatten(forest) /\ out[n] \in Seq(V)
  <2>1. out[n] = after[n].out /\ after[n] \in S
    BY <1>1, <1>5
  <2>2. Flatten(forest) = after[n].out
    BY DEF Flatten, after, visit, start, S, V, n, next
  <2> QED
    BY <2>1, <2>2 DEF S
<1> HIDE DEF out
<1> QED
  BY <1>9, <1>10 DEF kids, V

-----------------------------------------------------------------------------
(* FilterTree and FindPath *)

\* The nodes FilterTree keeps after each round.
Kept(forest, matching) ==
  Repeats([k \in 1 .. NumNodes(forest) |-> [keep \in SUBSET Nodes(forest) |->
            {n \in Nodes(forest) : n \in matching \/ ToSet(forest.children[n]) \cap keep # {}}]],
          {}, NumNodes(forest))

\* The rounds of FilterTree: what matches, and the parents of what is kept.
LEMMA KeptIs ==
  ASSUME NEW forest, IsForest(forest), NEW matching
  PROVE  /\ NumNodes(forest) \in Nat
         /\ Kept(forest, matching) \in [0 .. NumNodes(forest) -> SUBSET Nodes(forest)]
         /\ Kept(forest, matching)[0] = {}
         /\ \A k \in 1 .. NumNodes(forest) :
              Kept(forest, matching)[k] =
                {n \in Nodes(forest) : \/ n \in matching
                                       \/ ToSet(forest.children[n]) \cap Kept(forest, matching)[k - 1] # {}}
<1> DEFINE V == Nodes(forest)  N == NumNodes(forest)
           S == SUBSET V
           next(keep) == {n \in V : n \in matching \/ ToSet(forest.children[n]) \cap keep # {}}
           more == [k \in 1 .. N |-> [keep \in S |-> next(keep)]]
           kept == Repeats(more, {}, N)
<1>1. N \in Nat
  BY FS_CardinalityType DEF IsForest, NumNodes
<1>2. \A keep \in SUBSET V : next(keep) \in SUBSET V
  OBVIOUS
<1>3. Kept(forest, matching) = kept
  BY DEF Kept
<1>4. \A keep : next(keep) = {n \in V : n \in matching \/ ToSet(forest.children[n]) \cap keep # {}}
  OBVIOUS
<1> HIDE DEF next
<1>5. more \in [1 .. N -> [S -> S]] /\ {} \in S
  BY <1>2
<1>6. \A k \in 1 .. N : \A keep \in S : more[k][keep] = next(keep)
  OBVIOUS
<1> HIDE DEF more, N, S
<1>7. /\ kept \in [0 .. N -> S] /\ kept[0] = {}
      /\ \A k \in 1 .. N : kept[k] = more[k][kept[k - 1]]
  <2>1. kept \in [0 .. N -> S]
    BY <1>1, <1>5, RepeatsTyped
  <2>2. kept[0] = {} /\ \A k \in 1 .. N : kept[k] = more[k][kept[k - 1]]
    BY <1>1, RepeatsIs
  <2> HIDE DEF kept
  <2> QED
    BY <2>1, <2>2
<1> HIDE DEF kept
<1>8. ASSUME NEW k \in 1 .. N PROVE kept[k] = next(kept[k - 1])
  <2>1. k - 1 \in 0 .. N
    BY <1>1
  <2>2. kept[k - 1] \in S
    BY <1>7, <2>1
  <2> QED
    BY <1>6, <1>7, <2>2
<1>9. \A k \in 1 .. N : kept[k] = {n \in V : n \in matching \/ ToSet(forest.children[n]) \cap kept[k - 1] # {}}
  BY <1>4, <1>8
<1> QED
  BY <1>1, <1>3, <1>7, <1>9 DEF N, S

\* No round drops what the one before kept.
LEMMA KeptGrows ==
  ASSUME NEW forest, IsForest(forest), NEW matching
  PROVE  \A k \in 1 .. NumNodes(forest) :
           Kept(forest, matching)[k - 1] \subseteq Kept(forest, matching)[k]
<1> DEFINE N == NumNodes(forest)  kept == Kept(forest, matching)
           wrong == {k \in 1 .. N : ~ (kept[k - 1] \subseteq kept[k])}
<1>1. /\ N \in Nat /\ kept[0] = {}
      /\ \A k \in 1 .. N : \A n : n \in kept[k]
           <=> n \in Nodes(forest) /\ (n \in matching \/ ToSet(forest.children[n]) \cap kept[k - 1] # {})
  BY KeptIs
<1> HIDE DEF N, kept
<1>2. ASSUME wrong # {} PROVE FALSE
  <2>0. wrong \subseteq Nat
    BY <1>1
  <2>1. PICK k \in wrong : \A l \in wrong : k <= l
    BY <1>2, <2>0, LeastNumber
  <2>2. k \in 1 .. N /\ ~ (kept[k - 1] \subseteq kept[k])
    OBVIOUS
  <2>3. k # 1
    BY <1>1, <2>2
  <2>4. k - 1 \in 1 .. N /\ ~ (k <= k - 1)
    BY <1>1, <2>2, <2>3
  <2>5. k - 1 \notin wrong
    BY <2>1, <2>4
  <2> HIDE DEF wrong
  <2>6. kept[(k - 1) - 1] \subseteq kept[k - 1]
    BY <2>4, <2>5 DEF wrong
  <2>7. kept[k - 1] \subseteq kept[k]
    BY <1>1, <2>2, <2>4, <2>6
  <2> QED
    BY <2>2, <2>7
<1> QED
  BY <1>2 DEF N, kept

\* A root is kept for every node that Flatten shows: each round keeps one that was
\* written down earlier, or a root.
LEMMA RootKept ==
  ASSUME NEW forest, IsForest(forest), NEW d \in ToSet(Flatten(forest))
  PROVE  \E r \in ToSet(forest.roots) : r \in Kept(forest, {d})[NumNodes(forest)]
<1> DEFINE N == NumNodes(forest)  V == Nodes(forest)
           matching == {d}  kept == Kept(forest, matching)
           shown == Flatten(forest)  M == Len(shown)  roots == ToSet(forest.roots)
           Right(k) == \E i \in 1 .. M : shown[i] \in kept[k] /\ (shown[i] \in roots \/ i + k <= N + 1)
<1>0. d \in matching
  OBVIOUS
<1> HIDE DEF matching
<1>1. /\ N \in Nat
      /\ \A k \in 1 .. N : kept[k] =
           {n \in V : n \in matching \/ ToSet(forest.children[n]) \cap kept[k - 1] # {}}
  BY KeptIs
<1>2. \A k \in 1 .. N : kept[k - 1] \subseteq kept[k]
  BY KeptGrows
<1>3. shown \in Seq(V) /\ IsInjective(shown) /\ ParentsFirst(shown, roots, KidsIn(forest))
  BY Flattened
<1>4. M \in Nat /\ M <= N /\ \A i \in 1 .. M : shown[i] \in V
  <2>1. Cardinality(ToSet(shown)) = M
    BY <1>3, LengthOf
  <2>2. ToSet(shown) \subseteq V
    BY <1>3 DEF ToSet
  <2>3. M <= N
    BY <2>1, <2>2, FS_Subset DEF IsForest, NumNodes
  <2> QED
    BY <1>3, <2>3
<1>5. \A i \in 1 .. M : shown[i] \in roots \/ \E j \in 1 .. i - 1 : shown[i] \in ToSet(forest.children[shown[j]])
  <2>1. ASSUME NEW i \in 1 .. M, NEW j \in 1 .. i - 1 PROVE KidsIn(forest)[shown[j]] = ToSet(forest.children[shown[j]])
    BY <1>4 DEF KidsIn
  <2> QED
    BY <1>3, <2>1 DEF ParentsFirst
<1>6. PICK m \in 1 .. M : shown[m] = d
  BY <1>3 DEF ToSet
<1> HIDE DEF N, V, kept, shown, M, roots
<1>7. 1 \in 1 .. N /\ N \in 1 .. N
  BY <1>1, <1>4, <1>6
<1>8. Right(1)
  <2>1. shown[m] \in kept[1] /\ m + 1 <= N + 1
    BY <1>0, <1>1, <1>4, <1>6, <1>7
  <2> QED
    BY <2>1
<1>9. ASSUME NEW k \in 1 .. N, k # 1, Right(k - 1) PROVE Right(k)
  <2>1. PICK i \in 1 .. M : shown[i] \in kept[k - 1] /\ (shown[i] \in roots \/ i + (k - 1) <= N + 1)
    BY <1>9
  <2>2. CASE shown[i] \in roots
    BY <1>2, <2>1, <2>2
  <2>3. CASE shown[i] \notin roots
    <3>1. PICK j \in 1 .. i - 1 : shown[i] \in ToSet(forest.children[shown[j]])
      BY <1>5, <2>3
    <3>2. j \in 1 .. M /\ j + k <= N + 1
      BY <1>1, <1>4, <2>1, <2>3
    <3>3. shown[j] \in kept[k]
      BY <1>1, <1>4, <2>1, <3>1, <3>2
    <3> QED
      BY <3>2, <3>3
  <2> QED
    BY <2>2, <2>3
<1>10. Right(N)
  <2> DEFINE wrong == {k \in 1 .. N : ~ Right(k)}
  <2> HIDE DEF Right
  <2> SUFFICES ASSUME wrong # {} PROVE FALSE
    BY <1>7
  <2>1. wrong \subseteq Nat
    BY <1>1
  <2>2. PICK k \in wrong : \A l \in wrong : k <= l
    BY <2>1, LeastNumber
  <2>3. k # 1 /\ k \in 1 .. N
    BY <1>8
  <2>4. k - 1 \in 1 .. N /\ ~ (k <= k - 1)
    BY <1>1, <2>3
  <2>5. Right(k - 1)
    BY <2>2, <2>4
  <2> QED
    BY <1>9, <2>3, <2>5
<1>11. PICK i \in 1 .. M : shown[i] \in kept[N] /\ (shown[i] \in roots \/ i + N <= N + 1)
  BY <1>10
<1>12. shown[i] \in roots
  <2>1. CASE i = 1
    BY <1>5, <2>1
  <2> QED
    BY <1>1, <1>4, <1>11, <2>1
<1> QED
  BY <1>11, <1>12 DEF kept, N, roots, matching

\* A sequence of nodes down to d, each a child of the one before.
Chain(forest, d, s) ==
  /\ s \in Seq(Nodes(forest)) /\ s # <<>> /\ s[Len(s)] = d
  /\ \A i \in 1 .. Len(s) - 1 : s[i + 1] \in ToSet(forest.children[s[i]])

\* A parent before a chain makes a chain.
LEMMA ChainGrows ==
  ASSUME NEW forest, NEW d, NEW s, Chain(forest, d, s),
         NEW n \in Nodes(forest), s[1] \in ToSet(forest.children[n])
  PROVE  /\ Chain(forest, d, <<n>> \o s) /\ (<<n>> \o s)[1] = n
         /\ ToSet(<<n>> \o s) = {n} \cup ToSet(s)
<1> DEFINE q == <<n>> \o s  m == Len(s)
<1>1. s \in Seq(Nodes(forest)) /\ m \in Nat /\ m # 0
  BY DEF Chain
<1>2. q \in Seq(Nodes(forest)) /\ ToSet(q) = ToSet(<<n>>) \cup ToSet(s)
  <2>1. PICK a : a = <<n>>
    OBVIOUS
  <2>2. PICK V : V = Nodes(forest)
    OBVIOUS
  <2>3. a \in Seq(V) /\ s \in Seq(V)
    BY <1>1, <2>1, <2>2
  <2>4. a \o s \in Seq(V) /\ ToSet(a \o s) = ToSet(a) \cup ToSet(s)
    BY <2>3, Concatenated
  <2> QED
    BY <2>1, <2>2, <2>4
<1>3. Len(q) = m + 1 /\ q[1] = n /\ \A i \in 1 .. m : q[i + 1] = s[i]
  BY <1>1
<1>4. ToSet(<<n>>) = {n}
  BY DEF ToSet
<1> HIDE DEF q
<1>5. s[m] = d /\ \A i \in 1 .. m - 1 : s[i + 1] \in ToSet(forest.children[s[i]])
  BY DEF Chain
<1> HIDE DEF m
<1>6. q[Len(q)] = d
  <2>1. m \in 1 .. m
    BY <1>1
  <2> QED
    BY <1>3, <1>5, <2>1
<1>7. ASSUME NEW i \in 1 .. m PROVE q[i + 1] \in ToSet(forest.children[q[i]])
  <2>1. CASE i = 1
    BY <1>3, <2>1
  <2>2. CASE i # 1
    <3>1. i - 1 \in 1 .. m - 1 /\ i - 1 \in 1 .. m /\ (i - 1) + 1 = i
      BY <1>1, <2>2
    <3>2. q[i] = s[i - 1]
      BY <1>3, <3>1
    <3>3. s[i] \in ToSet(forest.children[s[i - 1]])
      BY <1>5, <3>1
    <3> QED
      BY <1>3, <3>2, <3>3
  <2> QED
    BY <2>1, <2>2
<1>8. q # <<>> /\ Len(q) - 1 = m
  BY <1>1, <1>3
<1>9. Chain(forest, d, q)
  BY <1>2, <1>6, <1>7, <1>8 DEF Chain
<1> QED
  BY <1>2, <1>3, <1>4, <1>9 DEF q

\* The nodes with a path, the path of each a chain down to one that matches.
Leads(forest, matching, below, kept) ==
  /\ below \in [Nodes(forest) -> Seq(Nodes(forest))] /\ kept \subseteq Nodes(forest)
  /\ \A n \in Nodes(forest) : below[n] # <<>> <=> n \in kept
  /\ \A n \in kept : /\ \E d \in matching : Chain(forest, d, below[n])
                     /\ below[n][1] = n /\ ToSet(below[n]) \subseteq kept

Hits(forest, nodes, below) == Select(nodes, {n \in Nodes(forest) : below[n] # <<>>})

\* The first child that is on a path, if one is.
LEMMA FirstHit ==
  ASSUME NEW forest, NEW matching, NEW below, NEW kept, Leads(forest, matching, below, kept),
         NEW nodes \in Seq(Nodes(forest))
  PROVE  /\ Hits(forest, nodes, below) = <<>> <=> ToSet(nodes) \cap kept = {}
         /\ Hits(forest, nodes, below) # <<>> => Head(Hits(forest, nodes, below)) \in ToSet(nodes) \cap kept
<1> DEFINE V == Nodes(forest)  chosen == {n \in V : below[n] # <<>>}  hits == Hits(forest, nodes, below)
<1>1. chosen = kept
  BY DEF Leads
<1>2. hits = Select(nodes, chosen)
  BY DEF Hits
<1> HIDE DEF chosen, hits, V
<1>3. hits \in Seq(V) /\ ToSet(hits) = ToSet(nodes) \cap kept
  BY <1>1, <1>2, Selected DEF V
<1>4. hits # <<>> => Head(hits) \in ToSet(hits)
  BY <1>3, HeadApart
<1>5. hits = <<>> => ToSet(hits) = {}
  BY DEF ToSet
<1> QED
  BY <1>3, <1>4, <1>5 DEF hits

NextPaths(forest, matching, below) ==
  [n \in Nodes(forest) |->
     IF n \in matching THEN <<n>>
     ELSE IF Hits(forest, forest.children[n], below) = <<>> THEN <<>>
     ELSE <<n>> \o below[Head(Hits(forest, forest.children[n], below))]]

\* A round of FindPath follows one of FilterTree.
LEMMA NextLeads ==
  ASSUME NEW forest, IsForest(forest), NEW matching, NEW below, NEW kept,
         Leads(forest, matching, below, kept),
         NEW keptNext,
         keptNext = {n \in Nodes(forest) : n \in matching \/ ToSet(forest.children[n]) \cap kept # {}},
         kept \subseteq keptNext
  PROVE  Leads(forest, matching, NextPaths(forest, matching, below), keptNext)
<1> DEFINE V == Nodes(forest)  next == NextPaths(forest, matching, below)
           OnPath(n) == /\ next[n] \in Seq(V)
                        /\ next[n] # <<>> <=> n \in keptNext
                        /\ n \in keptNext => /\ \E d \in matching : Chain(forest, d, next[n])
                                             /\ next[n][1] = n /\ ToSet(next[n]) \subseteq keptNext
<1>1. ASSUME NEW n \in V PROVE OnPath(n)
  <2> DEFINE hits == Hits(forest, forest.children[n], below)
  <2>1. next[n] = IF n \in matching THEN <<n>> ELSE IF hits = <<>> THEN <<>> ELSE <<n>> \o below[Head(hits)]
    BY DEF NextPaths
  <2>2. forest.children[n] \in Seq(V)
    BY DEF IsForest
  <2>3. /\ hits = <<>> <=> ToSet(forest.children[n]) \cap kept = {}
        /\ hits # <<>> => Head(hits) \in ToSet(forest.children[n]) \cap kept
    BY <2>2, FirstHit
  <2>4. n \in keptNext <=> n \in matching \/ ToSet(forest.children[n]) \cap kept # {}
    OBVIOUS
  <2> HIDE DEF hits, next
  <2>5. CASE n \in matching
    <3>1. next[n] = <<n>> /\ n \in keptNext
      BY <2>1, <2>4, <2>5
    <3> DEFINE s == <<n>>
    <3>2. s \in Seq(V) /\ s # <<>> /\ s[1] = n /\ Len(s) = 1 /\ ToSet(s) = {n}
      BY DEF ToSet
    <3> HIDE DEF s
    <3>3. Chain(forest, n, s)
      BY <3>2 DEF Chain
    <3> QED
      BY <2>5, <3>1, <3>2, <3>3 DEF s
  <2>6. CASE n \notin matching /\ hits = <<>>
    <3>1. next[n] = <<>> /\ n \notin keptNext
      BY <2>1, <2>3, <2>4, <2>6
    <3> QED
      BY <3>1
  <2>7. CASE n \notin matching /\ hits # <<>>
    <3>1. PICK h : h = Head(hits)
      OBVIOUS
    <3>2. h \in ToSet(forest.children[n]) /\ h \in kept /\ next[n] = <<n>> \o below[h]
      BY <2>1, <2>3, <2>7, <3>1
    <3>3. PICK s : s = below[h]
      OBVIOUS
    <3>4. (\E d \in matching : Chain(forest, d, s)) /\ s[1] = h /\ ToSet(s) \subseteq kept
      BY <3>2, <3>3 DEF Leads
    <3>9. PICK d \in matching : Chain(forest, d, s)
      BY <3>4
    <3>5. /\ Chain(forest, d, <<n>> \o s) /\ (<<n>> \o s)[1] = n
          /\ ToSet(<<n>> \o s) = {n} \cup ToSet(s)
      BY <3>2, <3>4, <3>9, ChainGrows
    <3>6. n \in keptNext
      BY <2>4, <3>2
    <3>7. next[n] = <<n>> \o s
      BY <3>2, <3>3
    <3>8. next[n] \in Seq(V) /\ next[n] # <<>>
      BY <3>5, <3>7 DEF Chain
    <3> QED
      BY <3>4, <3>5, <3>6, <3>7, <3>8
  <2> QED
    BY <2>5, <2>6, <2>7
<1>2. next = [n \in V |-> next[n]]
  BY DEF NextPaths
<1>3. keptNext \subseteq V
  OBVIOUS
<1> HIDE DEF next, V
<1>4. next \in [V -> Seq(V)]
  BY <1>1, <1>2
<1>5. Leads(forest, matching, next, keptNext)
  BY <1>1, <1>3, <1>4 DEF Leads, V
<1> QED
  BY <1>5 DEF next

\* The search for a path finds one below just the nodes that FilterTree keeps.
Paths(forest, matching) ==
  Repeats([k \in 1 .. NumNodes(forest) |-> [below \in [Nodes(forest) -> Seq(Nodes(forest))] |->
             NextPaths(forest, matching, below)]],
          [n \in Nodes(forest) |-> <<>>], NumNodes(forest))

LEMMA PathsLead ==
  ASSUME NEW forest, IsForest(forest), NEW matching
  PROVE  Leads(forest, matching, Paths(forest, matching)[NumNodes(forest)],
               Kept(forest, matching)[NumNodes(forest)])
<1> DEFINE N == NumNodes(forest)  V == Nodes(forest)
           S == [V -> Seq(V)]  kept == Kept(forest, matching)  paths == Paths(forest, matching)
           deeper == [k \in 1 .. N |-> [below \in S |-> NextPaths(forest, matching, below)]]
           start == [n \in V |-> <<>>]
           Right(k) == Leads(forest, matching, paths[k], kept[k])
<1>1. paths = Repeats(deeper, start, N)
  BY DEF Paths
<1>2. /\ N \in Nat /\ kept[0] = {}
      /\ \A k \in 1 .. N : kept[k] =
           {n \in V : n \in matching \/ ToSet(forest.children[n]) \cap kept[k - 1] # {}}
      /\ \A k \in 1 .. N : kept[k - 1] \subseteq kept[k]
  BY KeptIs, KeptGrows
<1>3. \A k \in 1 .. N : \A below \in S : deeper[k][below] = NextPaths(forest, matching, below)
  OBVIOUS
<1>4. start \in S /\ \A n \in V : start[n] = <<>>
  OBVIOUS
<1> HIDE DEF N, deeper, start, paths, kept
<1>5. paths[0] = start /\ \A k \in 1 .. N : paths[k] = deeper[k][paths[k - 1]]
  BY <1>1, <1>2, RepeatsIs
<1>6. Right(0)
  BY <1>2, <1>4, <1>5 DEF Leads
<1>7. ASSUME NEW k \in 1 .. N, Right(k - 1) PROVE Right(k)
  <2>1. PICK below : below = paths[k - 1]
    OBVIOUS
  <2>2. PICK old : old = kept[k - 1]
    OBVIOUS
  <2>3. PICK new : new = kept[k]
    OBVIOUS
  <2>4. Leads(forest, matching, below, old)
    BY <1>7, <2>1, <2>2
  <2>5. below \in S
    BY <2>4 DEF Leads
  <2>6. paths[k] = NextPaths(forest, matching, below)
    BY <1>3, <1>5, <2>1, <2>5
  <2>7. old \subseteq new
    BY <1>2, <2>2, <2>3
  <2>8. new = {n \in V : n \in matching \/ ToSet(forest.children[n]) \cap old # {}}
    BY <1>2, <2>2, <2>3
  <2>9. Leads(forest, matching, NextPaths(forest, matching, below), new)
    BY <2>4, <2>7, <2>8, NextLeads
  <2> QED
    BY <2>3, <2>6, <2>9
<1>8. Right(N)
  <2> DEFINE wrong == {k \in 0 .. N : ~ Right(k)}
  <2> HIDE DEF Right
  <2> SUFFICES ASSUME wrong # {} PROVE FALSE
    BY <1>2
  <2>1. wrong \subseteq Nat
    BY <1>2
  <2>2. PICK k \in wrong : \A l \in wrong : k <= l
    BY <2>1, LeastNumber
  <2>3. k # 0 /\ k \in 0 .. N
    BY <1>6
  <2>4. k \in 1 .. N /\ k - 1 \in 0 .. N /\ ~ (k <= k - 1)
    BY <1>2, <2>3
  <2>5. Right(k - 1)
    BY <2>2, <2>4
  <2> QED
    BY <1>7, <2>4, <2>5
<1> QED
  BY <1>8 DEF N, kept, paths

\* FindPath leads from a root to a node that matches, over nodes that are kept.
LEMMA PathLeads ==
  ASSUME NEW forest, IsForest(forest), NEW matching,
         NEW r \in ToSet(forest.roots), r \in Kept(forest, matching)[NumNodes(forest)]
  PROVE  /\ \E d \in matching : Chain(forest, d, FindPath(forest, matching))
         /\ FindPath(forest, matching)[1] \in ToSet(forest.roots)
         /\ ToSet(FindPath(forest, matching)) \subseteq Kept(forest, matching)[NumNodes(forest)]
<1> DEFINE N == NumNodes(forest)  below == Paths(forest, matching)[N]  kept == Kept(forest, matching)[N]
           hits == Hits(forest, forest.roots, below)
<1>1. Leads(forest, matching, below, kept)
  BY PathsLead
<1>2. forest.roots \in Seq(Nodes(forest))
  BY DEF IsForest
<1>3. FindPath(forest, matching) = IF hits = <<>> THEN <<>> ELSE below[Head(hits)]
  BY DEF FindPath, Paths, NextPaths, Hits
<1> HIDE DEF below, kept
<1>4. hits # <<>> /\ Head(hits) \in ToSet(forest.roots) \cap kept
  BY <1>1, <1>2, FirstHit DEF kept
<1> HIDE DEF hits
<1>5. PICK h : h = Head(hits)
  OBVIOUS
<1>6. h \in ToSet(forest.roots) /\ h \in kept /\ FindPath(forest, matching) = below[h]
  BY <1>3, <1>4, <1>5
<1>7. (\E d \in matching : Chain(forest, d, below[h])) /\ below[h][1] = h /\ ToSet(below[h]) \subseteq kept
  BY <1>1, <1>6 DEF Leads
<1> QED
  BY <1>6, <1>7 DEF kept

\* Without a root that is kept there is no path.
LEMMA NoPath ==
  ASSUME NEW forest, IsForest(forest), NEW matching,
         \A r \in ToSet(forest.roots) : r \notin Kept(forest, matching)[NumNodes(forest)]
  PROVE  FindPath(forest, matching) = <<>>
<1> DEFINE N == NumNodes(forest)  below == Paths(forest, matching)[N]  kept == Kept(forest, matching)[N]
           hits == Hits(forest, forest.roots, below)
<1>1. Leads(forest, matching, below, kept)
  BY PathsLead
<1>2. forest.roots \in Seq(Nodes(forest))
  BY DEF IsForest
<1>3. FindPath(forest, matching) = IF hits = <<>> THEN <<>> ELSE below[Head(hits)]
  BY DEF FindPath, Paths, NextPaths, Hits
<1>4. ToSet(forest.roots) \cap kept = {}
  OBVIOUS
<1> HIDE DEF below, kept
<1>5. hits = <<>>
  BY <1>1, <1>2, <1>4, FirstHit
<1> QED
  BY <1>3, <1>5

\* A node that Flatten shows has a path.
LEMMA PathFound ==
  ASSUME NEW forest, IsForest(forest), NEW d \in ToSet(Flatten(forest))
  PROVE  /\ Chain(forest, d, FindPath(forest, {d}))
         /\ FindPath(forest, {d})[1] \in ToSet(forest.roots)
         /\ ToSet(FindPath(forest, {d})) \subseteq Kept(forest, {d})[NumNodes(forest)]
<1>1. PICK matching : matching = {d}
  OBVIOUS
<1>2. PICK r \in ToSet(forest.roots) : r \in Kept(forest, matching)[NumNodes(forest)]
  BY <1>1, RootKept
<1>3. /\ \E m \in matching : Chain(forest, m, FindPath(forest, matching))
      /\ FindPath(forest, matching)[1] \in ToSet(forest.roots)
      /\ ToSet(FindPath(forest, matching)) \subseteq Kept(forest, matching)[NumNodes(forest)]
  BY <1>2, PathLeads
<1> QED
  BY <1>1, <1>3

\* What is kept is on the path, since every node has one parent.
LEMMA KeptOnPath ==
  ASSUME NEW forest, IsForest(forest), NEW d, NEW path, Chain(forest, d, path),
         path[1] \in ToSet(forest.roots)
  PROVE  Kept(forest, {d})[NumNodes(forest)] \subseteq ToSet(path)
<1> DEFINE N == NumNodes(forest)  V == Nodes(forest)  matching == {d}
           kept == Kept(forest, matching)  m == Len(path)
           Right(k) == kept[k] \subseteq ToSet(path)
<1>0. matching = {d}
  OBVIOUS
<1> HIDE DEF matching
<1>1. /\ N \in Nat /\ kept[0] = {}
      /\ \A k \in 1 .. N : kept[k] =
           {n \in V : n \in matching \/ ToSet(forest.children[n]) \cap kept[k - 1] # {}}
  BY KeptIs
<1>2. /\ m \in Nat /\ m # 0 /\ DOMAIN path = 1 .. m /\ path[m] = d
      /\ \A i \in 1 .. m - 1 : path[i + 1] \in ToSet(forest.children[path[i]])
      /\ \A i \in 1 .. m : path[i] \in V
  BY DEF Chain
<1>3. /\ \A p \in V : ToSet(forest.children[p]) \cap ToSet(forest.roots) = {}
      /\ \A p, q \in V : p # q => ToSet(forest.children[p]) \cap ToSet(forest.children[q]) = {}
  BY DEF IsForest
<1> HIDE DEF N, V, kept, m
<1>4. ASSUME NEW i \in 1 .. m, NEW n \in V, path[i] \in ToSet(forest.children[n])
      PROVE  n \in ToSet(path)
  <2>1. i # 1
    BY <1>3, <1>4
  <2>2. i - 1 \in 1 .. m - 1 /\ i - 1 \in 1 .. m /\ (i - 1) + 1 = i
    BY <1>2, <2>1
  <2>3. path[i] \in ToSet(forest.children[path[i - 1]]) /\ path[i - 1] \in V
    BY <1>2, <2>2
  <2>4. n = path[i - 1]
    BY <1>3, <1>4, <2>3
  <2> QED
    BY <1>2, <2>2, <2>4 DEF ToSet
<1>5. d \in ToSet(path)
  <2>1. m \in 1 .. m
    BY <1>2
  <2> QED
    BY <1>2, <2>1 DEF ToSet
<1>6. ASSUME NEW k \in 1 .. N, Right(k - 1) PROVE Right(k)
  <2> SUFFICES ASSUME NEW n \in V, n \in kept[k] PROVE n \in ToSet(path)
    BY <1>1
  <2>1. CASE n \in matching
    BY <1>0, <1>5, <2>1
  <2>2. CASE n \notin matching
    <3>1. PICK c \in ToSet(forest.children[n]) : c \in kept[k - 1]
      BY <1>1, <2>2
    <3>2. c \in ToSet(path)
      BY <1>6, <3>1
    <3>3. PICK i \in 1 .. m : path[i] = c
      BY <1>2, <3>2 DEF ToSet
    <3> QED
      BY <1>4, <3>1, <3>3
  <2> QED
    BY <2>1, <2>2
<1>7. Right(N)
  <2> DEFINE wrong == {k \in 0 .. N : ~ Right(k)}
  <2>0. Right(0)
    BY <1>1
  <2> HIDE DEF Right
  <2> SUFFICES ASSUME wrong # {} PROVE FALSE
    BY <1>1
  <2>1. wrong \subseteq Nat
    BY <1>1
  <2>2. PICK k \in wrong : \A l \in wrong : k <= l
    BY <2>1, LeastNumber
  <2>3. k # 0 /\ k \in 0 .. N
    BY <2>0
  <2>4. k \in 1 .. N /\ k - 1 \in 0 .. N /\ ~ (k <= k - 1)
    BY <1>1, <2>3
  <2>5. Right(k - 1)
    BY <2>2, <2>4
  <2> QED
    BY <1>6, <2>4, <2>5
<1> QED
  BY <1>0, <1>7 DEF N, kept

\* FilterTree takes a forest to one with the same links between what it keeps.
LEMMA FilterIsForest ==
  ASSUME NEW forest, IsForest(forest), NEW matching, NEW keep,
         keep = Kept(forest, matching)[NumNodes(forest)]
  PROVE  /\ IsForest(FilterTree(forest, matching))
         /\ Nodes(FilterTree(forest, matching)) = Nodes(forest)
         /\ ToSet(FilterTree(forest, matching).roots) = ToSet(forest.roots) \cap keep
         /\ \A p \in Nodes(forest) : KidsIn(FilterTree(forest, matching))[p] = ToSet(forest.children[p]) \cap keep
<1> DEFINE V == Nodes(forest)  filtered == FilterTree(forest, matching)
<1>1. /\ IsFiniteSet(V)
      /\ forest.roots \in Seq(V) /\ IsInjective(forest.roots)
      /\ \A p \in V : /\ forest.children[p] \in Seq(V) /\ IsInjective(forest.children[p])
                      /\ ToSet(forest.children[p]) \cap ToSet(forest.roots) = {}
      /\ \A p, q \in V : p # q => ToSet(forest.children[p]) \cap ToSet(forest.children[q]) = {}
  BY DEF IsForest
<1>2. filtered = [roots |-> Select(forest.roots, keep),
                  children |-> [n \in V |-> Select(forest.children[n], keep)]]
  BY DEF FilterTree, Kept
<1>3. /\ filtered.roots = Select(forest.roots, keep)
      /\ filtered.children = [n \in V |-> Select(forest.children[n], keep)]
  BY <1>2
<1> HIDE DEF V, filtered
<1>4. Nodes(filtered) = V
  BY <1>3 DEF Nodes
<1>5. /\ filtered.roots \in Seq(V) /\ IsInjective(filtered.roots)
      /\ ToSet(filtered.roots) = ToSet(forest.roots) \cap keep
  BY <1>1, <1>3, Selected
<1>6. ASSUME NEW p \in V
      PROVE  /\ filtered.children[p] \in Seq(V) /\ IsInjective(filtered.children[p])
             /\ ToSet(filtered.children[p]) = ToSet(forest.children[p]) \cap keep
  <2>1. filtered.children[p] = Select(forest.children[p], keep)
    BY <1>3
  <2> QED
    BY <1>1, <2>1, Selected
<1>7. filtered.children \in [V -> Seq(V)]
  BY <1>3, <1>6
<1>8. IsForest(filtered)
  <2>1. \A p \in V : ToSet(filtered.children[p]) \cap ToSet(filtered.roots) = {}
    BY <1>1, <1>5, <1>6
  <2>2. ASSUME NEW p \in V, NEW q \in V, p # q
        PROVE  ToSet(filtered.children[p]) \cap ToSet(filtered.children[q]) = {}
    <3>1. /\ ToSet(filtered.children[p]) \subseteq ToSet(forest.children[p])
          /\ ToSet(filtered.children[q]) \subseteq ToSet(forest.children[q])
      BY <1>6
    <3>2. ToSet(forest.children[p]) \cap ToSet(forest.children[q]) = {}
      BY <1>1, <2>2
    <3> QED
      BY <3>1, <3>2
  <2> QED
    BY <1>1, <1>4, <1>5, <1>6, <1>7, <2>1, <2>2 DEF IsForest
<1>9. \A p \in V : KidsIn(filtered)[p] = ToSet(forest.children[p]) \cap keep
  BY <1>4, <1>6 DEF KidsIn
<1> QED
  BY <1>4, <1>5, <1>8, <1>9 DEF V, filtered

\* The tree filtered for a node is the path to it.
LEMMA FilteredIsPath ==
  ASSUME NEW forest, IsForest(forest), NEW d \in ToSet(Flatten(forest))
  PROVE  ToSet(Flatten(FilterTree(forest, {d}))) = ToSet(FindPath(forest, {d}))
<1> DEFINE filtered == FilterTree(forest, {d})  path == FindPath(forest, {d})  V == Nodes(forest)
           keep == Kept(forest, {d})[NumNodes(forest)]  m == Len(path)  shown == ToSet(Flatten(filtered))
<1>1. Chain(forest, d, path) /\ path[1] \in ToSet(forest.roots) /\ ToSet(path) \subseteq keep
  BY PathFound
<1>2. keep \subseteq ToSet(path)
  BY <1>1, KeptOnPath
<1>3. /\ IsForest(filtered) /\ Nodes(filtered) = V
      /\ ToSet(filtered.roots) = ToSet(forest.roots) \cap keep
      /\ \A p \in V : KidsIn(filtered)[p] = ToSet(forest.children[p]) \cap keep
  BY FilterIsForest
<1>4. /\ Flatten(filtered) \in Seq(V)
      /\ \A x : x \in shown <=> x \in ToSet(filtered.roots) \/ \E p \in shown : x \in KidsIn(filtered)[p]
  BY <1>3, Flattened
<1>5. shown \subseteq V
  BY <1>4 DEF ToSet
<1>6. /\ m \in Nat /\ m # 0 /\ DOMAIN path = 1 .. m
      /\ \A i \in 1 .. m - 1 : path[i + 1] \in ToSet(forest.children[path[i]])
      /\ \A i \in 1 .. m : path[i] \in V
  <2> HIDE DEF path
  <2> QED
    BY <1>1 DEF Chain
<1>7. \A i \in 1 .. m : path[i] \in keep
  BY <1>1, <1>6 DEF ToSet
<1> HIDE DEF filtered, path, V, keep, m, shown
<1>8. shown \subseteq keep
  BY <1>3, <1>4, <1>5
<1>9. \A i \in 1 .. m : path[i] \in shown
  <2> DEFINE wrong == {i \in 1 .. m : path[i] \notin shown}
  <2> SUFFICES ASSUME wrong # {} PROVE FALSE
    OBVIOUS
  <2>1. wrong \subseteq Nat
    BY <1>6
  <2>2. PICK i \in wrong : \A l \in wrong : i <= l
    BY <2>1, LeastNumber
  <2>3. i \in 1 .. m /\ path[i] \notin shown
    OBVIOUS
  <2>4. i # 1
    BY <1>1, <1>3, <1>4, <1>7, <2>3
  <2>5. i - 1 \in 1 .. m - 1 /\ i - 1 \in 1 .. m /\ (i - 1) + 1 = i /\ ~ (i <= i - 1)
    BY <1>6, <2>3, <2>4
  <2>6. path[i - 1] \in shown
    BY <2>2, <2>5
  <2> HIDE DEF wrong
  <2>7. path[i] \in ToSet(forest.children[path[i - 1]]) /\ path[i] \in keep
    BY <1>6, <1>7, <2>3, <2>5
  <2> QED
    BY <1>3, <1>4, <1>5, <2>3, <2>6, <2>7
<1>10. ToSet(path) \subseteq shown
  BY <1>6, <1>9 DEF ToSet
<1> QED
  BY <1>2, <1>8, <1>10 DEF filtered, path, shown

\* FindNode finds a node that Flatten shows.
LEMMA NodeFound ==
  ASSUME NEW forest, IsForest(forest), NEW d \in ToSet(Flatten(forest))
  PROVE  FindNode(forest, {d}) = <<d>>
<1> DEFINE shown == Flatten(forest)  matching == {d}  found == Select(shown, matching)
<1>1. shown \in Seq(Nodes(forest)) /\ d \in ToSet(shown)
  BY Flattened
<1>2. FindNode(forest, {d}) = IF found = <<>> THEN <<>> ELSE <<Head(found)>>
  BY DEF FindNode
<1> HIDE DEF shown, matching
<1>3. found \in Seq(Nodes(forest)) /\ ToSet(found) = ToSet(shown) \cap matching
  BY <1>1, Selected
<1> HIDE DEF found
<1>4. ToSet(found) = {d}
  BY <1>1, <1>3 DEF matching
<1>5. found # <<>>
  BY <1>4 DEF ToSet
<1>6. Head(found) \in ToSet(found)
  BY <1>3, <1>5, HeadApart
<1> QED
  BY <1>2, <1>4, <1>5, <1>6

\* What is kept for many nodes is what is kept for each.
LEMMA KeptForEach ==
  ASSUME NEW forest, IsForest(forest), NEW matching, NEW n
  PROVE  n \in Kept(forest, matching)[NumNodes(forest)]
           <=> \E m \in matching : n \in Kept(forest, {m})[NumNodes(forest)]
<1> DEFINE N == NumNodes(forest)  V == Nodes(forest)  kept == Kept(forest, matching)
           one(m) == Kept(forest, {m})
           Right(k) == \A x : x \in kept[k] <=> \E m \in matching : x \in one(m)[k]
<1>1. /\ N \in Nat /\ kept[0] = {}
      /\ \A k \in 1 .. N : kept[k] =
           {x \in V : x \in matching \/ ToSet(forest.children[x]) \cap kept[k - 1] # {}}
  BY KeptIs
<1>2. ASSUME NEW m
      PROVE  /\ one(m)[0] = {}
             /\ \A k \in 1 .. N : \A x : x \in one(m)[k]
                  <=> x \in V /\ (x = m \/ ToSet(forest.children[x]) \cap one(m)[k - 1] # {})
  <2> DEFINE single == {m}
  <2>1. \A x : x \in single <=> x = m
    OBVIOUS
  <2> HIDE DEF single
  <2>2. /\ Kept(forest, single)[0] = {}
        /\ \A k \in 1 .. N : Kept(forest, single)[k] =
             {x \in V : x \in single \/ ToSet(forest.children[x]) \cap Kept(forest, single)[k - 1] # {}}
    BY KeptIs
  <2>3. \A k \in 1 .. N : \A x : x \in Kept(forest, single)[k]
          <=> x \in V /\ (x = m \/ ToSet(forest.children[x]) \cap Kept(forest, single)[k - 1] # {})
    BY <2>1, <2>2
  <2> QED
    BY <2>2, <2>3 DEF single
<1> HIDE DEF N, V, kept, one
<1>3. Right(0)
  BY <1>1, <1>2
<1>4. ASSUME NEW k \in 1 .. N, Right(k - 1) PROVE Right(k)
  <2> SUFFICES ASSUME NEW x PROVE x \in kept[k] <=> \E m \in matching : x \in one(m)[k]
    OBVIOUS
  <2>1. x \in kept[k] <=> x \in V /\ (x \in matching \/ \E c \in ToSet(forest.children[x]) : c \in kept[k - 1])
    BY <1>1
  <2>2. \A m : x \in one(m)[k] <=> x \in V /\ (x = m \/ \E c \in ToSet(forest.children[x]) : c \in one(m)[k - 1])
    BY <1>2
  <2>3. \A c : c \in kept[k - 1] <=> \E m \in matching : c \in one(m)[k - 1]
    BY <1>4
  <2> QED
    BY <2>1, <2>2, <2>3
<1>5. Right(N)
  <2> DEFINE wrong == {k \in 0 .. N : ~ Right(k)}
  <2> HIDE DEF Right
  <2> SUFFICES ASSUME wrong # {} PROVE FALSE
    BY <1>1
  <2>1. wrong \subseteq Nat
    BY <1>1
  <2>2. PICK k \in wrong : \A l \in wrong : k <= l
    BY <2>1, LeastNumber
  <2>3. k # 0 /\ k \in 0 .. N
    BY <1>3
  <2>4. k \in 1 .. N /\ k - 1 \in 0 .. N /\ ~ (k <= k - 1)
    BY <1>1, <2>3
  <2>5. Right(k - 1)
    BY <2>2, <2>4
  <2> QED
    BY <1>4, <2>4, <2>5
<1> QED
  BY <1>5 DEF N, kept, one

\* A node is kept, and shown, only for nodes that are shown.
LEMMA KeptForShown ==
  ASSUME NEW forest, IsForest(forest), NEW m,
         NEW n \in ToSet(Flatten(forest)), n \in Kept(forest, {m})[NumNodes(forest)]
  PROVE  m \in ToSet(Flatten(forest))
<1> DEFINE N == NumNodes(forest)  V == Nodes(forest)  single == {m}  kept == Kept(forest, single)
           shown == ToSet(Flatten(forest))
           Right(k) == kept[k] \cap shown # {} => m \in shown
<1>0. \A x : x \in single <=> x = m
  OBVIOUS
<1> HIDE DEF single
<1>1. /\ N \in Nat /\ kept[0] = {}
      /\ \A k \in 1 .. N : kept[k] =
           {x \in V : x \in single \/ ToSet(forest.children[x]) \cap kept[k - 1] # {}}
  BY KeptIs
<1>2. \A x : x \in shown <=> x \in ToSet(forest.roots) \/ \E p \in shown : x \in KidsIn(forest)[p]
  BY Flattened
<1>3. \A p \in V : KidsIn(forest)[p] = ToSet(forest.children[p])
  BY DEF KidsIn
<1> HIDE DEF N, V, kept, shown
<1>4. ASSUME NEW k \in 1 .. N, Right(k - 1) PROVE Right(k)
  <2> SUFFICES ASSUME NEW x \in V, x \in kept[k], x \in shown PROVE m \in shown
    BY <1>1
  <2>1. CASE x \in single
    BY <1>0, <2>1
  <2>2. CASE x \notin single
    <3>1. PICK c \in ToSet(forest.children[x]) : c \in kept[k - 1]
      BY <1>1, <2>2
    <3>2. c \in shown
      BY <1>2, <1>3, <3>1
    <3> QED
      BY <1>4, <3>1, <3>2
  <2> QED
    BY <2>1, <2>2
<1>5. Right(N)
  <2> DEFINE wrong == {k \in 0 .. N : ~ Right(k)}
  <2>0. Right(0)
    BY <1>1
  <2> HIDE DEF Right
  <2> SUFFICES ASSUME wrong # {} PROVE FALSE
    BY <1>1
  <2>1. wrong \subseteq Nat
    BY <1>1
  <2>2. PICK k \in wrong : \A l \in wrong : k <= l
    BY <2>1, LeastNumber
  <2>3. k # 0 /\ k \in 0 .. N
    BY <2>0
  <2>4. k \in 1 .. N /\ k - 1 \in 0 .. N /\ ~ (k <= k - 1)
    BY <1>1, <2>3
  <2>5. Right(k - 1)
    BY <2>2, <2>4
  <2> QED
    BY <1>4, <2>4, <2>5
<1> QED
  BY <1>5 DEF N, kept, shown, single

\* Of any forest and whatever matches, findPath finds a path, from a root down to a node
\* that matches, just when flatten shows one that matches.
THEOREM FindPathFinds ==
  ASSUME NEW forest, IsForest(forest), NEW matching
  PROVE  IF matching \cap ToSet(Flatten(forest)) = {} THEN FindPath(forest, matching) = <<>>
         ELSE /\ FindPath(forest, matching)[1] \in ToSet(forest.roots)
              /\ \E d \in matching : Chain(forest, d, FindPath(forest, matching))
<1> DEFINE N == NumNodes(forest)  shown == ToSet(Flatten(forest))
<1>1. \A r \in ToSet(forest.roots) : r \in shown
  BY Flattened
<1>2. \A n : n \in Kept(forest, matching)[N] <=> \E m \in matching : n \in Kept(forest, {m})[N]
  BY KeptForEach
<1>3. CASE matching \cap shown = {}
  <2>1. ASSUME NEW r \in ToSet(forest.roots), r \in Kept(forest, matching)[N] PROVE FALSE
    <3>1. PICK m \in matching : r \in Kept(forest, {m})[N]
      BY <1>2, <2>1
    <3>2. m \in shown
      BY <1>1, <3>1, KeptForShown
    <3> QED
      BY <1>3, <3>2
  <2> QED
    BY <1>3, <2>1, NoPath
<1>4. CASE matching \cap shown # {}
  <2>1. PICK m \in matching : m \in shown
    BY <1>4
  <2>2. PICK r \in ToSet(forest.roots) : r \in Kept(forest, {m})[N]
    BY <2>1, RootKept
  <2>3. r \in Kept(forest, matching)[N]
    BY <1>2, <2>2
  <2> QED
    BY <1>4, <2>3, PathLeads
<1> QED
  BY <1>3, <1>4

\* Of any forest and whatever matches, filter shows just what is on the paths that find
\* gives to the matching nodes that are shown: nothing is lost, and nothing else stays.
THEOREM FilterShowsPaths ==
  ASSUME NEW forest, IsForest(forest), NEW matching
  PROVE  ToSet(Flatten(FilterTree(forest, matching)))
           = UNION {ToSet(FindPath(forest, {m})) : m \in matching \cap ToSet(Flatten(forest))}
<1> DEFINE N == NumNodes(forest)  V == Nodes(forest)  keep == Kept(forest, matching)[N]
           all == ToSet(Flatten(forest))  filtered == FilterTree(forest, matching)
           shown == ToSet(Flatten(filtered))  path(m) == FindPath(forest, {m})
<1>1. /\ Flatten(forest) \in Seq(V)
      /\ \A x : x \in all <=> x \in ToSet(forest.roots) \/ \E p \in all : x \in KidsIn(forest)[p]
  BY Flattened
<1>2. /\ IsForest(filtered) /\ Nodes(filtered) = V
      /\ ToSet(filtered.roots) = ToSet(forest.roots) \cap keep
      /\ \A p \in V : KidsIn(filtered)[p] = ToSet(forest.children[p]) \cap keep
  BY FilterIsForest
<1>3. /\ Flatten(filtered) \in Seq(V) /\ ParentsFirst(Flatten(filtered), ToSet(filtered.roots), KidsIn(filtered))
      /\ \A x : x \in shown <=> x \in ToSet(filtered.roots) \/ \E p \in shown : x \in KidsIn(filtered)[p]
  BY <1>2, Flattened
<1>4. all \subseteq V /\ shown \subseteq V
  BY <1>1, <1>3 DEF ToSet
<1>5. \A p \in V : KidsIn(forest)[p] = ToSet(forest.children[p])
  BY DEF KidsIn
<1>6. ASSUME NEW m \in all
      PROVE  /\ Chain(forest, m, path(m)) /\ path(m)[1] \in ToSet(forest.roots)
             /\ ToSet(path(m)) = Kept(forest, {m})[N]
  <2>1. PICK p : p = path(m)
    OBVIOUS
  <2>2. Chain(forest, m, p) /\ p[1] \in ToSet(forest.roots) /\ ToSet(p) \subseteq Kept(forest, {m})[N]
    BY <2>1, PathFound
  <2>3. Kept(forest, {m})[N] \subseteq ToSet(p)
    BY <2>2, KeptOnPath
  <2> QED
    BY <2>1, <2>2, <2>3
<1>7. ASSUME NEW n
      PROVE  n \in keep <=> \E m \in matching : n \in Kept(forest, {m})[N]
  BY KeptForEach
<1>8. shown \subseteq keep
  <2> HIDE DEF shown, keep, filtered
  <2> QED
    BY <1>2, <1>3, <1>4
<1>9. shown \subseteq all
  <2> DEFINE seq == Flatten(filtered)  wrong == {i \in 1 .. Len(seq) : seq[i] \notin all}
  <2>1. Len(seq) \in Nat /\ DOMAIN seq = 1 .. Len(seq) /\ \A i \in 1 .. Len(seq) : seq[i] \in V
    BY <1>3
  <2>2. \A i \in 1 .. Len(seq) :
          seq[i] \in ToSet(filtered.roots) \/ \E j \in 1 .. i - 1 : seq[i] \in KidsIn(filtered)[seq[j]]
    BY <1>3 DEF ParentsFirst
  <2>3. shown = ToSet(seq)
    OBVIOUS
  <2> HIDE DEF seq, all, keep, shown, filtered
  <2>4. ASSUME wrong # {} PROVE FALSE
    <3>0. wrong \subseteq Nat
      BY <2>1
    <3>1. PICK i \in wrong : \A l \in wrong : i <= l
      BY <2>4, <3>0, LeastNumber
    <3>2. i \in 1 .. Len(seq) /\ seq[i] \notin all
      OBVIOUS
    <3>3. seq[i] \notin ToSet(filtered.roots)
      BY <1>1, <1>2, <3>2
    <3>4. PICK j \in 1 .. i - 1 : seq[i] \in KidsIn(filtered)[seq[j]]
      BY <2>2, <3>2, <3>3
    <3>5. j \in 1 .. Len(seq) /\ ~ (i <= j)
      BY <2>1, <3>2
    <3>6. seq[j] \in all
      BY <3>1, <3>5
    <3> HIDE DEF wrong
    <3>7. seq[i] \in KidsIn(forest)[seq[j]]
      BY <1>2, <1>5, <2>1, <3>4, <3>5
    <3> QED
      BY <1>1, <3>2, <3>6, <3>7
  <2> QED
    BY <2>1, <2>3, <2>4 DEF ToSet
<1>10. ASSUME NEW m \in matching \cap all PROVE ToSet(path(m)) \subseteq shown
  <2>1. PICK p : p = path(m)
    OBVIOUS
  <2>2. Chain(forest, m, p) /\ p[1] \in ToSet(forest.roots) /\ ToSet(p) \subseteq keep
    BY <1>6, <1>7, <2>1
  <2> HIDE DEF shown, keep, filtered, all, path
  <2>3. /\ Len(p) \in Nat /\ Len(p) # 0 /\ DOMAIN p = 1 .. Len(p)
        /\ \A i \in 1 .. Len(p) - 1 : p[i + 1] \in ToSet(forest.children[p[i]])
        /\ \A i \in 1 .. Len(p) : p[i] \in V
    BY <2>2 DEF Chain
  <2>4. \A i \in 1 .. Len(p) : p[i] \in keep
    BY <2>2, <2>3 DEF ToSet
  <2> DEFINE wrong == {i \in 1 .. Len(p) : p[i] \notin shown}
  <2>5. ASSUME wrong # {} PROVE FALSE
    <3>0. wrong \subseteq Nat
      BY <2>3
    <3>1. PICK i \in wrong : \A l \in wrong : i <= l
      BY <2>5, <3>0, LeastNumber
    <3>2. i \in 1 .. Len(p) /\ p[i] \notin shown
      OBVIOUS
    <3>3. i # 1
      BY <1>2, <1>3, <2>2, <2>4, <3>2
    <3>4. i - 1 \in 1 .. Len(p) - 1 /\ i - 1 \in 1 .. Len(p) /\ (i - 1) + 1 = i /\ ~ (i <= i - 1)
      BY <2>3, <3>2, <3>3
    <3>5. p[i - 1] \in shown
      BY <3>1, <3>4
    <3> HIDE DEF wrong
    <3>6. p[i] \in ToSet(forest.children[p[i - 1]]) /\ p[i] \in keep /\ p[i - 1] \in V
      BY <2>3, <2>4, <3>2, <3>4
    <3> QED
      BY <1>2, <1>3, <3>2, <3>5, <3>6
  <2> QED
    BY <2>1, <2>3, <2>5 DEF ToSet
<1>11. ASSUME NEW n \in shown PROVE \E m \in matching \cap all : n \in ToSet(path(m))
  <2>1. n \in all /\ n \in keep
    BY <1>8, <1>9
  <2>2. PICK m \in matching : n \in Kept(forest, {m})[N]
    BY <1>7, <2>1
  <2>3. m \in all
    BY <2>1, <2>2, KeptForShown
  <2> QED
    BY <1>6, <2>2, <2>3
<1> HIDE DEF shown, all, path
<1>12. \A n : n \in shown <=> n \in UNION {ToSet(path(m)) : m \in matching \cap all}
  BY <1>10, <1>11
<1>13. shown = UNION {ToSet(path(m)) : m \in matching \cap all}
  BY <1>12
<1> QED
  BY <1>13 DEF shown, all, path, filtered

\* Every parent is written down before its children.
LEMMA ParentBefore ==
  ASSUME NEW forest, IsForest(forest), NEW p \in Nodes(forest),
         NEW i \in 1 .. Len(Flatten(forest)), Flatten(forest)[i] \in ToSet(forest.children[p])
  PROVE  \E j \in 1 .. i - 1 : Flatten(forest)[j] = p
<1> DEFINE shown == Flatten(forest)  V == Nodes(forest)
<1>1. shown \in Seq(V) /\ ParentsFirst(shown, ToSet(forest.roots), KidsIn(forest))
  BY Flattened
<1>2. shown[i] \notin ToSet(forest.roots)
  BY DEF IsForest
<1>3. PICK j \in 1 .. i - 1 : shown[i] \in KidsIn(forest)[shown[j]]
  BY <1>1, <1>2 DEF ParentsFirst
<1>4. shown[j] \in V
  <2>1. j \in 1 .. Len(shown)
    BY <1>1
  <2> QED
    BY <1>1, <2>1
<1>5. shown[i] \in ToSet(forest.children[shown[j]])
  BY <1>3, <1>4 DEF KidsIn
<1>6. shown[j] = p
  BY <1>4, <1>5 DEF IsForest
<1> QED
  BY <1>6

-----------------------------------------------------------------------------
(* The departments: what the calls in progress carry, and what they know *)

Between(u) ==
  \E s \in DeptSlot : Migrating(s) /\ deptCall[s].pc = "add" /\ u \in deptCall[s].users

DeptCallShape(c) ==
  /\ c.pc \in {"source", "target", "users", "add"} => c.op = "migrate"
  /\ c.pc = "remove" => c.op \in {"delete", "migrate"}
  /\ c.pc = "write" => c.op = "update"
  /\ c.op = "migrate" => c.to \in Dept /\ \E d \in Dept : c.ids = {d}
  /\ c.op = "delete" /\ c.pc = "remove" => ~c.busy /\ c.left = {}

CallsShaped == \A s \in DeptSlot : DeptCallShape(deptCall[s])

\* A user without a department is one that a migration has taken out of it.
Sheltered == \A u \in User : Placed(u) \/ Between(u) \/ u \in moves.cutOff \cup moves.refused

\* One migration at a time, and users of one department: each is found there, has left
\* all departments when it is to be inserted, and is not refused.
OneAtATime ==
  ~moves.mixed =>
    /\ moves.refused = {}
    /\ \A s, t \in DeptSlot : Migrating(s) /\ Migrating(t) => s = t
    /\ \A u \in User, d, e \in Dept : <<u, d>> \in userDepts /\ <<u, e>> \in userDepts => d = e
    /\ \A s \in DeptSlot, u \in User, d \in Dept :
         Migrating(s) /\ u \in deptCall[s].users /\ <<u, d>> \in userDepts =>
           /\ deptCall[s].pc = "remove" => d \in deptCall[s].ids
           /\ deptCall[s].pc # "add"

\* A deletion that nothing raced with is the only call in progress.
DeletesAlone ==
  ~raced => \A s, t \in DeptSlot : s # t /\ Deleting(s) => deptCall[t] = DeptIdle

Childless(ids) == \A d \in LiveDepts : dept[d].parent \notin ids
Unpeopled(ids) == \A u \in User, d \in ids : <<u, d>> \notin userDepts

\* What it has counted is still so.
CountedStill ==
  ~raced => \A s \in DeptSlot :
    Deleting(s) /\ deptCall[s].pc \in {"count", "remove"} /\ ~deptCall[s].busy
      => Childless(deptCall[s].ids) /\ Unpeopled(deptCall[s].ids \ deptCall[s].left)

\* So is the target that a migration has looked for.
TargetStill ==
  ~raced => \A s \in DeptSlot :
    Migrating(s) /\ deptCall[s].pc \in {"users", "remove", "add"} => deptCall[s].to \in LiveDepts

Founded == raced \/ unfounded \/ NothingLeftBehind

DeptInv ==
  /\ DeptTypeOK /\ CallsShaped
  /\ Sheltered /\ OneAtATime /\ DeletesAlone /\ CountedStill /\ TargetStill /\ Founded

LEMMA DeptInitInv == DeptInit => DeptInv
<1> SUFFICES ASSUME DeptInit PROVE DeptInv
  OBVIOUS
<1>1. PICK live \in SUBSET (Dept \ {RootDept}), homes \in [User -> (SUBSET Dept) \ {{}}] :
        /\ UNION {homes[u] : u \in User} = live
        /\ dept = [d \in Dept |-> [state |-> IF d \in live THEN "live" ELSE "none",
                                   parent |-> RootDept]]
        /\ userDepts = {ud \in User \X Dept : ud[2] \in homes[ud[1]]}
        /\ moves = [mixed |-> \E u \in User : Cardinality(homes[u]) > 1,
                    cutOff |-> {}, refused |-> {}]
  BY DEF DeptInit
<1>2. \A s \in DeptSlot : deptCall[s] = DeptIdle
  BY DEF DeptInit
<1>3. DeptIdle \in DeptCallRecords
  BY DEF DeptIdle, DeptCallRecords
<1>4. DeptTypeOK
  <2>1. dept \in [Dept -> DeptRows]
    BY <1>1, DeptAssumption DEF DeptRows
  <2>2. userDepts \subseteq User \X Dept
    BY <1>1
  <2>3. deptCall \in [DeptSlot -> DeptCallRecords]
    BY <1>3 DEF DeptInit
  <2>4. {hung, raced, unfounded} \subseteq BOOLEAN
    BY DEF DeptInit
  <2>5. deptCalls \in 0 .. DeptMaxCalls
    BY DeptAssumption DEF DeptInit
  <2>6. moves \in Moves
    BY <1>1 DEF Moves
  <2> QED
    BY <2>1, <2>2, <2>3, <2>4, <2>5, <2>6 DEF DeptTypeOK
<1>5. CallsShaped /\ DeletesAlone /\ CountedStill /\ TargetStill
  BY <1>2 DEF CallsShaped, DeptCallShape, DeletesAlone, CountedStill, TargetStill, Deleting, Migrating, DeptIdle
<1>6. Sheltered
  <2> SUFFICES ASSUME NEW u \in User PROVE Placed(u)
    BY DEF Sheltered
  <2>1. PICK d \in Dept : d \in homes[u]
    OBVIOUS
  <2> QED
    BY <1>1, <2>1 DEF Placed
<1>7. OneAtATime
  <2> SUFFICES ASSUME \A u \in User : ~(Cardinality(homes[u]) > 1)
               PROVE  \A u \in User, d, e \in Dept :
                        <<u, d>> \in userDepts /\ <<u, e>> \in userDepts => d = e
    BY <1>1, <1>2 DEF OneAtATime, Migrating, DeptIdle
  <2> SUFFICES ASSUME NEW u \in User, NEW d \in homes[u], NEW e \in homes[u], d # e
               PROVE  FALSE
    BY <1>1
  <2>1. IsFiniteSet(homes[u])
    BY DeptAssumption, FS_Subset
  <2>2. {d} \cup {e} \subseteq homes[u] /\ Cardinality({d} \cup {e}) = 2
    <3>1. e \notin {d} /\ Cardinality({d}) = 1 /\ IsFiniteSet({d})
      BY FS_Singleton
    <3>2. Cardinality({d} \cup {e}) = Cardinality({d}) + 1
      BY <3>1, FS_AddElement
    <3> QED
      BY <3>1, <3>2
  <2>3. Cardinality({d} \cup {e}) <= Cardinality(homes[u]) /\ Cardinality(homes[u]) \in Nat
    BY <2>1, <2>2, FS_Subset, FS_CardinalityType
  <2> QED
    BY <2>2, <2>3
<1>8. Founded
  <2>1. \A d \in LiveDepts : dept[d].parent = RootDept
    BY <1>1 DEF LiveDepts
  <2>2. LiveDepts = live /\ dept[RootDept].state = "none"
    BY <1>1, DeptAssumption DEF LiveDepts
  <2>3. \A u \in User, d \in Dept : <<u, d>> \in userDepts => d \in live
    BY <1>1
  <2> QED
    BY <2>1, <2>2, <2>3 DEF Founded, NothingLeftBehind, Unfounded
<1> QED
  BY <1>4, <1>5, <1>6, <1>7, <1>8 DEF DeptInv

\* A call takes a step that changes no table.  One that is between its statements ends
\* there, and its users are noted.
LEMMA DeptGoesOn ==
  ASSUME DeptInv, NEW s \in DeptSlot, NEW d \in DeptCallRecords,
         deptCall' = [deptCall EXCEPT ![s] = d], hung' \in BOOLEAN,
         UNCHANGED <<dept, userDepts, raced, unfounded, deptCalls>>,
         deptCall[s] # DeptIdle, DeptCallShape(d),
         moves' \in Moves, moves'.mixed = moves.mixed,
         moves.cutOff \subseteq moves'.cutOff, moves.refused \subseteq moves'.refused,
         moves.mixed \/ moves'.refused = moves.refused,
         deptCall[s].pc = "add" => deptCall[s].users \subseteq moves'.cutOff \cup moves'.refused,
         d.pc # "add", d.op = "migrate" => deptCall[s].op = "migrate",
         d.op = "migrate" /\ d.pc = "remove" => d.users = UsersOf(d.ids),
         d.op = "delete" => deptCall[s].op = "delete",
         d.op = "delete" /\ d.pc \in {"count", "remove"} /\ ~d.busy /\ ~raced
           => Childless(d.ids) /\ Unpeopled(d.ids \ d.left),
         d.op = "migrate" /\ d.pc \in {"users", "remove"} /\ ~raced => d.to \in LiveDepts
  PROVE  DeptInv'
<1>1. /\ \A o \in DeptSlot : o # s => deptCall'[o] = deptCall[o]
      /\ deptCall'[s] = d /\ deptCall' \in [DeptSlot -> DeptCallRecords]
      /\ dept' = dept /\ userDepts' = userDepts /\ raced' = raced /\ unfounded' = unfounded
      /\ deptCalls' = deptCalls
  BY DEF DeptInv, DeptTypeOK
<1>2. LiveDepts' = LiveDepts
  BY <1>1 DEF LiveDepts
<1>3. DeptTypeOK'
  BY <1>1 DEF DeptInv, DeptTypeOK
<1>4. CallsShaped'
  BY <1>1 DEF DeptInv, CallsShaped, DeptCallShape
<1>5. Sheltered'
  <2> SUFFICES ASSUME NEW u \in User, ~Placed(u), u \notin moves'.cutOff \cup moves'.refused
               PROVE  Between(u)'
    BY <1>1 DEF Sheltered, Placed
  <2>1. PICK o \in DeptSlot : Migrating(o) /\ deptCall[o].pc = "add" /\ u \in deptCall[o].users
    BY DEF DeptInv, Sheltered, Between
  <2>2. o # s
    BY <2>1
  <2> QED
    BY <1>1, <2>1, <2>2 DEF Between, Migrating
<1>6. OneAtATime'
  <2> SUFFICES ASSUME ~moves.mixed
               PROVE  /\ moves.refused = {}
                      /\ \A a, b \in DeptSlot : Migrating(a)' /\ Migrating(b)' => a = b
                      /\ \A u \in User, x, e \in Dept :
                           <<u, x>> \in userDepts /\ <<u, e>> \in userDepts => x = e
                      /\ \A a \in DeptSlot, u \in User, x \in Dept :
                           /\ Migrating(a)' /\ u \in deptCall'[a].users /\ <<u, x>> \in userDepts
                           => /\ deptCall'[a].pc = "remove" => x \in deptCall'[a].ids
                              /\ deptCall'[a].pc # "add"
    BY <1>1 DEF OneAtATime
  <2>1. OneAtATime
    BY DEF DeptInv
  <2>2. \A a \in DeptSlot : Migrating(a)' => Migrating(a)
    BY <1>1 DEF Migrating
  <2>3. ASSUME NEW u \in User, NEW x \in Dept, d.op = "migrate", u \in d.users,
               <<u, x>> \in userDepts, d.pc = "remove"
        PROVE  x \in d.ids
    <3>1. PICK e \in d.ids : <<u, e>> \in userDepts
      BY <2>3 DEF UsersOf
    <3>2. e \in Dept
      BY DEF DeptCallRecords
    <3> QED
      BY <2>1, <2>3, <3>1, <3>2 DEF OneAtATime
  <2> QED
    BY <1>1, <2>1, <2>2, <2>3 DEF OneAtATime, Migrating
<1>7. DeletesAlone'
  BY <1>1 DEF DeptInv, DeletesAlone, Deleting
<1>8. CountedStill'
  BY <1>1, <1>2 DEF DeptInv, CountedStill, Deleting, Childless, Unpeopled
<1>9. TargetStill'
  BY <1>1, <1>2 DEF DeptInv, TargetStill, Migrating
<1>10. Founded'
  BY <1>1, <1>2 DEF DeptInv, Founded, NothingLeftBehind, Unfounded
<1> QED
  BY <1>3, <1>4, <1>5, <1>6, <1>7, <1>8, <1>9, <1>10 DEF DeptInv

\* Nothing is noted of a call that is not between its statements.
LEMMA MovesKept ==
  ASSUME DeptInv, UNCHANGED moves
  PROVE  /\ moves' \in Moves /\ moves'.mixed = moves.mixed
         /\ moves.cutOff \subseteq moves'.cutOff /\ moves.refused \subseteq moves'.refused
         /\ moves'.refused = moves.refused
BY DEF DeptInv, DeptTypeOK

LEMMA DeptEndsNoted ==
  ASSUME DeptInv, NEW s \in DeptSlot, DeptEnds(s), deptCall[s] # DeptIdle,
         UNCHANGED <<dept, userDepts, hung, raced, unfounded, deptCalls>>,
         moves' \in Moves, moves'.mixed = moves.mixed,
         moves.cutOff \subseteq moves'.cutOff, moves.refused \subseteq moves'.refused,
         moves.mixed \/ moves'.refused = moves.refused,
         deptCall[s].pc = "add" => deptCall[s].users \subseteq moves'.cutOff \cup moves'.refused
  PROVE  DeptInv'
<1>1. DeptIdle \in DeptCallRecords /\ DeptCallShape(DeptIdle)
  BY DEF DeptIdle, DeptCallRecords, DeptCallShape
<1>2. hung' \in BOOLEAN
  BY DEF DeptInv, DeptTypeOK
<1>3. deptCall' = [deptCall EXCEPT ![s] = DeptIdle]
  BY DEF DeptEnds
<1> DEFINE d == DeptIdle
<1>4. d.op = "none" /\ d.pc = "idle"
  BY DEF DeptIdle
<1> QED
  BY <1>1, <1>2, <1>3, <1>4, DeptGoesOn

LEMMA DeptEndsKeeps ==
  ASSUME DeptInv, NEW s \in DeptSlot, DeptEnds(s), deptCall[s] # DeptIdle, deptCall[s].pc # "add",
         UNCHANGED <<dept, userDepts, hung, raced, unfounded, moves, deptCalls>>
  PROVE  DeptInv'
BY DeptEndsNoted, MovesKept

\* A call moves on to a step that claims nothing.
LEMMA DeptMovesKeeps ==
  ASSUME DeptInv, NEW s \in DeptSlot, NEW pc \in {"load", "write", "target"}, DeptMoves(s, pc),
         deptCall[s].pc \notin {"idle", "add"}, pc = "target" => deptCall[s].op = "migrate",
         pc = "write" => deptCall[s].op = "update",
         UNCHANGED <<dept, userDepts, hung, raced, unfounded, moves, deptCalls>>
  PROVE  DeptInv'
<1> DEFINE c == deptCall[s]
           d == [c EXCEPT !.pc = pc]
<1>1. c \in DeptCallRecords /\ DeptCallShape(c) /\ hung' \in BOOLEAN
  BY DEF DeptInv, DeptTypeOK, CallsShaped
<1>2. /\ d \in DeptCallRecords /\ d.op = c.op /\ d.pc = pc /\ d.ids = c.ids /\ d.to = c.to
      /\ d.busy = c.busy /\ d.left = c.left /\ d.users = c.users
  BY <1>1 DEF DeptCallRecords
<1>3. deptCall' = [deptCall EXCEPT ![s] = d]
  BY DEF DeptMoves
<1>4. c # DeptIdle
  BY DEF DeptIdle
<1> HIDE DEF d
<1>5. DeptCallShape(d)
  BY <1>1, <1>2 DEF DeptCallShape
<1> QED
  BY <1>1, <1>2, <1>3, <1>4, <1>5, MovesKept, DeptGoesOn

LEMMA NotIdle == \A s \in DeptSlot : deptCall[s].pc # "idle" => deptCall[s] # DeptIdle
BY DEF DeptIdle

\* A call that ends notes its users if it is between its statements.
LEMMA CutOffNotes ==
  ASSUME DeptInv, NEW ss \in SUBSET DeptSlot, CutOff(ss)
  PROVE  /\ moves' \in Moves /\ moves'.mixed = moves.mixed
         /\ moves.cutOff \subseteq moves'.cutOff /\ moves'.refused = moves.refused
         /\ \A s \in ss : Migrating(s) /\ deptCall[s].pc = "add"
                         => deptCall[s].users \subseteq moves'.cutOff
<1>1. moves \in Moves /\ deptCall \in [DeptSlot -> DeptCallRecords]
  BY DEF DeptInv, DeptTypeOK
<1>2. BetweenHomes(ss) \subseteq User
  BY <1>1 DEF BetweenHomes, DeptCallRecords
<1>3. moves' = [moves EXCEPT !.cutOff = @ \cup BetweenHomes(ss)]
  BY DEF CutOff
<1>4. \A s \in ss : Migrating(s) /\ deptCall[s].pc = "add"
                    => deptCall[s].users \subseteq BetweenHomes(ss)
  BY DEF BetweenHomes
<1> HIDE DEF BetweenHomes
<1> QED
  BY <1>1, <1>2, <1>3, <1>4 DEF Moves

\* The process ends with all its calls.
LEMMA ProcessEnds ==
  ASSUME DeptInv, deptCall' = [t \in DeptSlot |-> DeptIdle], CutOff(DeptSlot),
         UNCHANGED <<dept, userDepts, hung, raced, unfounded, deptCalls>>
  PROVE  DeptInv'
<1>1. \A t \in DeptSlot : deptCall'[t] = DeptIdle
  OBVIOUS
<1>2. DeptIdle \in DeptCallRecords
  BY DEF DeptIdle, DeptCallRecords
<1>3. LiveDepts' = LiveDepts
  BY DEF LiveDepts
<1>4. /\ moves' \in Moves /\ moves'.mixed = moves.mixed
      /\ moves.cutOff \subseteq moves'.cutOff /\ moves'.refused = moves.refused
      /\ \A s \in DeptSlot : Migrating(s) /\ deptCall[s].pc = "add"
                             => deptCall[s].users \subseteq moves'.cutOff
  BY CutOffNotes
<1>5. DeptTypeOK'
  BY <1>2, <1>4 DEF DeptInv, DeptTypeOK
<1>6. CallsShaped' /\ DeletesAlone' /\ CountedStill' /\ TargetStill'
  BY <1>1 DEF CallsShaped, DeptCallShape, DeletesAlone, CountedStill, TargetStill, Deleting,
     Migrating, DeptIdle
<1>7. Sheltered'
  BY <1>4 DEF DeptInv, Sheltered, Between, Placed
<1>8. OneAtATime'
  <2>1. \A t \in DeptSlot : ~Migrating(t)'
    BY <1>1 DEF Migrating, DeptIdle
  <2> QED
    BY <1>4, <2>1 DEF DeptInv, OneAtATime
<1>9. Founded'
  BY <1>3 DEF DeptInv, Founded, NothingLeftBehind, Unfounded
<1> QED
  BY <1>5, <1>6, <1>7, <1>8, <1>9 DEF DeptInv

LEMMA CheckExistKeeps ==
  ASSUME DeptInv, NEW s \in DeptSlot, CheckExist(s)
  PROVE  DeptInv'
<1> DEFINE c == deptCall[s]
<1>1. c.pc = "exists" /\ UNCHANGED <<dept, userDepts, hung, raced, unfounded, deptCalls>>
  BY DEF CheckExist
<1>2. CASE deptCall' = [t \in DeptSlot |-> DeptIdle] /\ CutOff(DeptSlot)
  BY <1>1, <1>2, ProcessEnds
<1>3. CASE DeptEnds(s) /\ UNCHANGED moves
  BY <1>1, <1>3, NotIdle, DeptEndsKeeps
<1>4. CASE c.op = "update" /\ DeptMoves(s, "write") /\ UNCHANGED moves
  BY <1>1, <1>4, DeptMovesKeeps
<1>5. CASE DeptMoves(s, "load") /\ UNCHANGED moves
  BY <1>1, <1>5, DeptMovesKeeps
<1> QED
  BY <1>2, <1>3, <1>4, <1>5 DEF CheckExist

LEMMA LoadDeptsKeeps ==
  ASSUME DeptInv, NEW s \in DeptSlot, LoadDepts(s)
  PROVE  DeptInv'
<1> DEFINE c == deptCall[s]
           parents == \E d \in LiveDepts : dept[d].parent \in c.ids
           d == [c EXCEPT !.pc = "count", !.left = c.ids, !.busy = parents]
<1>1. /\ c.pc = "load" /\ UNCHANGED <<dept, userDepts, raced, unfounded, moves, deptCalls>>
      /\ hung' \in BOOLEAN /\ parents \in BOOLEAN
  BY DEF LoadDepts
<1>2. c \in DeptCallRecords /\ DeptCallShape(c)
  BY DEF DeptInv, DeptTypeOK, CallsShaped
<1>3. deptCall' = [deptCall EXCEPT ![s] = d]
  BY DEF LoadDepts
<1>4. ~parents => Childless(c.ids)
  BY DEF Childless
<1> HIDE DEF parents
<1>5. /\ d \in DeptCallRecords /\ d.op = c.op /\ d.pc = "count" /\ d.ids = c.ids /\ d.to = c.to
      /\ d.busy = parents /\ d.left = c.ids /\ d.users = c.users
  BY <1>1, <1>2 DEF DeptCallRecords
<1> HIDE DEF d
<1>6. DeptCallShape(d)
  BY <1>2, <1>5 DEF DeptCallShape
<1>7. Unpeopled(d.ids \ d.left)
  BY <1>5 DEF Unpeopled
<1> QED
  BY <1>1, <1>3, <1>4, <1>5, <1>6, <1>7, MovesKept, NotIdle, DeptGoesOn

LEMMA CountUsersKeeps ==
  ASSUME DeptInv, NEW s \in DeptSlot, CountUsers(s)
  PROVE  DeptInv'
<1> DEFINE c == deptCall[s]
<1>1. c.pc = "count" /\ UNCHANGED <<dept, userDepts, hung, raced, unfounded, moves, deptCalls>>
  BY DEF CountUsers
<1>2. c \in DeptCallRecords /\ DeptCallShape(c) /\ hung' \in BOOLEAN
  BY <1>1 DEF DeptInv, DeptTypeOK, CallsShaped
<1>3. ~raced /\ c.op = "delete" /\ ~c.busy => Childless(c.ids) /\ Unpeopled(c.ids \ c.left)
  BY <1>1 DEF DeptInv, CountedStill, Deleting
<1>4. PICK x \in c.left :
        LET busy == c.busy \/ \E u \in User : <<u, x>> \in userDepts IN
        \/ /\ c.left # {x}
           /\ deptCall' = [deptCall EXCEPT ![s].left = @ \ {x}, ![s].busy = busy]
        \/ /\ c.left = {x}
           /\ IF c.op = "delete" /\ ~busy
              THEN deptCall' = [deptCall EXCEPT ![s].pc = "remove", ![s].left = {}]
              ELSE DeptEnds(s)
  BY DEF CountUsers
<1> DEFINE busy == c.busy \/ \E u \in User : <<u, x>> \in userDepts
<1>5. busy \in BOOLEAN /\ (~busy => ~c.busy /\ Unpeopled({x}))
  BY <1>2 DEF DeptCallRecords, Unpeopled
<1>6. CASE deptCall' = [deptCall EXCEPT ![s].left = @ \ {x}, ![s].busy = busy]
  <2> DEFINE d == [c EXCEPT !.left = @ \ {x}, !.busy = busy]
  <2>1. deptCall' = [deptCall EXCEPT ![s] = d]
    BY <1>6
  <2> HIDE DEF busy
  <2>2. /\ d \in DeptCallRecords /\ d.op = c.op /\ d.pc = "count" /\ d.ids = c.ids /\ d.to = c.to
        /\ d.busy = busy /\ d.left = c.left \ {x} /\ d.users = c.users
    BY <1>1, <1>2, <1>5 DEF DeptCallRecords
  <2> HIDE DEF d
  <2>3. DeptCallShape(d)
    BY <1>2, <2>2 DEF DeptCallShape
  <2>4. d.op = "delete" /\ ~d.busy /\ ~raced => Childless(d.ids) /\ Unpeopled(d.ids \ d.left)
    BY <1>3, <1>5, <2>2 DEF Unpeopled
  <2> QED
    BY <1>1, <1>2, <2>1, <2>2, <2>3, <2>4, MovesKept, NotIdle, DeptGoesOn
<1>7. CASE /\ c.left = {x} /\ c.op = "delete" /\ ~busy
           /\ deptCall' = [deptCall EXCEPT ![s].pc = "remove", ![s].left = {}]
  <2> DEFINE d == [c EXCEPT !.pc = "remove", !.left = {}]
  <2>1. deptCall' = [deptCall EXCEPT ![s] = d]
    BY <1>7
  <2>2. /\ d \in DeptCallRecords /\ d.op = c.op /\ d.pc = "remove" /\ d.ids = c.ids /\ d.to = c.to
        /\ d.busy = c.busy /\ d.left = {} /\ d.users = c.users
    BY <1>1, <1>2 DEF DeptCallRecords
  <2> HIDE DEF d, busy
  <2>3. DeptCallShape(d)
    BY <1>2, <1>5, <1>7, <2>2 DEF DeptCallShape
  <2>4. ~raced => Childless(d.ids) /\ Unpeopled(d.ids \ d.left)
    BY <1>3, <1>5, <1>7, <2>2 DEF Unpeopled
  <2> QED
    BY <1>1, <1>2, <1>7, <2>1, <2>2, <2>3, <2>4, MovesKept, NotIdle, DeptGoesOn
<1>8. CASE DeptEnds(s)
  BY <1>1, <1>8, NotIdle, DeptEndsKeeps
<1> QED
  BY <1>4, <1>6, <1>7, <1>8

\* A call begins: it claims nothing yet, and is seen by the deletions.
LEMMA CallKeeps ==
  ASSUME DeptInv, NEW s \in DeptSlot, NEW op \in {"page", "update", "delete", "migrate"},
         NEW pc \in {"exists", "source"}, NEW ids \in SUBSET Dept, NEW to \in Dept \cup {NoDept},
         Call(s, op, pc, ids, to), pc = "source" => op = "migrate",
         op = "migrate" => to \in Dept /\ \E d \in Dept : ids = {d}
  PROVE  DeptInv'
<1> DEFINE e == [DeptIdle EXCEPT !.op = op, !.pc = pc, !.ids = ids, !.to = to]
<1>1. /\ e \in DeptCallRecords /\ e.op = op /\ e.pc = pc /\ e.ids = ids /\ e.to = to
      /\ e.users = {}
  BY DEF DeptIdle, DeptCallRecords
<1>2. /\ deptCall' = [deptCall EXCEPT ![s] = e] /\ deptCall[s] = DeptIdle
      /\ deptCalls < DeptMaxCalls /\ deptCalls' = deptCalls + 1
      /\ dept' = dept /\ userDepts' = userDepts /\ hung' = hung /\ unfounded' = unfounded
      /\ raced' = (raced \/ \E t \in DeptSlot \ {s} :
                     deptCall[t] # DeptIdle /\ (op = "delete" \/ Deleting(t)))
      /\ moves' = [moves EXCEPT !.mixed = @ \/ (op = "migrate" /\ \E t \in DeptSlot : Migrating(t))]
  BY DEF Call
<1> HIDE DEF e
<1>3. /\ \A o \in DeptSlot : o # s => deptCall'[o] = deptCall[o]
      /\ deptCall'[s] = e /\ deptCall' \in [DeptSlot -> DeptCallRecords]
  BY <1>1, <1>2 DEF DeptInv, DeptTypeOK
<1>4. LiveDepts' = LiveDepts /\ (raced => raced')
  BY <1>2 DEF LiveDepts
<1>5. /\ moves' \in Moves /\ moves'.cutOff = moves.cutOff /\ moves'.refused = moves.refused
      /\ moves'.mixed = (moves.mixed \/ (op = "migrate" /\ \E t \in DeptSlot : Migrating(t)))
  <2>1. moves \in Moves
    BY DEF DeptInv, DeptTypeOK
  <2> QED
    BY <1>2, <2>1 DEF Moves
<1>6. DeptTypeOK'
  <2>1. raced' \in BOOLEAN
    BY <1>2 DEF DeptInv, DeptTypeOK
  <2>2. deptCalls' \in 0 .. DeptMaxCalls
    BY <1>2, DeptAssumption DEF DeptInv, DeptTypeOK
  <2> QED
    BY <1>2, <1>3, <1>5, <2>1, <2>2 DEF DeptInv, DeptTypeOK
<1>7. CallsShaped'
  <2>1. DeptCallShape(e)
    BY <1>1 DEF DeptCallShape
  <2> QED
    BY <1>3, <2>1 DEF DeptInv, CallsShaped, DeptCallShape
<1>8. Sheltered'
  <2>1. \A u : Between(u) => Between(u)'
    BY <1>2, <1>3 DEF Between, Migrating, DeptIdle
  <2> QED
    BY <1>2, <1>5, <2>1 DEF DeptInv, Sheltered, Placed
<1>9. OneAtATime'
  <2>1. OneAtATime
    BY DEF DeptInv
  <2>2. ~moves'.mixed => ~moves.mixed /\ (op = "migrate" => \A t \in DeptSlot : ~Migrating(t))
    BY <1>5 DEF DeptInv, DeptTypeOK, Moves
  <2> QED
    BY <1>1, <1>2, <1>3, <1>5, <2>1, <2>2 DEF OneAtATime, Migrating
<1>10. DeletesAlone'
  <2> SUFFICES ASSUME ~raced', NEW a \in DeptSlot, NEW b \in DeptSlot, a # b,
                      deptCall'[a].op = "delete"
               PROVE  deptCall'[b] = DeptIdle
    BY DEF DeletesAlone, Deleting
  <2>1. CASE a = s
    BY <1>1, <1>2, <1>3, <2>1
  <2>2. CASE b = s
    <3>1. Deleting(a) /\ deptCall[a] # DeptIdle
      BY <1>3, <2>2 DEF Deleting, DeptIdle
    <3> QED
      BY <1>2, <2>2, <3>1
  <2>3. CASE a # s /\ b # s
    BY <1>3, <1>4, <2>3 DEF DeptInv, DeletesAlone, Deleting
  <2> QED
    BY <2>1, <2>2, <2>3
<1>11. CountedStill'
  BY <1>1, <1>2, <1>3, <1>4 DEF DeptInv, CountedStill, Deleting, Childless, Unpeopled
<1>12. TargetStill'
  BY <1>1, <1>3, <1>4 DEF DeptInv, TargetStill, Migrating
<1>13. Founded'
  BY <1>2, <1>4 DEF DeptInv, Founded, NothingLeftBehind, Unfounded
<1> QED
  BY <1>6, <1>7, <1>8, <1>9, <1>10, <1>11, <1>12, <1>13 DEF DeptInv

LEMMA ArrivalsKeep ==
  ASSUME DeptInv, NEW s \in DeptSlot,
         ScopePage(s) \/ UpdateDept(s) \/ DeleteDept(s) \/ MigrateDeptUser(s)
  PROVE  DeptInv'
<1>1. LiveDepts \subseteq Dept
  BY DEF LiveDepts
<1>2. CASE ScopePage(s)
  BY <1>1, <1>2, CallKeeps DEF ScopePage
<1>3. CASE UpdateDept(s)
  <2>1. PICK d \in LiveDepts, parent \in Dept : Call(s, "update", "exists", {d}, parent)
    BY <1>3 DEF UpdateDept
  <2>2. {d} \in SUBSET Dept
    BY <1>1
  <2> QED
    BY <2>1, <2>2, CallKeeps
<1>4. CASE DeleteDept(s)
  BY <1>1, <1>4, CallKeeps DEF DeleteDept
<1>5. CASE MigrateDeptUser(s)
  <2>1. PICK source \in LiveDepts, target \in LiveDepts :
          Call(s, "migrate", "source", {source}, target)
    BY <1>5 DEF MigrateDeptUser
  <2>2. {source} \in SUBSET Dept /\ target \in Dept /\ \E d \in Dept : {source} = {d}
    BY <1>1
  <2> QED
    BY <2>1, <2>2, CallKeeps
<1> QED
  BY <1>2, <1>3, <1>4, <1>5

\* A department is saved or the root is created: there is one more.
LEMMA DeptAdded ==
  ASSUME DeptInv, NEW d \in Dept, NEW parent \in Dept \cup {NoDept}, dept[d].state = "none",
         dept' = [dept EXCEPT ![d] = [state |-> "live", parent |-> parent]],
         UNCHANGED <<userDepts, deptCall, hung, moves, deptCalls>>,
         raced' \in BOOLEAN, unfounded' \in BOOLEAN, raced => raced', unfounded => unfounded',
         parent = NoDept \/ unfounded' \/ ~Unfounded(parent),
         raced' \/ parent = NoDept \/ \A s \in DeptSlot : ~Deleting(s)
  PROVE  DeptInv'
<1>1. /\ \A x \in Dept : x # d => dept'[x] = dept[x]
      /\ dept'[d].state = "live" /\ dept'[d].parent = parent /\ dept' \in [Dept -> DeptRows]
      /\ userDepts' = userDepts /\ deptCall' = deptCall /\ hung' = hung /\ deptCalls' = deptCalls
      /\ moves' = moves
  BY DEF DeptInv, DeptTypeOK, DeptRows
<1>2. d \notin LiveDepts /\ LiveDepts' = LiveDepts \cup {d}
  BY <1>1 DEF LiveDepts
<1>3. DeptTypeOK'
  BY <1>1 DEF DeptInv, DeptTypeOK
<1>4. CallsShaped'
  BY <1>1 DEF DeptInv, CallsShaped
<1>5. Sheltered' /\ OneAtATime'
  BY <1>1 DEF DeptInv, Sheltered, OneAtATime, Between, Placed, Migrating
<1>6. DeletesAlone'
  BY <1>1 DEF DeptInv, DeletesAlone, Deleting
<1>7. CountedStill'
  <2> SUFFICES ASSUME ~raced', NEW s \in DeptSlot, Deleting(s),
                      deptCall[s].pc \in {"count", "remove"}, ~deptCall[s].busy
               PROVE  /\ \A x \in LiveDepts' : dept'[x].parent \notin deptCall[s].ids
                      /\ Unpeopled(deptCall[s].ids \ deptCall[s].left)
    BY <1>1 DEF CountedStill, Deleting, Childless, Unpeopled
  <2>1. Childless(deptCall[s].ids) /\ Unpeopled(deptCall[s].ids \ deptCall[s].left)
    BY DEF DeptInv, CountedStill
  <2>2. NoDept \notin deptCall[s].ids
    BY DeptAssumption DEF DeptInv, DeptTypeOK, DeptCallRecords
  <2> QED
    BY <1>1, <1>2, <2>1, <2>2 DEF Childless, LiveDepts
<1>8. TargetStill'
  BY <1>1, <1>2 DEF DeptInv, TargetStill, Migrating
<1>9. Founded'
  <2> SUFFICES ASSUME ~raced', ~unfounded' PROVE NothingLeftBehind'
    BY DEF Founded
  <2>1. NothingLeftBehind
    BY DEF DeptInv, Founded
  <2>2. RootDept \in Dept /\ dept[d].state # "deleted"
    BY DeptAssumption
  <2>3. \A x \in LiveDepts' : (dept[x].parent = NoDept \/ ~Unfounded(dept[x].parent))'
    <3> SUFFICES ASSUME NEW x \in LiveDepts', dept'[x].parent # NoDept
                 PROVE  IF dept'[x].parent = RootDept THEN dept'[RootDept].state # "deleted"
                        ELSE dept'[x].parent \in LiveDepts'
      BY DEF Unfounded
    <3>1. CASE x = d
      BY <1>1, <1>2, <2>2, <3>1 DEF Unfounded
    <3>2. CASE x # d
      BY <1>1, <1>2, <2>1, <2>2, <3>2 DEF NothingLeftBehind, Unfounded, LiveDepts
    <3> QED
      BY <3>1, <3>2
  <2>4. \A u \in User, x \in Dept : <<u, x>> \in userDepts' => x \in LiveDepts'
    BY <1>1, <1>2, <2>1 DEF NothingLeftBehind
  <2> QED
    BY <2>3, <2>4 DEF NothingLeftBehind
<1> QED
  BY <1>3, <1>4, <1>5, <1>6, <1>7, <1>8, <1>9 DEF DeptInv

LEMMA RootKeeps ==
  ASSUME DeptInv, GetOrCreateRootDept
  PROVE  DeptInv'
<1>1. /\ dept[RootDept].state = "none"
      /\ dept' = [dept EXCEPT ![RootDept] = [state |-> "live", parent |-> NoDept]]
      /\ UNCHANGED <<userDepts, deptCall, hung, raced, unfounded, moves, deptCalls>>
  BY DEF GetOrCreateRootDept
<1>2. raced' \in BOOLEAN /\ unfounded' \in BOOLEAN
  BY <1>1 DEF DeptInv, DeptTypeOK
<1>3. RootDept \in Dept
  BY DeptAssumption
<1> QED
  BY <1>1, <1>2, <1>3, DeptAdded

LEMMA SaveDeptKeeps ==
  ASSUME DeptInv, SaveDept
  PROVE  DeptInv'
<1>1. PICK d \in Dept \ {RootDept}, parent \in Dept :
        /\ dept[d].state = "none"
        /\ dept' = [dept EXCEPT ![d] = [state |-> "live", parent |-> parent]]
        /\ unfounded' = (unfounded \/ Unfounded(parent))
  BY DEF SaveDept
<1>2. /\ raced' = (raced \/ \E s \in DeptSlot : Deleting(s))
      /\ UNCHANGED <<userDepts, deptCall, hung, moves, deptCalls>>
  BY DEF SaveDept
<1>3. raced' \in BOOLEAN /\ unfounded' \in BOOLEAN
  BY <1>1, <1>2 DEF DeptInv, DeptTypeOK
<1> QED
  BY <1>1, <1>2, <1>3, DeptAdded

\* An update gives a department its new parent.
LEMMA WriteDeptKeeps ==
  ASSUME DeptInv, NEW s \in DeptSlot, WriteDept(s)
  PROVE  DeptInv'
<1> DEFINE c == deptCall[s]
<1>1. /\ c.pc = "write" /\ deptCall' = [deptCall EXCEPT ![s] = DeptIdle]
      /\ userDepts' = userDepts /\ hung' = hung /\ raced' = raced /\ deptCalls' = deptCalls
      /\ moves' = moves /\ unfounded' = (unfounded \/ Unfounded(c.to))
  BY DEF WriteDept, DeptEnds
<1>2. PICK d \in c.ids : dept' = [dept EXCEPT ![d].parent = c.to]
  BY DEF WriteDept
<1>3. /\ c \in DeptCallRecords /\ DeptCallShape(c) /\ DeptIdle \in DeptCallRecords
      /\ d \in Dept /\ dept[d] \in DeptRows /\ c.to \in Dept \cup {NoDept}
  BY <1>2 DEF DeptInv, DeptTypeOK, CallsShaped, DeptCallRecords, DeptIdle
<1>4. /\ \A o \in DeptSlot : deptCall'[o] = IF o = s THEN DeptIdle ELSE deptCall[o]
      /\ deptCall' \in [DeptSlot -> DeptCallRecords]
  BY <1>1, <1>3 DEF DeptInv, DeptTypeOK
<1>5. /\ dept' \in [Dept -> DeptRows] /\ dept'[d].parent = c.to
      /\ \A x \in Dept : /\ dept'[x].state = dept[x].state
                         /\ x # d => dept'[x] = dept[x]
  BY <1>2, <1>3 DEF DeptInv, DeptTypeOK, DeptRows
<1>6. LiveDepts' = LiveDepts
  BY <1>5 DEF LiveDepts
<1>7. ~raced => \A o \in DeptSlot : ~Deleting(o)
  <2>1. c # DeptIdle
    BY <1>1, NotIdle
  <2>2. c.op = "update"
    BY <1>1 DEF DeptInv, CallsShaped, DeptCallShape
  <2> QED
    BY <2>1, <2>2 DEF DeptInv, DeletesAlone, Deleting
<1>8. DeptTypeOK'
  BY <1>1, <1>4, <1>5 DEF DeptInv, DeptTypeOK
<1>9. CallsShaped'
  BY <1>4 DEF DeptInv, CallsShaped, DeptCallShape, DeptIdle
<1>10. Sheltered' /\ OneAtATime'
  BY <1>1, <1>4 DEF DeptInv, Sheltered, OneAtATime, Between, Placed, Migrating, DeptIdle
<1>11. DeletesAlone' /\ CountedStill'
  BY <1>1, <1>4, <1>7 DEF DeptInv, DeletesAlone, CountedStill, Deleting, DeptIdle
<1>12. TargetStill'
  BY <1>1, <1>4, <1>6 DEF DeptInv, TargetStill, Migrating, DeptIdle
<1>13. Founded'
  <2> SUFFICES ASSUME ~raced, ~unfounded, ~Unfounded(c.to) PROVE NothingLeftBehind'
    BY <1>1 DEF Founded
  <2>1. NothingLeftBehind
    BY DEF DeptInv, Founded
  <2>2. \A p : Unfounded(p)' = Unfounded(p)
    BY <1>5, <1>6, DeptAssumption DEF Unfounded
  <2>3. \A x \in LiveDepts : dept'[x].parent = NoDept \/ ~Unfounded(dept'[x].parent)
    BY <1>5, <2>1 DEF NothingLeftBehind, LiveDepts
  <2> QED
    BY <1>1, <1>6, <2>1, <2>2, <2>3 DEF NothingLeftBehind
<1> QED
  BY <1>8, <1>9, <1>10, <1>11, <1>12, <1>13 DEF DeptInv

\* A deletion finds what it has counted: it removes departments that have neither
\* departments nor users.
LEMMA SoftDeleteKeeps ==
  ASSUME DeptInv, NEW s \in DeptSlot, SoftDelete(s)
  PROVE  DeptInv'
<1> DEFINE c == deptCall[s]
<1>1. /\ c.pc = "remove" /\ Deleting(s) /\ deptCall' = [deptCall EXCEPT ![s] = DeptIdle]
      /\ userDepts' = userDepts /\ hung' = hung /\ raced' = raced /\ deptCalls' = deptCalls
      /\ unfounded' = unfounded /\ moves' = moves
      /\ dept' = [d \in Dept |-> IF d \in c.ids \cap LiveDepts
                                THEN [dept[d] EXCEPT !.state = "deleted"] ELSE dept[d]]
  BY DEF SoftDelete, DeptEnds
<1>2. DeptCallShape(c) /\ DeptIdle \in DeptCallRecords /\ dept \in [Dept -> DeptRows]
  BY DEF DeptInv, DeptTypeOK, CallsShaped, DeptCallRecords, DeptIdle
<1>3. /\ \A o \in DeptSlot : deptCall'[o] = IF o = s THEN DeptIdle ELSE deptCall[o]
      /\ deptCall' \in [DeptSlot -> DeptCallRecords]
  BY <1>1, <1>2 DEF DeptInv, DeptTypeOK
<1>4. /\ dept' \in [Dept -> DeptRows]
      /\ \A x \in Dept : /\ dept'[x].parent = dept[x].parent
                         /\ dept'[x].state = IF x \in c.ids \cap LiveDepts THEN "deleted"
                                             ELSE dept[x].state
  BY <1>1, <1>2 DEF DeptRows
<1>5. LiveDepts' = LiveDepts \ c.ids
  BY <1>4 DEF LiveDepts
<1>6. ~raced => \A o \in DeptSlot : deptCall'[o] = DeptIdle
  BY <1>1, <1>3 DEF DeptInv, DeletesAlone
<1>7. ~raced => Childless(c.ids) /\ Unpeopled(c.ids)
  <2>1. ~c.busy /\ c.left = {}
    BY <1>1, <1>2 DEF DeptCallShape, Deleting
  <2> QED
    BY <1>1, <2>1 DEF DeptInv, CountedStill, Unpeopled
<1>8. DeptTypeOK'
  BY <1>1, <1>3, <1>4 DEF DeptInv, DeptTypeOK
<1>9. CallsShaped'
  BY <1>3 DEF DeptInv, CallsShaped, DeptCallShape, DeptIdle
<1>10. Sheltered' /\ OneAtATime'
  <2>1. \A o \in DeptSlot : Migrating(o)' = Migrating(o)
                          /\ (Migrating(o) => deptCall'[o] = deptCall[o])
    BY <1>1, <1>3 DEF Migrating, Deleting, DeptIdle
  <2> QED
    BY <1>1, <2>1 DEF DeptInv, Sheltered, OneAtATime, Between, Placed
<1>11. DeletesAlone' /\ CountedStill' /\ TargetStill'
  BY <1>1, <1>6 DEF DeletesAlone, CountedStill, TargetStill, Deleting, Migrating, DeptIdle
<1>12. Founded'
  <2> SUFFICES ASSUME ~raced, ~unfounded PROVE NothingLeftBehind'
    BY <1>1 DEF Founded
  <2>1. NothingLeftBehind
    BY DEF DeptInv, Founded
  <2>2. \A x \in LiveDepts' : (dept[x].parent = NoDept \/ ~Unfounded(dept[x].parent))'
    <3> SUFFICES ASSUME NEW x \in LiveDepts', dept'[x].parent # NoDept
                 PROVE  (~Unfounded(dept[x].parent))'
      OBVIOUS
    <3>1. x \in LiveDepts /\ dept'[x].parent = dept[x].parent /\ dept[x].parent \notin c.ids
      BY <1>4, <1>5, <1>7 DEF LiveDepts, Childless
    <3>2. ~Unfounded(dept[x].parent)
      BY <2>1, <3>1 DEF NothingLeftBehind
    <3> QED
      BY <1>4, <1>5, <3>1, <3>2, DeptAssumption DEF Unfounded
  <2>3. \A u \in User, x \in Dept : <<u, x>> \in userDepts' => x \in LiveDepts'
    BY <1>1, <1>5, <1>7, <2>1 DEF NothingLeftBehind, Unpeopled
  <2> QED
    BY <2>2, <2>3 DEF NothingLeftBehind
<1> QED
  BY <1>8, <1>9, <1>10, <1>11, <1>12 DEF DeptInv

LEMMA LookupsKeep ==
  ASSUME DeptInv, NEW s \in DeptSlot, CheckSource(s) \/ CheckTarget(s) \/ FindUsers(s)
  PROVE  DeptInv'
<1> DEFINE c == deptCall[s]
<1>1. /\ c.pc \in {"source", "target", "users"}
      /\ UNCHANGED <<dept, userDepts, hung, raced, unfounded, moves, deptCalls>>
  BY DEF CheckSource, CheckTarget, FindUsers
<1>2. c \in DeptCallRecords /\ DeptCallShape(c) /\ hung' \in BOOLEAN /\ c.op = "migrate"
  BY <1>1 DEF DeptInv, DeptTypeOK, CallsShaped, DeptCallShape
<1>3. CASE DeptEnds(s)
  BY <1>1, <1>3, NotIdle, DeptEndsKeeps
<1>4. CASE DeptMoves(s, "target")
  BY <1>1, <1>2, <1>4, DeptMovesKeeps
<1>5. CASE c.to \in LiveDepts /\ DeptMoves(s, "users")
  <2> DEFINE d == [c EXCEPT !.pc = "users"]
  <2>1. deptCall' = [deptCall EXCEPT ![s] = d]
    BY <1>5 DEF DeptMoves
  <2>2. /\ d \in DeptCallRecords /\ d.op = c.op /\ d.pc = "users" /\ d.ids = c.ids /\ d.to = c.to
    BY <1>2 DEF DeptCallRecords
  <2> HIDE DEF d
  <2>3. DeptCallShape(d)
    BY <1>2, <2>2 DEF DeptCallShape
  <2> QED
    BY <1>1, <1>2, <1>5, <2>1, <2>2, <2>3, MovesKept, NotIdle, DeptGoesOn
<1>6. CASE /\ c.pc = "users"
           /\ deptCall' = [deptCall EXCEPT ![s].pc = "remove", ![s].users = UsersOf(c.ids)]
  <2> DEFINE d == [c EXCEPT !.pc = "remove", !.users = UsersOf(c.ids)]
  <2>1. deptCall' = [deptCall EXCEPT ![s] = d]
    BY <1>6
  <2>2. UsersOf(c.ids) \in SUBSET User
    BY DEF UsersOf
  <2>3. /\ d \in DeptCallRecords /\ d.op = c.op /\ d.pc = "remove" /\ d.ids = c.ids /\ d.to = c.to
        /\ d.users = UsersOf(d.ids)
    BY <1>2, <2>2 DEF DeptCallRecords
  <2> HIDE DEF d
  <2>4. DeptCallShape(d)
    BY <1>2, <2>3 DEF DeptCallShape
  <2>5. ~raced => d.to \in LiveDepts
    BY <1>2, <1>6, <2>3 DEF DeptInv, TargetStill, Migrating
  <2> QED
    BY <1>1, <1>2, <2>1, <2>3, <2>4, <2>5, MovesKept, NotIdle, DeptGoesOn
<1> QED
  BY <1>3, <1>4, <1>5, <1>6 DEF CheckSource, CheckTarget, FindUsers

\* A migration takes its users out of the source, and has then to insert them.
LEMMA RemoveUsersKeeps ==
  ASSUME DeptInv, NEW s \in DeptSlot, RemoveUsers(s)
  PROVE  DeptInv'
<1> DEFINE c == deptCall[s]
           d == [c EXCEPT !.pc = "add"]
<1>1. /\ c.pc = "remove" /\ c.op = "migrate" /\ userDepts' = userDepts \ (c.users \X c.ids)
      /\ deptCall' = [deptCall EXCEPT ![s] = d]
      /\ UNCHANGED <<dept, hung, raced, unfounded, moves, deptCalls>>
  BY DEF RemoveUsers, DeptMoves, Migrating
<1>2. c \in DeptCallRecords /\ DeptCallShape(c)
  BY DEF DeptInv, DeptTypeOK, CallsShaped
<1>3. /\ d \in DeptCallRecords /\ d.op = "migrate" /\ d.pc = "add" /\ d.ids = c.ids /\ d.to = c.to
      /\ d.users = c.users
  BY <1>1, <1>2 DEF DeptCallRecords
<1> HIDE DEF d
<1>4. /\ \A o \in DeptSlot : o # s => deptCall'[o] = deptCall[o]
      /\ deptCall'[s] = d /\ deptCall' \in [DeptSlot -> DeptCallRecords]
  BY <1>1, <1>3 DEF DeptInv, DeptTypeOK
<1>5. LiveDepts' = LiveDepts
  BY <1>1 DEF LiveDepts
<1>6. ~raced => \A o \in DeptSlot : ~Deleting(o)
  BY <1>1, NotIdle DEF DeptInv, DeletesAlone, Deleting
<1>7. DeptTypeOK'
  BY <1>1, <1>4 DEF DeptInv, DeptTypeOK
<1>8. CallsShaped'
  <2>1. DeptCallShape(d)
    BY <1>1, <1>2, <1>3 DEF DeptCallShape
  <2> QED
    BY <1>4, <2>1 DEF DeptInv, CallsShaped, DeptCallShape
<1>9. Sheltered'
  <2> SUFFICES ASSUME NEW u \in User, u \notin moves.cutOff \cup moves.refused
               PROVE  Placed(u)' \/ Between(u)'
    BY <1>1 DEF Sheltered
  <2>1. CASE u \in c.users
    BY <1>3, <1>4, <2>1 DEF Between, Migrating
  <2>2. CASE u \notin c.users
    <3>1. Placed(u) => Placed(u)'
      BY <1>1, <2>2 DEF Placed
    <3>2. Between(u) => Between(u)'
      BY <1>1, <1>4 DEF Between, Migrating
    <3> QED
      BY <3>1, <3>2 DEF DeptInv, Sheltered
  <2> QED
    BY <2>1, <2>2
<1>10. OneAtATime'
  <2> SUFFICES ASSUME ~moves.mixed
               PROVE  /\ moves.refused = {}
                      /\ \A a, b \in DeptSlot : Migrating(a)' /\ Migrating(b)' => a = b
                      /\ \A u \in User, x, e \in Dept :
                           <<u, x>> \in userDepts' /\ <<u, e>> \in userDepts' => x = e
                      /\ \A a \in DeptSlot, u \in User, x \in Dept :
                           /\ Migrating(a)' /\ u \in deptCall'[a].users /\ <<u, x>> \in userDepts'
                           => /\ deptCall'[a].pc = "remove" => x \in deptCall'[a].ids
                              /\ deptCall'[a].pc # "add"
    BY <1>1 DEF OneAtATime
  <2>1. OneAtATime /\ Migrating(s)
    BY <1>1 DEF DeptInv, Migrating
  <2>2. \A a \in DeptSlot : Migrating(a)' => a = s
    BY <1>1, <1>4, <2>1 DEF OneAtATime, Migrating
  <2>3. ASSUME NEW u \in c.users, NEW x \in Dept, u \in User PROVE <<u, x>> \notin userDepts'
    BY <1>1, <2>1, <2>3 DEF OneAtATime
  <2> QED
    BY <1>1, <1>3, <1>4, <2>1, <2>2, <2>3 DEF OneAtATime
<1>11. DeletesAlone' /\ CountedStill'
  BY <1>1, <1>3, <1>4, <1>6 DEF DeletesAlone, CountedStill, Deleting
<1>12. TargetStill'
  BY <1>1, <1>3, <1>4, <1>5 DEF DeptInv, TargetStill, Migrating
<1>13. Founded'
  BY <1>1, <1>5 DEF DeptInv, Founded, NothingLeftBehind, Unfounded
<1> QED
  BY <1>7, <1>8, <1>9, <1>10, <1>11, <1>12, <1>13 DEF DeptInv

\* Then it inserts them, and they have a department again.
LEMMA InsertionKeeps ==
  ASSUME DeptInv, NEW s \in DeptSlot, deptCall[s].pc = "add", DeptEnds(s),
         userDepts' = userDepts \cup (deptCall[s].users \X {deptCall[s].to}),
         UNCHANGED <<dept, hung, raced, unfounded, moves, deptCalls>>
  PROVE  DeptInv'
<1> DEFINE c == deptCall[s]
<1>1. /\ c \in DeptCallRecords /\ DeptCallShape(c) /\ c.op = "migrate" /\ c.to \in Dept
      /\ c.users \subseteq User /\ DeptIdle \in DeptCallRecords
  BY DEF DeptInv, DeptTypeOK, CallsShaped, DeptCallShape, DeptCallRecords, DeptIdle
<1>2. /\ \A o \in DeptSlot : deptCall'[o] = IF o = s THEN DeptIdle ELSE deptCall[o]
      /\ deptCall' \in [DeptSlot -> DeptCallRecords]
  BY <1>1 DEF DeptInv, DeptTypeOK, DeptEnds
<1>3. LiveDepts' = LiveDepts
  BY DEF LiveDepts
<1>4. ~raced => \A o \in DeptSlot : ~Deleting(o)
  BY <1>1, NotIdle DEF DeptInv, DeletesAlone, Deleting
<1>5. DeptTypeOK'
  BY <1>1, <1>2 DEF DeptInv, DeptTypeOK
<1>6. CallsShaped'
  BY <1>2 DEF DeptInv, CallsShaped, DeptCallShape, DeptIdle
<1>7. Sheltered'
  <2> SUFFICES ASSUME NEW u \in User, u \notin moves.cutOff \cup moves.refused
               PROVE  Placed(u)' \/ Between(u)'
    BY DEF Sheltered
  <2>1. CASE u \in c.users
    BY <1>1, <2>1 DEF Placed
  <2>2. CASE u \notin c.users
    <3>1. Placed(u) => Placed(u)'
      BY DEF Placed
    <3>2. Between(u) => Between(u)'
      BY <1>2, <2>2 DEF Between, Migrating
    <3> QED
      BY <3>1, <3>2 DEF DeptInv, Sheltered
  <2> QED
    BY <2>1, <2>2
<1>8. OneAtATime'
  <2> SUFFICES ASSUME ~moves.mixed
               PROVE  /\ moves.refused = {}
                      /\ \A a \in DeptSlot : ~Migrating(a)'
                      /\ \A u \in User, x, e \in Dept :
                           <<u, x>> \in userDepts' /\ <<u, e>> \in userDepts' => x = e
    BY DEF OneAtATime
  <2>1. OneAtATime /\ Migrating(s)
    BY <1>1 DEF DeptInv, Migrating
  <2>2. \A a \in DeptSlot : ~Migrating(a)'
    BY <1>2, <2>1 DEF OneAtATime, Migrating, DeptIdle
  <2>3. \A u \in c.users, x \in Dept : <<u, x>> \notin userDepts
    BY <1>1, <2>1 DEF OneAtATime
  <2> QED
    BY <1>1, <2>1, <2>2, <2>3 DEF OneAtATime
<1>9. DeletesAlone' /\ CountedStill'
  BY <1>2, <1>4 DEF DeletesAlone, CountedStill, Deleting, DeptIdle
<1>10. TargetStill'
  BY <1>2, <1>3 DEF DeptInv, TargetStill, Migrating, DeptIdle
<1>11. Founded'
  <2>1. raced \/ c.to \in LiveDepts
    BY <1>1 DEF DeptInv, TargetStill, Migrating
  <2> QED
    BY <1>3, <2>1 DEF DeptInv, Founded, NothingLeftBehind, Unfounded
<1> QED
  BY <1>5, <1>6, <1>7, <1>8, <1>9, <1>10, <1>11 DEF DeptInv

LEMMA AddUsersKeeps ==
  ASSUME DeptInv, NEW s \in DeptSlot, AddUsers(s)
  PROVE  DeptInv'
<1> DEFINE c == deptCall[s]
           new == c.users \X {c.to}
<1>1. /\ c.pc = "add" /\ DeptEnds(s) /\ UNCHANGED <<dept, hung, raced, unfounded, deptCalls>>
  BY DEF AddUsers
<1>2. CASE userDepts' = userDepts \cup new /\ UNCHANGED moves
  BY <1>1, <1>2, InsertionKeeps
<1>3. CASE /\ new \cap userDepts # {} /\ userDepts' = userDepts
           /\ moves' = [moves EXCEPT !.refused = @ \cup c.users]
  <2>1. /\ moves \in Moves /\ c.op = "migrate" /\ c.to \in Dept /\ c.users \subseteq User
    BY <1>1 DEF DeptInv, DeptTypeOK, CallsShaped, DeptCallShape, DeptCallRecords
  <2>2. moves.mixed
    BY <1>1, <1>3, <2>1 DEF DeptInv, OneAtATime, Migrating
  <2>3. /\ moves' \in Moves /\ moves'.mixed = moves.mixed /\ moves'.cutOff = moves.cutOff
        /\ moves'.refused = moves.refused \cup c.users
    BY <1>3, <2>1 DEF Moves
  <2> QED
    BY <1>1, <1>3, <2>2, <2>3, NotIdle, DeptEndsNoted
<1> QED
  BY <1>1, <1>2, <1>3 DEF AddUsers

\* Whatever fails, a call ends as it is.
LEMMA FailureKeeps ==
  ASSUME DeptInv, NEW s \in DeptSlot, DeptCallFails(s)
  PROVE  DeptInv'
<1>1. /\ deptCall[s] # DeptIdle /\ DeptEnds(s) /\ CutOff({s})
      /\ UNCHANGED <<dept, userDepts, hung, raced, unfounded, deptCalls>>
  BY DEF DeptCallFails
<1>2. deptCall[s].pc = "add" => Migrating(s)
  BY DEF DeptInv, CallsShaped, DeptCallShape, Migrating
<1>3. /\ moves' \in Moves /\ moves'.mixed = moves.mixed
      /\ moves.cutOff \subseteq moves'.cutOff /\ moves'.refused = moves.refused
      /\ Migrating(s) /\ deptCall[s].pc = "add" => deptCall[s].users \subseteq moves'.cutOff
  BY <1>1, CutOffNotes
<1> QED
  BY <1>1, <1>2, <1>3, DeptEndsNoted

LEMMA DeptIdles ==
  ASSUME DeptInv, UNCHANGED deptVars
  PROVE  DeptInv'
<1>1. UNCHANGED <<dept, userDepts, deptCall, hung, raced, unfounded, moves, deptCalls>>
  BY DEF deptVars
<1>2. LiveDepts' = LiveDepts
  BY <1>1 DEF LiveDepts
<1>3. DeptTypeOK' /\ CallsShaped' /\ Sheltered' /\ OneAtATime'
  BY <1>1 DEF DeptInv, DeptTypeOK, CallsShaped, Sheltered, OneAtATime, Placed, Between, Migrating
<1>4. DeletesAlone' /\ CountedStill' /\ TargetStill' /\ Founded'
  BY <1>1, <1>2 DEF DeptInv, DeletesAlone, CountedStill, TargetStill, Founded, Deleting, Migrating,
     Childless, Unpeopled, NothingLeftBehind, Unfounded
<1> QED
  BY <1>3, <1>4 DEF DeptInv

LEMMA DeptNextKeeps ==
  ASSUME DeptInv, [DeptNext]_deptVars
  PROVE  DeptInv'
<1>1. CASE UNCHANGED deptVars
  BY <1>1, DeptIdles
<1>2. CASE GetOrCreateRootDept \/ SaveDept
  BY <1>2, RootKeeps, SaveDeptKeeps
<1>3. ASSUME NEW s \in DeptSlot,
             \/ ScopePage(s) \/ UpdateDept(s) \/ DeleteDept(s) \/ MigrateDeptUser(s)
             \/ CheckExist(s) \/ WriteDept(s)
             \/ LoadDepts(s) \/ CountUsers(s) \/ SoftDelete(s)
             \/ CheckSource(s) \/ CheckTarget(s) \/ FindUsers(s)
             \/ RemoveUsers(s) \/ AddUsers(s)
             \/ DeptCallFails(s)
      PROVE  DeptInv'
  <2>1. CASE ScopePage(s) \/ UpdateDept(s) \/ DeleteDept(s) \/ MigrateDeptUser(s)
    BY <2>1, ArrivalsKeep
  <2>2. CASE CheckExist(s) \/ WriteDept(s)
    BY <2>2, CheckExistKeeps, WriteDeptKeeps
  <2>3. CASE LoadDepts(s) \/ CountUsers(s) \/ SoftDelete(s)
    BY <2>3, LoadDeptsKeeps, CountUsersKeeps, SoftDeleteKeeps
  <2>4. CASE CheckSource(s) \/ CheckTarget(s) \/ FindUsers(s)
    BY <2>4, LookupsKeep
  <2>5. CASE RemoveUsers(s) \/ AddUsers(s)
    BY <2>5, RemoveUsersKeeps, AddUsersKeeps
  <2>6. CASE DeptCallFails(s)
    BY <2>6, FailureKeeps
  <2> QED
    BY <1>3, <2>1, <2>2, <2>3, <2>4, <2>5, <2>6
<1> QED
  BY <1>1, <1>2, <1>3 DEF DeptNext

LEMMA DeptInvariant == DeptSpec => []DeptInv
<1> USE DEF DeptSpec
<1> QED
  BY DeptInitInv, DeptNextKeeps, PTL

\* The types of the departments' tables and calls.
THEOREM DeptsTyped == DeptSpec => []DeptTypeOK
<1>1. DeptInv => DeptTypeOK
  BY DEF DeptInv
<1> QED
  BY <1>1, DeptInvariant, PTL

\* addAndRemove deletes the rows of the users it has found and then inserts the new ones:
\* whatever overlaps or stops halfway, a user without a department is one whose insertion
\* is still to come, was cut off or was refused; and with one migration at a time and users
\* of one department none is refused, as the users found have left all they had.  A deletion
\* that ran alone finds its departments as it counted them and leaves nothing hanging in
\* the air.
THEOREM NobodyIsLost == DeptSpec => []NobodyLost
<1>1. DeptInv => NobodyLost
  <2> SUFFICES ASSUME DeptInv PROVE NobodyLost
    OBVIOUS
  <2>1. ASSUME NEW u \in User, Between(u) PROVE u \in BetweenHomes(DeptSlot)
    BY <2>1 DEF Between, BetweenHomes
  <2>2. moves.refused = {} \/ moves.mixed
    BY DEF DeptInv, OneAtATime
  <2> QED
    BY <2>1, <2>2 DEF DeptInv, Sheltered, Founded, NobodyLost
<1> QED
  BY <1>1, DeptInvariant, PTL

-----------------------------------------------------------------------------
(* The departments above and below one *)

\* The live departments in the order of the queries, each once.
LEMMA ListedIs ==
  ASSUME DeptTypeOK
  PROVE  /\ Listed \in Seq(Dept) /\ ToSet(Listed) = LiveDepts /\ IsInjective(Listed)
         /\ LiveDepts \subseteq Dept /\ IsFiniteSet(LiveDepts)
<1>1. LiveDepts \subseteq Dept
  BY DEF LiveDepts
<1>2. IsFiniteSet(LiveDepts)
  BY <1>1, FS_Subset, DeptAssumption
<1>3. /\ DeptOrder \in Seq(Dept) /\ IsInjective(DeptOrder) /\ ToSet(DeptOrder) = Dept
  BY DeptAssumption
<1>4. Listed \in Seq(Dept) /\ ToSet(Listed) = Dept \cap LiveDepts /\ IsInjective(Listed)
  BY <1>3, Selected DEF Listed
<1> QED
  BY <1>1, <1>2, <1>4

\* The children of a department, each once.
LEMMA KidsAre ==
  ASSUME DeptTypeOK, NEW p \in Dept
  PROVE  /\ Kids(p) \in Seq(Dept) /\ IsInjective(Kids(p))
         /\ ToSet(Kids(p)) = {d \in LiveDepts : dept[d].parent = p}
<1> DEFINE chosen == {d \in LiveDepts : dept[d].parent = p}
<1>1. Listed \in Seq(Dept) /\ ToSet(Listed) = LiveDepts /\ IsInjective(Listed)
  BY ListedIs
<1>2. chosen \subseteq LiveDepts
  OBVIOUS
<1>3. Kids(p) = Select(Listed, chosen)
  BY DEF Kids
<1> HIDE DEF chosen
<1>4. Kids(p) \in Seq(Dept) /\ ToSet(Kids(p)) = LiveDepts \cap chosen /\ IsInjective(Kids(p))
  BY <1>1, <1>3, Selected
<1> QED
  BY <1>2, <1>4 DEF chosen

\* Above is the least set with the parent of a department and those of its members.
LEMMA AboveIs ==
  ASSUME NEW d
  PROVE  /\ Above(d) \in UpClosed /\ HasParent(Above(d), d)
         /\ \A ds \in UpClosed : HasParent(ds, d) => Above(d) \subseteq ds
<1>1. Above(d) \subseteq LiveDepts /\ \A ds \in UpClosed : HasParent(ds, d) => Above(d) \subseteq ds
  BY DEF Above
<1>2. HasParent(Above(d), d)
  BY DEF Above, HasParent
<1>3. ASSUME NEW a \in Above(d) PROVE HasParent(Above(d), a)
  <2> SUFFICES ASSUME dept[a].parent \in LiveDepts, NEW ds \in UpClosed, HasParent(ds, d)
               PROVE  dept[a].parent \in ds
    BY DEF Above, HasParent
  <2>1. a \in ds
    BY <1>1
  <2> QED
    BY <2>1 DEF UpClosed, HasParent
<1> QED
  BY <1>1, <1>2, <1>3 DEF UpClosed

\* What is above a department's live parent is above the department.
LEMMA AboveParent ==
  ASSUME NEW d, dept[d].parent \in LiveDepts
  PROVE  dept[d].parent \in Above(d) /\ Above(dept[d].parent) \subseteq Above(d)
<1>1. dept[d].parent \in Above(d) /\ Above(d) \in UpClosed
  BY AboveIs DEF HasParent
<1>2. PICK p : p = dept[d].parent
  OBVIOUS
<1>3. HasParent(Above(d), p)
  BY <1>1, <1>2 DEF UpClosed
<1>4. Above(p) \subseteq Above(d)
  BY <1>1, <1>3, AboveIs
<1> QED
  BY <1>1, <1>2, <1>4

\* A department on a cycle has a child on it.
LEMMA CycleGoesOn ==
  ASSUME NEW d \in LiveDepts, OnCycle(d)
  PROVE  \E c \in LiveDepts : dept[c].parent = d /\ OnCycle(c)
<1>1. d \in Above(d) /\ Above(d) \in UpClosed /\ HasParent(Above(d), d)
  BY AboveIs DEF OnCycle
<1>2. PICK c \in Above(d) : dept[c].parent = d
  <2> SUFFICES ASSUME \A c \in Above(d) : dept[c].parent # d PROVE FALSE
    OBVIOUS
  <2> DEFINE ds == Above(d) \ {d}
  <2>1. dept[d].parent # d
    BY <1>1
  <2>2. ds \in UpClosed
    BY <1>1 DEF UpClosed, HasParent
  <2>3. HasParent(ds, d)
    BY <1>1, <2>1 DEF HasParent
  <2>4. Above(d) \subseteq ds
    BY <2>2, <2>3, AboveIs
  <2> QED
    BY <1>1, <2>4
<1>3. c \in LiveDepts
  BY <1>1 DEF UpClosed
<1>4. Above(d) \subseteq Above(c)
  BY <1>2, AboveParent
<1> QED
  BY <1>2, <1>3, <1>4 DEF OnCycle

Below(d) == {c \in LiveDepts : d \in Above(c)}

\* What has every live child of a department and of its members has every
\* department below it.
LEMMA BelowIsLeast ==
  ASSUME NEW d \in LiveDepts, NEW ds,
         \A c \in LiveDepts : dept[c].parent = d \/ dept[c].parent \in ds => c \in ds
  PROVE  Below(d) \subseteq ds
<1> SUFFICES ASSUME NEW c \in LiveDepts, c \notin ds PROVE d \notin Above(c)
  BY DEF Below
<1> DEFINE rest == LiveDepts \ (ds \cup {d})
<1>1. rest \in UpClosed
  BY DEF UpClosed, HasParent
<1>2. HasParent(rest, c)
  BY DEF HasParent
<1>3. Above(c) \subseteq rest
  BY <1>1, <1>2, AboveIs
<1> QED
  BY <1>3

-----------------------------------------------------------------------------
(* The count of the departments below one *)

KidSets == [p \in Dept |-> ToSet(Kids(p))]

\* The walk is a traversal.
LEMMA Walked ==
  ASSUME DeptTypeOK, NEW d \in LiveDepts
  PROVE  /\ Cardinality(Dept) \in Nat
         /\ \E queue, found :
              /\ Rounds(Cardinality(Dept), Dept, ToSet(Kids(d)), KidSets, queue, found)
              /\ Walk(d).queue = queue[Cardinality(Dept)]
              /\ Walk(d).found = found[Cardinality(Dept)]
              /\ found[Cardinality(Dept)] \in Seq(Dept)
<1> DEFINE n == Cardinality(Dept)
           S == [queue : Seq(Dept), found : Seq(Dept)]
           next(at) == IF at.queue = <<>> THEN at
                       ELSE [queue |-> Tail(at.queue) \o Kids(Head(at.queue)),
                             found |-> Append(at.found, Head(at.queue))]
           visit == [k \in 1 .. n |-> [at \in S |-> next(at)]]
           start == [queue |-> Kids(d), found |-> <<>>]
           after == Repeats(visit, start, n)
           queue == [k \in 0 .. n |-> after[k].queue]
           found == [k \in 0 .. n |-> after[k].found]
<1>1. n \in Nat
  BY DeptAssumption, FS_CardinalityType
<1>2. ASSUME NEW at \in S
      PROVE  /\ next(at) \in S
             /\ Round(at.queue, at.found, next(at).queue, next(at).found, KidSets)
  <2>0. at.queue \in Seq(Dept) /\ at.found \in Seq(Dept)
    OBVIOUS
  <2>1. CASE at.queue = <<>>
    BY <2>1 DEF Round
  <2>2. CASE at.queue # <<>>
    <3> DEFINE p == Head(at.queue)  rest == Tail(at.queue)  pushed == Kids(p)
    <3>1. /\ rest \in Seq(Dept) /\ p \in Dept /\ ToSet(at.queue) = ToSet(rest) \cup {p}
          /\ IsInjective(at.queue) => IsInjective(rest) /\ p \notin ToSet(rest)
      BY <2>0, <2>2, HeadApart
    <3>2. pushed \in Seq(Dept) /\ IsInjective(pushed)
      BY <3>1, KidsAre
    <3>3. ToSet(pushed) = KidSets[p]
      BY <3>1 DEF KidSets
    <3>4. next(at) = [queue |-> rest \o pushed, found |-> Append(at.found, p)]
      BY <2>2
    <3> HIDE DEF p, rest, pushed, next
    <3>5. /\ rest \o pushed \in Seq(Dept) /\ ToSet(rest \o pushed) = ToSet(rest) \cup KidSets[p]
          /\ IsInjective(rest) /\ ToSet(rest) \cap KidSets[p] = {} => IsInjective(rest \o pushed)
      BY <3>1, <3>2, <3>3, Concatenated
    <3>6. next(at).queue = rest \o pushed /\ next(at).found = Append(at.found, p)
      BY <3>4
    <3>7. p \in ToSet(at.queue)
      BY <3>1
    <3>8. IsInjective(at.queue) /\ KidSets[p] \cap ToSet(at.queue) = {}
            => /\ IsInjective(next(at).queue)
               /\ ToSet(next(at).queue) = (ToSet(at.queue) \ {p}) \cup KidSets[p]
      BY <3>1, <3>5, <3>6
    <3>9. next(at) \in S
      BY <2>0, <3>1, <3>4, <3>5
    <3>10. (ToSet(at.queue) \ {p}) \cup KidSets[p] \subseteq ToSet(next(at).queue)
      BY <3>1, <3>5, <3>6
    <3> QED
      BY <2>2, <3>6, <3>7, <3>8, <3>9, <3>10 DEF Round, Visits
  <2> QED
    BY <2>1, <2>2
<1> HIDE DEF next
<1>3. Kids(d) \in Seq(Dept) /\ IsInjective(Kids(d))
  BY KidsAre DEF LiveDepts
<1>4. visit \in [1 .. n -> [S -> S]] /\ start \in S
  BY <1>2, <1>3
<1>5. \A k \in 1 .. n : \A at \in S : visit[k][at] = next(at)
  OBVIOUS
<1>6. Walk(d) = after[n]
  BY DEF Walk, next
<1>7. start.queue = Kids(d) /\ start.found = <<>>
  OBVIOUS
<1> HIDE DEF visit, start, S, n
<1>8. /\ after \in [0 .. n -> S] /\ after[0] = start
      /\ \A k \in 1 .. n : after[k] = visit[k][after[k - 1]]
  <2>1. after \in [0 .. n -> S]
    BY <1>1, <1>4, RepeatsTyped
  <2>2. after[0] = start /\ \A k \in 1 .. n : after[k] = visit[k][after[k - 1]]
    BY <1>1, RepeatsIs
  <2> HIDE DEF after
  <2> QED
    BY <2>1, <2>2
<1> HIDE DEF after
<1>9. Rounds(n, Dept, ToSet(Kids(d)), KidSets, queue, found)
  <2>1. queue \in [0 .. n -> Seq(Dept)] /\ found \in [0 .. n -> Seq(Dept)]
    BY <1>8 DEF S
  <2>2. queue[0] = Kids(d) /\ found[0] = <<>> /\ IsInjective(Kids(d))
    BY <1>1, <1>3, <1>7, <1>8
  <2>3. ASSUME NEW k \in 1 .. n PROVE Round(queue[k - 1], found[k - 1], queue[k], found[k], KidSets)
    <3>1. k - 1 \in 0 .. n /\ k \in 0 .. n
      BY <1>1
    <3>2. PICK at \in S : at = after[k - 1]
      BY <1>8, <3>1
    <3>3. after[k] = next(at)
      BY <1>5, <1>8, <3>2
    <3> QED
      BY <1>2, <3>1, <3>2, <3>3
  <2> HIDE DEF queue, found
  <2> QED
    BY <2>1, <2>2, <2>3 DEF Rounds
<1>10. Walk(d).queue = queue[n] /\ Walk(d).found = found[n] /\ found[n] \in Seq(Dept)
  BY <1>1, <1>6, <1>8 DEF S
<1> HIDE DEF queue, found
<1> QED
  BY <1>1, <1>9, <1>10 DEF n

\* Without a cycle there is one way down to each department below another.
LEMMA BelowOneWay ==
  ASSUME DeptTypeOK, NEW d \in LiveDepts, ~ OnCycle(d)
  PROVE  OneWay(Dept, Below(d), ToSet(Kids(d)), KidSets)
<1>1. \A p \in Dept : KidSets[p] = {c \in LiveDepts : dept[c].parent = p} /\ ToSet(Kids(p)) = KidSets[p]
  BY KidsAre DEF KidSets
<1>2. KidSets \in [Dept -> SUBSET Dept] /\ Below(d) \subseteq Dept /\ d \in Dept
  BY <1>1 DEF KidSets, Below, LiveDepts
<1>3. ToSet(Kids(d)) \subseteq Below(d)
  BY <1>1, <1>2, AboveParent DEF Below
<1>4. ASSUME NEW p \in Below(d) PROVE KidSets[p] \subseteq Below(d) /\ KidSets[p] \cap ToSet(Kids(d)) = {}
  <2>1. p \in LiveDepts /\ d \in Above(p) /\ p \in Dept
    BY <1>2 DEF Below
  <2>2. p # d
    BY <2>1 DEF OnCycle
  <2>3. \A c \in KidSets[p] : c \in Below(d)
    BY <1>1, <2>1, AboveParent DEF Below
  <2> QED
    BY <1>1, <1>2, <2>1, <2>2, <2>3
<1>5. \A p, q \in Below(d) : p # q => KidSets[p] \cap KidSets[q] = {}
  BY <1>1, <1>2
<1> QED
  BY <1>2, <1>3, <1>4, <1>5 DEF OneWay

\* The walk ends and counts what is below, or goes on for ever round a cycle.
LEMMA CountIsExact ==
  ASSUME DeptTypeOK, NEW d \in LiveDepts
  PROVE  IF Walk(d).queue = <<>>
         THEN ToSet(Walk(d).found) = Below(d) /\ Len(Walk(d).found) = Cardinality(Below(d))
         ELSE \E c \in Below(d) : OnCycle(c)
<1> DEFINE n == Cardinality(Dept)
<1>1. n \in Nat
  BY Walked
<1>2. PICK queue, found :
        /\ Rounds(n, Dept, ToSet(Kids(d)), KidSets, queue, found)
        /\ Walk(d).queue = queue[n] /\ Walk(d).found = found[n] /\ found[n] \in Seq(Dept)
  BY Walked
<1>3. \A p \in Dept : KidSets[p] = {c \in LiveDepts : dept[c].parent = p} /\ ToSet(Kids(p)) = KidSets[p]
  BY KidsAre DEF KidSets
<1>4. LiveDepts \subseteq Dept /\ IsFiniteSet(Dept)
  BY DeptAssumption DEF LiveDepts
<1>5. CASE OnCycle(d)
  <2> DEFINE C == {c \in LiveDepts : OnCycle(c)}
  <2>1. \A c \in C : KidSets[c] \cap C # {}
    BY <1>3, <1>4, CycleGoesOn
  <2>2. ToSet(Kids(d)) \cap C # {}
    BY <1>3, <1>4, <1>5, <2>1
  <2> HIDE DEF C, n
  <2>3. queue[n] # <<>>
    BY <1>1, <1>2, <2>1, <2>2, NeverDone
  <2>4. d \in Below(d)
    BY <1>5 DEF Below, OnCycle
  <2> QED
    BY <1>2, <1>5, <2>3, <2>4
<1>6. CASE ~ OnCycle(d)
  <2>1. OneWay(Dept, Below(d), ToSet(Kids(d)), KidSets)
    BY <1>6, BelowOneWay
  <2>2. IsFiniteSet(Below(d)) /\ Cardinality(Below(d)) <= n
    <3>1. Below(d) \subseteq Dept
      BY <1>4 DEF Below
    <3> QED
      BY <1>4, <3>1, FS_Subset
  <2> HIDE DEF n
  <2>3. queue[n] = <<>> /\ IsInjective(found[n]) /\ ToSet(found[n]) \subseteq Below(d)
    BY <1>1, <1>2, <2>1, <2>2, Traversal
  <2>4. \A x : x \in ToSet(found[n]) <=> x \in ToSet(Kids(d)) \/ \E p \in ToSet(found[n]) : x \in KidSets[p]
    BY <1>1, <1>2, <2>1, <2>2, Traversal
  <2>5. ToSet(found[n]) \subseteq Dept
    BY <1>4, <2>3 DEF Below
  <2>6. Below(d) \subseteq ToSet(found[n])
    <3>1. \A c \in LiveDepts : dept[c].parent = d \/ dept[c].parent \in ToSet(found[n]) => c \in ToSet(found[n])
      BY <1>3, <1>4, <2>4, <2>5
    <3> QED
      BY <3>1, BelowIsLeast
  <2>7. ToSet(found[n]) = Below(d) /\ Cardinality(ToSet(found[n])) = Len(found[n])
    BY <1>2, <2>3, <2>6, LengthOf
  <2> QED
    BY <1>2, <2>3, <2>7
<1> QED
  BY <1>5, <1>6

\* The count of getDeptCountTotal is exact, or does not end as a department on a cycle
\* is below the one asked for: of every table, however large.
THEOREM CountsAreExact == DeptSpec => []CountsExactly
<1>1. DeptTypeOK => CountsExactly
  <2> SUFFICES ASSUME DeptTypeOK, NEW d \in LiveDepts
               PROVE  IF Walk(d).queue = <<>>
                      THEN ToSet(Walk(d).found) = Below(d) /\ Len(Walk(d).found) = Cardinality(Below(d))
                      ELSE \E c \in Below(d) : OnCycle(c)
    BY DEF CountsExactly, Below
  <2> QED
    BY CountIsExact
<1>2. DeptSpec => []DeptTypeOK
  BY DeptsTyped
<1> QED
  BY <1>1, <1>2, PTL

-----------------------------------------------------------------------------
(* The tree of the departments *)

\* The tree has the live departments, and the parents that the rows name; what is no
\* root has a parent in it.
LEMMA DeptForestIs ==
  ASSUME DeptTypeOK
  PROVE  /\ IsForest(DeptForest) /\ Nodes(DeptForest) = LiveDepts
         /\ \A p \in LiveDepts : \A n \in ToSet(DeptForest.children[p]) :
              n \in LiveDepts /\ dept[n].parent = p
         /\ \A n \in LiveDepts \ ToSet(DeptForest.roots) :
              /\ dept[n].parent \in LiveDepts
              /\ n \in ToSet(DeptForest.children[dept[n].parent])
<1> DEFINE parent == [d \in Dept |-> dept[d].parent]
           top == IF RootDept \in LiveDepts THEN dept[RootDept].parent ELSE NoDept
           roots == {n \in LiveDepts : parent[n] = top \/ parent[n] \notin LiveDepts}
           under(p) == {n \in LiveDepts \ roots : parent[n] = p}
           forest == DeptForest
<1>1. Listed \in Seq(Dept) /\ ToSet(Listed) = LiveDepts /\ IsInjective(Listed)
  BY ListedIs
<1>2. LiveDepts \subseteq Dept /\ IsFiniteSet(LiveDepts)
  BY ListedIs
<1>3. forest = [roots |-> Select(Listed, roots),
                children |-> [p \in LiveDepts |-> Select(Listed, under(p))]]
  BY <1>1 DEF DeptForest, ToTree
<1>4. \A n \in LiveDepts : parent[n] = dept[n].parent
  BY <1>2
<1> HIDE DEF parent, top
<1>5. roots \subseteq LiveDepts /\ \A n \in LiveDepts \ roots : parent[n] \in LiveDepts
  OBVIOUS
<1>6. \A p, n : n \in under(p) <=> n \in LiveDepts /\ n \notin roots /\ parent[n] = p
  OBVIOUS
<1> HIDE DEF roots, under
<1>7. /\ forest.roots = Select(Listed, roots)
      /\ forest.children = [p \in LiveDepts |-> Select(Listed, under(p))]
  BY <1>3
<1> HIDE DEF forest
<1>8. Nodes(forest) = LiveDepts
  BY <1>7 DEF Nodes
<1>9. Listed \in Seq(LiveDepts)
  BY <1>1 DEF ToSet
<1>10. forest.roots \in Seq(LiveDepts) /\ IsInjective(forest.roots) /\ ToSet(forest.roots) = roots
  <2>1. ToSet(forest.roots) = LiveDepts \cap roots
    BY <1>1, <1>7, <1>9, Selected
  <2> QED
    BY <1>1, <1>5, <1>7, <1>9, <2>1, Selected
<1>11. ASSUME NEW p \in LiveDepts
       PROVE  /\ forest.children[p] \in Seq(LiveDepts) /\ IsInjective(forest.children[p])
              /\ ToSet(forest.children[p]) = under(p)
  <2>1. forest.children[p] = Select(Listed, under(p))
    BY <1>7
  <2>2. under(p) \subseteq LiveDepts
    BY <1>6
  <2>3. ToSet(forest.children[p]) = LiveDepts \cap under(p)
    BY <1>1, <1>9, <2>1, Selected
  <2> QED
    BY <1>1, <1>9, <2>1, <2>2, <2>3, Selected
<1>12. IsForest(forest)
  <2>1. forest.children \in [LiveDepts -> Seq(LiveDepts)]
    BY <1>7, <1>11
  <2>2. \A p \in LiveDepts : ToSet(forest.children[p]) \cap ToSet(forest.roots) = {}
    BY <1>6, <1>10, <1>11
  <2>3. ASSUME NEW p \in LiveDepts, NEW q \in LiveDepts, p # q
        PROVE  ToSet(forest.children[p]) \cap ToSet(forest.children[q]) = {}
    BY <1>6, <1>11, <2>3
  <2> QED
    BY <1>2, <1>8, <1>10, <1>11, <2>1, <2>2, <2>3 DEF IsForest
<1>13. ASSUME NEW p \in LiveDepts, NEW n \in ToSet(forest.children[p])
       PROVE  n \in LiveDepts /\ dept[n].parent = p
  BY <1>4, <1>6, <1>11
<1>14. ASSUME NEW n \in LiveDepts \ ToSet(forest.roots)
       PROVE  dept[n].parent \in LiveDepts /\ n \in ToSet(forest.children[dept[n].parent])
  <2>1. n \notin roots /\ parent[n] \in LiveDepts /\ parent[n] = dept[n].parent
    BY <1>4, <1>5, <1>10
  <2> QED
    BY <1>6, <1>11, <2>1
<1> QED
  BY <1>8, <1>12, <1>13, <1>14 DEF forest

\* A set of departments each of which has its parent in it has one on a cycle at or
\* above any of its members: the one with the fewest departments above it has as many
\* above its parent.
LEMMA NoTopNoEnd ==
  ASSUME DeptTypeOK, NEW U, U \subseteq LiveDepts, \A u \in U : dept[u].parent \in U,
         NEW d \in U
  PROVE  \E c \in LiveDepts : OnCycle(c) /\ c \in Above(d)
<1> DEFINE at == Above(d) \cup {d}  sizes == {Cardinality(Above(c)) : c \in at}
<1>1. Above(d) \in UpClosed /\ Above(d) \subseteq U
  <2>1. U \in UpClosed /\ HasParent(U, d)
    BY DEF UpClosed, HasParent
  <2> QED
    BY <2>1, AboveIs
<1>2. \A c : IsFiniteSet(Above(c)) /\ Cardinality(Above(c)) \in Nat
  <2>1. IsFiniteSet(LiveDepts) /\ \A c : Above(c) \subseteq LiveDepts
    BY ListedIs DEF Above
  <2> QED
    BY <2>1, FS_Subset, FS_CardinalityType
<1>3. PICK c \in at : \A b \in at : Cardinality(Above(c)) <= Cardinality(Above(b))
  <2>1. sizes \subseteq Nat /\ sizes # {}
    BY <1>2
  <2>2. PICK size \in sizes : \A other \in sizes : size <= other
    BY <2>1, LeastNumber
  <2> QED
    BY <2>2
<1>4. c \in U /\ dept[c].parent \in LiveDepts
  BY <1>1
<1>5. PICK p : p = dept[c].parent
  OBVIOUS
<1>6. p \in LiveDepts /\ p \in Above(c) /\ Above(p) \subseteq Above(c)
  BY <1>4, <1>5, AboveParent
<1>7. p \in Above(d)
  <2>1. CASE c = d
    BY <1>6, <2>1
  <2>2. CASE c \in Above(d)
    BY <1>1, <1>4, <1>5, <2>2 DEF UpClosed, HasParent
  <2> QED
    BY <2>1, <2>2
<1>8. Above(p) = Above(c)
  <2>1. Cardinality(Above(p)) <= Cardinality(Above(c)) /\ (Cardinality(Above(p)) = Cardinality(Above(c)) => Above(p) = Above(c))
    BY <1>2, <1>6, FS_Subset
  <2>2. Cardinality(Above(c)) <= Cardinality(Above(p))
    BY <1>3, <1>7
  <2> QED
    BY <1>2, <2>1, <2>2
<1> QED
  BY <1>6, <1>7, <1>8 DEF OnCycle

\* What the tree does not show is on a cycle or below one.
LEMMA HiddenByCycle ==
  ASSUME DeptTypeOK, NEW d \in LiveDepts \ ToSet(Flatten(DeptForest))
  PROVE  \E c \in LiveDepts : OnCycle(c) /\ c \in Above(d)
<1> DEFINE shown == ToSet(Flatten(DeptForest))  U == LiveDepts \ shown
<1>1. /\ IsForest(DeptForest) /\ Nodes(DeptForest) = LiveDepts
      /\ \A n \in LiveDepts \ ToSet(DeptForest.roots) :
           dept[n].parent \in LiveDepts /\ n \in ToSet(DeptForest.children[dept[n].parent])
  BY DeptForestIs
<1>2. \A x : x \in shown <=> x \in ToSet(DeptForest.roots) \/ \E p \in shown : x \in KidsIn(DeptForest)[p]
  BY <1>1, Flattened
<1> HIDE DEF shown
<1>3. ASSUME NEW u \in U PROVE dept[u].parent \in U
  <2>1. u \notin ToSet(DeptForest.roots)
    BY <1>2
  <2>2. dept[u].parent \in LiveDepts /\ u \in ToSet(DeptForest.children[dept[u].parent])
    BY <1>1, <2>1
  <2>3. u \in KidsIn(DeptForest)[dept[u].parent]
    BY <1>1, <2>2 DEF KidsIn
  <2> QED
    BY <1>2, <2>2, <2>3
<1>4. U \subseteq LiveDepts /\ d \in U
  BY DEF shown
<1> HIDE DEF U
<1> QED
  BY <1>3, <1>4, NoTopNoEnd

\* A path from a root is shown, each parent before its child.
LEMMA PathInOrder ==
  ASSUME DeptTypeOK, NEW d, NEW path, Chain(DeptForest, d, path),
         path[1] \in ToSet(DeptForest.roots)
  PROVE  /\ Len(path) \in Nat /\ Len(path) # 0
         /\ \A k \in 1 .. Len(path) : path[k] \in ToSet(Flatten(DeptForest))
         /\ \A k \in 1 .. Len(path) - 1 :
              /\ path[k] \in LiveDepts
              /\ path[k + 1] \in ToSet(DeptForest.children[path[k]])
<1> DEFINE forest == DeptForest  m == Len(path)  shown == ToSet(Flatten(forest))
<1>1. IsForest(forest) /\ Nodes(forest) = LiveDepts
  BY DeptForestIs
<1>2. \A x : x \in shown <=> x \in ToSet(forest.roots) \/ \E p \in shown : x \in KidsIn(forest)[p]
  BY <1>1, Flattened
<1> HIDE DEF forest, shown
<1>3. /\ path \in Seq(LiveDepts) /\ m \in Nat /\ m # 0
      /\ \A i \in 1 .. m - 1 : path[i + 1] \in ToSet(forest.children[path[i]])
      /\ \A i \in 1 .. m : path[i] \in LiveDepts
  BY <1>1 DEF Chain, forest
<1> HIDE DEF m
<1>4. \A k \in 1 .. m : path[k] \in shown
  <2> DEFINE wrong == {k \in 1 .. m : path[k] \notin shown}
  <2> SUFFICES ASSUME wrong # {} PROVE FALSE
    OBVIOUS
  <2>1. wrong \subseteq Nat
    BY <1>3
  <2>2. PICK k \in wrong : \A l \in wrong : k <= l
    BY <2>1, LeastNumber
  <2>3. k \in 1 .. m /\ path[k] \notin shown
    OBVIOUS
  <2>4. k # 1
    BY <1>2, <2>3 DEF forest
  <2>5. k - 1 \in 1 .. m - 1 /\ k - 1 \in 1 .. m /\ (k - 1) + 1 = k /\ ~ (k <= k - 1)
    BY <1>3, <2>3, <2>4
  <2>6. path[k - 1] \in shown
    BY <2>2, <2>5
  <2> HIDE DEF wrong
  <2>7. path[k] \in KidsIn(forest)[path[k - 1]]
    BY <1>1, <1>3, <2>5 DEF KidsIn
  <2> QED
    BY <1>2, <2>3, <2>6, <2>7
<1>5. \A k \in 1 .. m - 1 : k \in 1 .. m
  BY <1>3
<1> QED
  BY <1>3, <1>4, <1>5 DEF m, shown, forest

LEMMA TreeOfRows == DeptTypeOK => TreeFaithful
<1> SUFFICES ASSUME DeptTypeOK PROVE TreeFaithful
  OBVIOUS
<1> DEFINE forest == DeptForest  shown == Flatten(forest)
           place == [d \in ToSet(shown) |-> CHOOSE k \in DOMAIN shown : shown[k] = d]
           OnTree(d) ==
             /\ Last(FindPath(forest, {d})) = d /\ FindPath(forest, {d})[1] \in ToSet(forest.roots)
             /\ \A k \in 1 .. Len(FindPath(forest, {d})) - 1 :
                  /\ dept[FindPath(forest, {d})[k + 1]].parent = FindPath(forest, {d})[k]
                  /\ place[FindPath(forest, {d})[k]] < place[FindPath(forest, {d})[k + 1]]
             /\ FindNode(forest, {d}) = <<d>>
             /\ ToSet(Flatten(FilterTree(forest, {d}))) = ToSet(FindPath(forest, {d}))
<1>1. /\ IsForest(forest) /\ Nodes(forest) = LiveDepts
      /\ \A p \in LiveDepts : \A n \in ToSet(forest.children[p]) : n \in LiveDepts /\ dept[n].parent = p
  BY DeptForestIs
<1>2. shown \in Seq(LiveDepts) /\ IsInjective(shown)
  BY <1>1, Flattened
<1>3. Len(shown) = Cardinality(ToSet(shown))
  BY <1>2, LengthOf
<1>4. \A d \in LiveDepts \ ToSet(shown) : \E c \in LiveDepts : OnCycle(c) /\ c \in Above(d) \cup {d}
  BY HiddenByCycle
<1>5. \A i \in 1 .. Len(shown) : \A p \in LiveDepts :
        shown[i] \in ToSet(forest.children[p]) => \E j \in 1 .. i - 1 : shown[j] = p
  BY <1>1, ParentBefore
<1>6. DOMAIN shown = 1 .. Len(shown) /\ Len(shown) \in Nat
  BY <1>2
<1>7. ASSUME NEW i \in 1 .. Len(shown) PROVE shown[i] \in ToSet(shown) /\ place[shown[i]] = i
  <2> HIDE DEF forest, shown
  <2>1. shown[i] \in ToSet(shown)
    BY <1>6 DEF ToSet
  <2>2. \A k \in DOMAIN shown : shown[k] = shown[i] => k = i
    BY <1>2, <1>6 DEF IsInjective
  <2> QED
    BY <1>6, <2>1, <2>2
<1> HIDE DEF shown, place
<1>8. ASSUME NEW d \in ToSet(shown) PROVE OnTree(d)
  <2> DEFINE path == FindPath(forest, {d})
  <2>1. Chain(forest, d, path) /\ path[1] \in ToSet(forest.roots)
    BY <1>1, PathFound DEF shown
  <2>2. FindNode(forest, {d}) = <<d>> /\ ToSet(Flatten(FilterTree(forest, {d}))) = ToSet(path)
    BY <1>1, NodeFound, FilteredIsPath DEF shown
  <2> HIDE DEF path
  <2>3. /\ Len(path) \in Nat /\ Len(path) # 0
        /\ \A k \in 1 .. Len(path) : path[k] \in ToSet(shown)
        /\ \A k \in 1 .. Len(path) - 1 : path[k] \in LiveDepts /\ path[k + 1] \in ToSet(forest.children[path[k]])
    BY <2>1, PathInOrder DEF shown
  <2> HIDE DEF forest
  <2>4. Last(path) = d
    BY <2>1 DEF Chain, Last
  <2>5. ASSUME NEW k \in 1 .. Len(path) - 1
        PROVE  dept[path[k + 1]].parent = path[k] /\ place[path[k]] < place[path[k + 1]]
    <3>1. path[k] \in LiveDepts /\ path[k + 1] \in ToSet(forest.children[path[k]])
      BY <2>3
    <3>2. k + 1 \in 1 .. Len(path)
      BY <2>3
    <3>3. path[k + 1] \in ToSet(shown)
      BY <2>3, <3>2
    <3>4. PICK i \in 1 .. Len(shown) : shown[i] = path[k + 1]
      BY <1>6, <3>3 DEF ToSet
    <3>5. PICK j \in 1 .. i - 1 : shown[j] = path[k]
      BY <1>5, <3>1, <3>4
    <3>6. j \in 1 .. Len(shown) /\ j < i
      BY <1>6
    <3>7. place[path[k + 1]] = i /\ place[path[k]] = j
      BY <1>7, <3>4, <3>5, <3>6
    <3> QED
      BY <1>1, <3>1, <3>6, <3>7
  <2> QED
    BY <2>1, <2>2, <2>4, <2>5 DEF path
<1> HIDE DEF OnTree
<1>9. /\ Len(shown) = Cardinality(ToSet(shown))
      /\ \A d \in LiveDepts \ ToSet(shown) : \E c \in LiveDepts : OnCycle(c) /\ c \in Above(d) \cup {d}
      /\ \A d \in ToSet(shown) : OnTree(d)
  BY <1>3, <1>4, <1>8
<1> QED
  BY <1>9 DEF TreeFaithful, OnTree, place, shown, forest

\* The tree of the departments shows each once, after its parent, but for those on or
\* below a cycle; the path to one is that of the rows, and the tree filtered for it is
\* the path: of every table, however large.
THEOREM TreeStaysFaithful == DeptSpec => []TreeFaithful
BY TreeOfRows, DeptsTyped, PTL

============================================================================
