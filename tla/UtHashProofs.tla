---------------------------- MODULE UtHashProofs ----------------------------
(***************************************************************************)
(* The hash table is consistent, finds what is there and keeps its chains  *)
(* short, and it implements OrderedTable, HASH_SRT included.  The proofs   *)
(* follow the operators of UtHash from the sequences they work on up to    *)
(* the steps of the application; what holds of sequences of any length is  *)
(* shown by minimal counterexamples (Smallest).                            *)
(***************************************************************************)
EXTENDS UtHash, TLAPS, FiniteSetTheorems, SequenceTheorems, WellFoundedInduction

-----------------------------------------------------------------------------
(* Numbers and recursion.                                                  *)

\* Minimal counterexamples stand in for induction: a set of numbers has a smallest.
LEMMA Smallest ==
    ASSUME NEW S, S \subseteq Nat, S # {}
    PROVE  \E n \in S : \A m \in S : n <= m
<1>1. IsWellFoundedOn(OpToRel(<, Nat), Nat)
  BY NatLessThanWellFounded
<1>2. PICK n \in S : \A m \in S : ~ (<<m, n>> \in OpToRel(<, Nat))
  BY <1>1, WFMin
<1>3. \A m \in S : ~ (m < n)
  BY <1>2 DEF OpToRel
<1> QED
  BY <1>3

\* What holds at 0 and passes from n to n + 1 holds for all numbers up to N; S is a set, not an
\* operator.
LEMMA Induction ==
    ASSUME NEW S, 0 \in S, \A n \in Nat : n \in S => n + 1 \in S
    PROVE  Nat \subseteq S
<1> SUFFICES ASSUME Nat \ S # {} PROVE FALSE
  OBVIOUS
<1>1. PICK n \in Nat \ S : \A m \in Nat \ S : n <= m
  BY Smallest
<1>2. n # 0 /\ n - 1 \in Nat /\ n - 1 \notin Nat \ S
  BY <1>1
<1> QED
  BY <1>2

\* step takes the n-th value, in V, to the next, up to N.
StepOn(step, V, N) == step \in [(0 .. N - 1) \X V -> V]
\* f is what step makes of base, value after value.
Computed(f, V, N, base, step) ==
    /\ f \in [0 .. N -> V]
    /\ f[0] = base
    /\ \A n \in 0 .. N - 1 : f[n + 1] = step[<<n, f[n]>>]

\* There is such a function: the recursive ones of UtHash are obtained from it.
LEMMA Recursion ==
    ASSUME NEW V, NEW N \in Nat, NEW base \in V, NEW step, StepOn(step, V, N)
    PROVE  \E f : Computed(f, V, N, base, step)
<1> DEFINE Upto(m, f) == /\ f \in [0 .. N -> V] /\ f[0] = base
                         /\ \A n \in 0 .. N - 1 : n < m => f[n + 1] = step[<<n, f[n]>>]
<1> DEFINE S == {m \in Nat : m <= N => \E f : Upto(m, f)}
<1>1. 0 \in S
  <2>1. Upto(0, [n \in 0 .. N |-> base])
    OBVIOUS
  <2> QED
    BY <2>1
<1>2. ASSUME NEW m \in Nat, m \in S PROVE m + 1 \in S
  <2> SUFFICES ASSUME m + 1 <= N PROVE \E f : Upto(m + 1, f)
    OBVIOUS
  <2>1. PICK f : Upto(m, f)
    BY <1>2
  <2>2. m \in 0 .. N - 1 /\ m \in 0 .. N /\ m + 1 \in 0 .. N
    OBVIOUS
  <2>3. step[<<m, f[m]>>] \in V
    BY <2>1, <2>2 DEF StepOn
  <2> DEFINE g == [f EXCEPT ![m + 1] = step[<<m, f[m]>>]]
  <2>4. /\ g \in [0 .. N -> V] /\ g[m + 1] = step[<<m, f[m]>>]
        /\ \A n \in 0 .. N : n # m + 1 => g[n] = f[n]
    BY <2>1, <2>2, <2>3
  <2> HIDE DEF g
  <2>5. \A n \in 0 .. N - 1 : n < m + 1 => g[n + 1] = step[<<n, g[n]>>]
    <3> SUFFICES ASSUME NEW n \in 0 .. N - 1, n < m + 1 PROVE g[n + 1] = step[<<n, g[n]>>]
      OBVIOUS
    <3>1. g[n] = f[n]
      BY <2>4
    <3>2. CASE n = m
      BY <3>1, <3>2, <2>4
    <3>3. CASE n < m
      <4>1. g[n + 1] = f[n + 1]
        BY <3>3, <2>4
      <4> QED
        BY <4>1, <3>1, <3>3, <2>1
    <3> QED
      BY <3>2, <3>3
  <2>6. Upto(m + 1, g)
    BY <2>1, <2>4, <2>5
  <2> QED
    BY <2>6
<1> HIDE DEF S
<1>3. N \in S
  BY <1>1, <1>2, Induction
<1> QED
  BY <1>3 DEF S, Computed

-----------------------------------------------------------------------------
(* Walks and concatenations.                                               *)

\* What a handle field may hold; Following is what one step of Walk does.
Link == Pointer \cup {Garbage}
Following(links, y) == IF y \in Elements THEN links[y] ELSE y

\* Walk follows one link at a time, for any links.
LEMMA WalkSteps ==
    ASSUME NEW links \in [Elements -> Link], NEW x \in Link, NEW n \in Nat
    PROVE  /\ Walk(links, x, n) \in [0 .. n -> Link]
           /\ Walk(links, x, n)[0] = x
           /\ \A k \in 0 .. n - 1 : Walk(links, x, n)[k + 1] = Following(links, Walk(links, x, n)[k])
<1> DEFINE step == [p \in (0 .. n - 1) \X Link |-> Following(links, p[2])]
<1>1. \A y \in Link : Following(links, y) \in Link
  BY DEF Following, Link, Pointer
<1>2. StepOn(step, Link, n)
  BY <1>1 DEF StepOn
<1>3. \A k \in 0 .. n - 1, y \in Link : step[<<k, y>>] = Following(links, y)
  OBVIOUS
<1> HIDE DEF step
<1>4. PICK g : Computed(g, Link, n, x, step)
  BY <1>2, Recursion
<1>5. \A k \in 0 .. n - 1 : g[k] \in Link /\ g[k + 1] = Following(links, g[k])
  <2>1. \A k \in 0 .. n - 1 : k \in 0 .. n /\ g[k] \in Link
    BY <1>4 DEF Computed
  <2>2. \A k \in 0 .. n - 1 : g[k + 1] = step[<<k, g[k]>>]
    BY <1>4 DEF Computed
  <2> QED
    BY <2>1, <2>2, <1>3
<1> DEFINE follow == [y \in Link |-> IF y \in Elements THEN links[y] ELSE y]
           Body(f) == [k \in 0 .. n |-> IF k = 0 THEN x ELSE follow[f[k - 1]]]
           w == Walk(links, x, n)
<1>6. w = CHOOSE f : f = Body(f)
  BY DEF Walk, Link
<1>7. \A y \in Link : follow[y] = Following(links, y)
  BY DEF Following
<1> HIDE DEF follow
<1>8. g = Body(g)
  <2>1. \A k \in 0 .. n : k # 0 => k - 1 \in 0 .. n - 1 /\ k = (k - 1) + 1
    OBVIOUS
  <2>2. \A k \in 0 .. n : k # 0 => g[k] = follow[g[k - 1]]
    BY <2>1, <1>5, <1>7
  <2> QED
    BY <2>2, <1>4 DEF Computed
<1>9. w = Body(w)
  BY <1>6, <1>8
<1>10. \A k \in 0 .. n : w[k] = IF k = 0 THEN x ELSE follow[w[k - 1]]
  <2> HIDE DEF w
  <2> QED
    BY <1>9
<1> HIDE DEF w, Body
<1>11. w[0] = x /\ \A k \in 0 .. n - 1 : w[k + 1] = follow[w[k]]
  <2>1. 0 \in 0 .. n /\ \A k \in 0 .. n - 1 : k + 1 \in 0 .. n /\ k + 1 # 0 /\ (k + 1) - 1 = k
    OBVIOUS
  <2> QED
    BY <2>1, <1>10
<1>12. \A k \in 0 .. n : w[k] \in Link
  <2> DEFINE S == {k \in Nat : k <= n => w[k] \in Link}
  <2>1. 0 \in S
    BY <1>11
  <2>2. ASSUME NEW k \in Nat, k \in S PROVE k + 1 \in S
    <3>1. k + 1 <= n => k \in 0 .. n - 1 /\ w[k] \in Link
      BY <2>2
    <3> QED
      BY <3>1, <1>1, <1>7, <1>11
  <2> HIDE DEF S
  <2>3. Nat \subseteq S
    BY <2>1, <2>2, Induction
  <2> QED
    BY <2>3 DEF S
<1>13. w \in [0 .. n -> Link]
  BY <1>9, <1>12 DEF Body
<1>14. \A k \in 0 .. n - 1 : w[k + 1] = Following(links, w[k])
  <2>1. \A k \in 0 .. n - 1 : k \in 0 .. n
    OBVIOUS
  <2> QED
    BY <2>1, <1>7, <1>11, <1>12
<1> QED
  BY <1>11, <1>13, <1>14 DEF w

\* The chains, numbered as FlattenSeq needs them.
AllChains(t) == [b \in 1 .. t.num_buckets |-> t.buckets[b - 1].chain]

\* f[k] is the concatenation of the first k of ss.
Concatenates(f, V, n, ss) ==
    /\ f \in [0 .. n -> Seq(V)]
    /\ f[0] = <<>> /\ f[n] = FlattenSeq(ss)
    /\ \A k \in 0 .. n - 1 : f[k + 1] = f[k] \o ss[k + 1]

\* FlattenSeq as a step-by-step concatenation.
LEMMA FlattenSteps ==
    ASSUME NEW V, NEW n \in Nat, NEW ss \in [1 .. n -> Seq(V)]
    PROVE  \E f : Concatenates(f, V, n, ss)
<1> DEFINE step == [p \in (0 .. n - 1) \X Seq(V) |-> p[2] \o ss[p[1] + 1]]
<1>1. StepOn(step, Seq(V), n)
  <2>1. \A k \in 0 .. n - 1, s \in Seq(V) : s \o ss[k + 1] \in Seq(V)
    BY ConcatProperties
  <2> QED
    BY <2>1 DEF StepOn
<1>2. \A k \in 0 .. n - 1, s \in Seq(V) : step[<<k, s>>] = s \o ss[k + 1]
  OBVIOUS
<1> HIDE DEF step
<1>3. <<>> \in Seq(V)
  OBVIOUS
<1>4. PICK f : Computed(f, Seq(V), n, <<>>, step)
  BY <1>1, <1>3, Recursion
<1>5. f \in [0 .. n -> Seq(V)] /\ f[0] = <<>>
  BY <1>4 DEF Computed
<1>6. \A k \in 0 .. n - 1 : f[k + 1] = f[k] \o ss[k + 1]
  <2>1. \A k \in 0 .. n - 1 : k \in 0 .. n /\ f[k] \in Seq(V)
    BY <1>5
  <2>2. \A k \in 0 .. n - 1 : f[k + 1] = step[<<k, f[k]>>]
    BY <1>4 DEF Computed
  <2> QED
    BY <2>1, <2>2, <1>2
<1>7. Len(ss) = n
  OBVIOUS
<1>8. CASE n = 0
  <2>1. ss = <<>>
    BY <1>8
  <2>2. FlattenSeq(ss) = <<>>
    BY <2>1, <1>7, <1>8 DEF FlattenSeq
  <2> QED
    BY <2>2, <1>5, <1>6, <1>8 DEF Concatenates
<1>9. CASE n # 0
  <2> DEFINE Body(h) == [k \in 1 .. n |-> IF k = 1 THEN ss[k] ELSE h[k - 1] \o ss[k]]
  <2> DEFINE g == [k \in 1 .. n |-> f[k]]
  <2>1. \A k \in 1 .. n : f[k] = f[k - 1] \o ss[k]
    <3>1. \A k \in 1 .. n : k - 1 \in 0 .. n - 1 /\ (k - 1) + 1 = k
      OBVIOUS
    <3> QED
      BY <3>1, <1>6
  <2>2. f[1] = ss[1]
    <3>1. 1 \in 1 .. n /\ 1 - 1 = 0 /\ ss[1] \in Seq(V)
      BY <1>9
    <3>2. f[1] = f[1 - 1] \o ss[1]
      BY <2>1, <3>1
    <3> QED
      BY <3>1, <3>2, <1>5, ConcatEmptySeq
  <2>3. g = Body(g)
    <3>1. \A k \in 1 .. n : k # 1 => k - 1 \in 1 .. n
      OBVIOUS
    <3>2. \A k \in 1 .. n : f[k] = IF k = 1 THEN ss[k] ELSE g[k - 1] \o ss[k]
      BY <2>1, <2>2, <3>1
    <3> QED
      BY <3>2
  <2> DEFINE w == CHOOSE h : h = Body(h)
  <2>4. FlattenSeq(ss) = w[n]
    BY <1>7, <1>9 DEF FlattenSeq
  <2>5. w = Body(w)
    BY <2>3
  <2> HIDE DEF w, g
  <2>6. \A k \in 1 .. n : w[k] = IF k = 1 THEN ss[k] ELSE w[k - 1] \o ss[k]
    BY <2>5
  <2> DEFINE S == {k \in Nat : k \in 1 .. n => w[k] = f[k]}
  <2>7. 0 \in S
    OBVIOUS
  <2>8. ASSUME NEW k \in Nat, k \in Nat /\ (k \in 1 .. n => w[k] = f[k])
        PROVE  k + 1 \in 1 .. n => w[k + 1] = f[k + 1]
    <3>1. CASE k = 0
      BY <3>1, <2>2, <2>6
    <3>2. CASE k # 0
      <4> SUFFICES ASSUME k + 1 \in 1 .. n PROVE w[k + 1] = f[k + 1]
        OBVIOUS
      <4>1. k \in 1 .. n /\ k \in 0 .. n - 1 /\ k + 1 # 1 /\ (k + 1) - 1 = k
        BY <3>2
      <4>2. w[k + 1] = w[k] \o ss[k + 1]
        BY <4>1, <2>6
      <4>3. w[k] = f[k]
        BY <4>1, <2>8
      <4>4. f[k + 1] = f[k] \o ss[k + 1]
        BY <4>1, <1>6
      <4> QED
        BY <4>2, <4>3, <4>4
    <3> QED
      BY <3>1, <3>2
  <2>9. n \in S
    <3>1. \A k \in Nat : k \in S => k + 1 \in S
      BY <2>8
    <3> HIDE DEF S
    <3> QED
      BY <2>7, <3>1, Induction
  <2>10. w[n] = f[n]
    BY <2>9, <1>9
  <2> QED
    BY <2>4, <2>10, <1>5, <1>6 DEF Concatenates
<1> QED
  BY <1>8, <1>9

-----------------------------------------------------------------------------
(* Sequences.                                                              *)

\* The members of a sequence are what its places hold.
LEMMA RangeMembers ==
    ASSUME NEW V, NEW s \in Seq(V)
    PROVE  /\ \A n \in 1 .. Len(s) : s[n] \in Range(s)
           /\ \A x \in Range(s) : x \in V /\ \E n \in 1 .. Len(s) : s[n] = x
<1>1. DOMAIN s = 1 .. Len(s) /\ \A n \in 1 .. Len(s) : s[n] \in V
  BY LenProperties
<1> QED
  BY <1>1 DEF Range

\* IsInjective, with the places of the sequence for its domain.
LEMMA InjectiveMembers ==
    ASSUME NEW V, NEW s \in Seq(V)
    PROVE  IsInjective(s) <=> \A m, n \in 1 .. Len(s) : s[m] = s[n] => m = n
  BY DEF IsInjective

\* Concatenation: members and repetitions.
LEMMA ConcatRange ==
    ASSUME NEW V, NEW s \in Seq(V), NEW t \in Seq(V)
    PROVE  /\ s \o t \in Seq(V)
           /\ Range(s \o t) = Range(s) \cup Range(t)
           /\ IsInjective(s) /\ IsInjective(t) /\ Range(s) \cap Range(t) = {} => IsInjective(s \o t)
<1> DEFINE u == s \o t
<1>1. /\ u \in Seq(V) /\ Len(u) = Len(s) + Len(t)
      /\ \A n \in 1 .. Len(s) + Len(t) : u[n] = IF n <= Len(s) THEN s[n] ELSE t[n - Len(s)]
  BY ConcatProperties
<1> HIDE DEF u
<1>2. Len(s) \in Nat /\ Len(t) \in Nat
  OBVIOUS
<1>3. \A n \in 1 .. Len(s) : n \in 1 .. Len(u) /\ u[n] = s[n]
  BY <1>1, <1>2
<1>4. \A n \in 1 .. Len(t) : n + Len(s) \in 1 .. Len(u) /\ u[n + Len(s)] = t[n]
  <2> SUFFICES ASSUME NEW n \in 1 .. Len(t)
               PROVE  n + Len(s) \in 1 .. Len(u) /\ u[n + Len(s)] = t[n]
    OBVIOUS
  <2>1. /\ n + Len(s) \in 1 .. Len(s) + Len(t) /\ ~ (n + Len(s) <= Len(s))
        /\ (n + Len(s)) - Len(s) = n
    BY <1>2
  <2> QED
    BY <2>1, <1>1
<1>5. \A n \in 1 .. Len(u) : \/ n \in 1 .. Len(s) /\ u[n] = s[n]
                             \/ n - Len(s) \in 1 .. Len(t) /\ u[n] = t[n - Len(s)]
  BY <1>1, <1>2
<1>6. Range(u) = Range(s) \cup Range(t)
  <2>1. /\ \A n \in 1 .. Len(u) : u[n] \in Range(u)
        /\ \A x \in Range(u) : \E n \in 1 .. Len(u) : u[n] = x
    BY <1>1, RangeMembers
  <2>2. /\ \A n \in 1 .. Len(s) : s[n] \in Range(s)
        /\ \A x \in Range(s) : \E n \in 1 .. Len(s) : s[n] = x
    BY RangeMembers
  <2>3. /\ \A n \in 1 .. Len(t) : t[n] \in Range(t)
        /\ \A x \in Range(t) : \E n \in 1 .. Len(t) : t[n] = x
    BY RangeMembers
  <2>4. ASSUME NEW x \in Range(u) PROVE x \in Range(s) \cup Range(t)
    <3>1. PICK n \in 1 .. Len(u) : u[n] = x
      BY <2>1
    <3> QED
      BY <3>1, <2>2, <2>3, <1>5
  <2>5. ASSUME NEW x \in Range(s) PROVE x \in Range(u)
    BY <2>1, <2>2, <1>3
  <2>6. ASSUME NEW x \in Range(t) PROVE x \in Range(u)
    BY <2>1, <2>3, <1>4
  <2> QED
    BY <2>4, <2>5, <2>6
<1>7. ASSUME IsInjective(s), IsInjective(t), Range(s) \cap Range(t) = {}
      PROVE  IsInjective(u)
  <2>1. /\ \A m, n \in 1 .. Len(s) : s[m] = s[n] => m = n
        /\ \A m, n \in 1 .. Len(t) : t[m] = t[n] => m = n
    BY <1>7, InjectiveMembers
  <2>2. \A m \in 1 .. Len(s), n \in 1 .. Len(t) : s[m] # t[n]
    <3>1. \A m \in 1 .. Len(s) : s[m] \in Range(s)
      BY RangeMembers
    <3>2. \A n \in 1 .. Len(t) : t[n] \in Range(t)
      BY RangeMembers
    <3> QED
      BY <3>1, <3>2, <1>7
  <2>3. ASSUME NEW m \in 1 .. Len(u), NEW n \in 1 .. Len(u), u[m] = u[n] PROVE m = n
    <3>1. CASE m \in 1 .. Len(s) /\ u[m] = s[m]
      BY <3>1, <2>1, <2>2, <2>3, <1>5
    <3>2. CASE m - Len(s) \in 1 .. Len(t) /\ u[m] = t[m - Len(s)]
      <4>1. n - Len(s) \in 1 .. Len(t) /\ u[n] = t[n - Len(s)]
        BY <3>2, <2>2, <2>3, <1>5
      <4>2. m - Len(s) = n - Len(s)
        BY <4>1, <3>2, <2>1, <2>3
      <4>3. m \in Int /\ n \in Int /\ Len(s) \in Int
        BY <1>2
      <4> QED
        BY <4>2, <4>3
    <3> QED
      BY <3>1, <3>2, <1>5
  <2> QED
    BY <2>3, <1>1, InjectiveMembers
<1> QED
  BY <1>1, <1>6, <1>7 DEF u

\* FlattenSeq of sequences that share no member repeats none and has all of theirs.
LEMMA FlattenDisjoint ==
    ASSUME NEW V, NEW n \in Nat, NEW ss \in [1 .. n -> Seq(V)],
           \A k \in 1 .. n : IsInjective(ss[k]),
           \A j, k \in 1 .. n : j # k => Range(ss[j]) \cap Range(ss[k]) = {}
    PROVE  /\ FlattenSeq(ss) \in Seq(V) /\ IsInjective(FlattenSeq(ss))
           /\ Range(FlattenSeq(ss)) = UNION {Range(ss[k]) : k \in 1 .. n}
<1>0. PICK f : Concatenates(f, V, n, ss)
  BY FlattenSteps
<1>1. /\ f \in [0 .. n -> Seq(V)] /\ f[0] = <<>> /\ f[n] = FlattenSeq(ss)
      /\ \A k \in 0 .. n - 1 : f[k + 1] = f[k] \o ss[k + 1]
  BY <1>0 DEF Concatenates
<1> DEFINE Upto(k) == IsInjective(f[k]) /\ Range(f[k]) = UNION {Range(ss[j]) : j \in 1 .. k}
<1> DEFINE S == {k \in Nat : k <= n => Upto(k)}
<1>2. 0 \in S
  <2>1. DOMAIN <<>> = {}
    OBVIOUS
  <2>2. IsInjective(<<>>) /\ Range(<<>>) = {}
    BY <2>1 DEF IsInjective, Range
  <2>3. UNION {Range(ss[j]) : j \in 1 .. 0} = {}
    OBVIOUS
  <2> QED
    BY <2>2, <2>3, <1>1
<1>3. ASSUME NEW k \in Nat, k <= n => Upto(k), k + 1 <= n PROVE Upto(k + 1)
  <2>1. k \in 0 .. n - 1 /\ k \in 0 .. n /\ k + 1 \in 1 .. n
    BY <1>3
  <2>2. f[k] \in Seq(V) /\ ss[k + 1] \in Seq(V)
    BY <2>1, <1>1
  <2>3. f[k + 1] = f[k] \o ss[k + 1]
    BY <2>1, <1>1
  <2>4. IsInjective(f[k]) /\ Range(f[k]) = UNION {Range(ss[j]) : j \in 1 .. k}
    BY <1>3, <2>1
  <2>5. Range(f[k]) \cap Range(ss[k + 1]) = {}
    <3>1. \A j \in 1 .. k : j \in 1 .. n /\ j # k + 1
      BY <1>3
    <3>2. \A j \in 1 .. k : Range(ss[j]) \cap Range(ss[k + 1]) = {}
      BY <2>1, <3>1
    <3> QED
      BY <2>4, <3>2
  <2>6. IsInjective(f[k + 1]) /\ Range(f[k + 1]) = Range(f[k]) \cup Range(ss[k + 1])
    BY <2>1, <2>2, <2>3, <2>4, <2>5, ConcatRange
  <2>7. \A j : j \in 1 .. k + 1 <=> j \in 1 .. k \/ j = k + 1
    OBVIOUS
  <2>8. ASSUME NEW x
        PROVE  x \in Range(f[k + 1]) <=> \E j \in 1 .. k + 1 : x \in Range(ss[j])
    BY <2>4, <2>6, <2>7
  <2> QED
    BY <2>6, <2>8
<1>4. \A k \in Nat : k \in S => k + 1 \in S
  <2> SUFFICES ASSUME NEW k \in Nat, k <= n => Upto(k), k + 1 <= n PROVE Upto(k + 1)
    OBVIOUS
  <2> HIDE DEF Upto
  <2> QED
    BY <1>3
<1> HIDE DEF S
<1>5. n \in S
  BY <1>2, <1>4, Induction
<1>6. n \in 0 .. n /\ n <= n
  OBVIOUS
<1>7. f[n] \in Seq(V)
  BY <1>1, <1>6
<1>8. Upto(n)
  BY <1>5, <1>6 DEF S
<1> QED
  BY <1>1, <1>7, <1>8

\* A sequence without repetitions is as long as its set of members is large.
LEMMA SameLength ==
    ASSUME NEW V, NEW s \in Seq(V), IsInjective(s)
    PROVE  /\ IsFiniteSet(Range(s)) /\ Cardinality(Range(s)) = Len(s)
<1>1. s \in Bijection(1 .. Len(s), Range(s))
  BY DEF Bijection, Injection, Surjection, Range
<1>2. ExistsBijection(1 .. Len(s), Range(s)) /\ Len(s) \in Nat
  BY <1>1 DEF ExistsBijection
<1>3. Cardinality(Range(s)) = Len(s)
  BY <1>2, FS_CountingElements
<1>4. IsFiniteSet(Range(s))
  BY <1>2, FS_NatBijection
<1> QED
  BY <1>3, <1>4

\* NewChain has the elements of walk that belong into the bucket, each once.
LEMMA NewChainHolds ==
    ASSUME NEW walk \in Seq(Elements), IsInjective(walk), NEW n, NEW b
    PROVE  /\ NewChain(walk, n, b) \in Seq(Elements)
           /\ IsInjective(NewChain(walk, n, b))
           /\ Range(NewChain(walk, n, b)) = {x \in Range(walk) : HASH_TO_BKT(x, n) = b}
<1> DEFINE N == Len(walk)
<1> DEFINE Goes(k) == HASH_TO_BKT(walk[k], n) = b
<1> DEFINE step == [p \in (0 .. N - 1) \X Seq(Elements) |->
                       IF Goes(p[1] + 1) THEN <<walk[p[1] + 1]>> \o p[2] ELSE p[2]]
<1>1. N \in Nat /\ \A k \in 1 .. N : walk[k] \in Elements
  OBVIOUS
<1>2. \A k \in 1 .. N : <<walk[k]>> \in Seq(Elements)
  BY <1>1
<1>3. \A k \in 0 .. N - 1 : k + 1 \in 1 .. N
  BY <1>1
<1> HIDE DEF Goes, N
<1>4. StepOn(step, Seq(Elements), N)
  <2>1. \A k \in 0 .. N - 1, s \in Seq(Elements) : <<walk[k + 1]>> \o s \in Seq(Elements)
    BY <1>2, <1>3, ConcatProperties
  <2> QED
    BY <2>1 DEF StepOn
<1>5. \A k \in 0 .. N - 1, s \in Seq(Elements) :
        step[<<k, s>>] = IF Goes(k + 1) THEN <<walk[k + 1]>> \o s ELSE s
  OBVIOUS
<1> HIDE DEF step
<1>6. <<>> \in Seq(Elements)
  OBVIOUS
<1>7. PICK g : Computed(g, Seq(Elements), N, <<>>, step)
  BY <1>1, <1>4, <1>6, Recursion
<1>8. g \in [0 .. N -> Seq(Elements)] /\ g[0] = <<>>
  BY <1>7 DEF Computed
<1>9. \A k \in 0 .. N - 1 : g[k + 1] = IF Goes(k + 1) THEN <<walk[k + 1]>> \o g[k] ELSE g[k]
  <2>1. \A k \in 0 .. N - 1 : k \in 0 .. N /\ g[k] \in Seq(Elements)
    BY <1>1, <1>8
  <2>2. \A k \in 0 .. N - 1 : g[k + 1] = step[<<k, g[k]>>]
    BY <1>7 DEF Computed
  <2> QED
    BY <2>1, <2>2, <1>5
<1> DEFINE Body(f) == [k \in 0 .. N |->
                IF k = 0 THEN <<>> ELSE IF Goes(k) THEN <<walk[k]>> \o f[k - 1] ELSE f[k - 1]]
<1>10. g = Body(g)
  <2>1. \A k \in 0 .. N : k # 0 => k - 1 \in 0 .. N - 1 /\ (k - 1) + 1 = k
    BY <1>1
  <2>2. \A k \in 0 .. N : k # 0 => g[k] = IF Goes(k) THEN <<walk[k]>> \o g[k - 1] ELSE g[k - 1]
    BY <2>1, <1>9
  <2> QED
    BY <2>2, <1>8
<1> DEFINE w == CHOOSE f : f = Body(f)
<1>11. NewChain(walk, n, b) = w[N]
  BY DEF NewChain, N, Goes
<1>12. w = Body(w)
  BY <1>10
<1> HIDE DEF w
<1>13. w[0] = <<>>
  BY <1>12, <1>1
<1>14. \A k \in 0 .. N - 1 : w[k + 1] = IF Goes(k + 1) THEN <<walk[k + 1]>> \o w[k] ELSE w[k]
  <2> SUFFICES ASSUME NEW k \in 0 .. N - 1
               PROVE  w[k + 1] = IF Goes(k + 1) THEN <<walk[k + 1]>> \o w[k] ELSE w[k]
    OBVIOUS
  <2>1. k + 1 \in 0 .. N /\ k + 1 # 0 /\ (k + 1) - 1 = k
    BY <1>1
  <2>2. w[k + 1] = IF k + 1 = 0 THEN <<>>
                   ELSE IF Goes(k + 1) THEN <<walk[k + 1]>> \o w[(k + 1) - 1] ELSE w[(k + 1) - 1]
    BY <2>1, <1>12
  <2> QED
    BY <2>1, <2>2
<1> DEFINE Upto(k) == /\ w[k] \in Seq(Elements) /\ IsInjective(w[k])
                      /\ \A x : x \in Range(w[k]) <=> \E i \in 1 .. k : x = walk[i] /\ Goes(i)
<1> DEFINE S == {k \in Nat : k <= N => Upto(k)}
<1>15. 0 \in S
  <2>1. DOMAIN <<>> = {}
    OBVIOUS
  <2>2. IsInjective(<<>>) /\ Range(<<>>) = {}
    BY <2>1 DEF IsInjective, Range
  <2>3. Upto(0)
    BY <2>2, <1>6, <1>13
  <2> QED
    BY <2>3
<1>16. ASSUME NEW k \in Nat, k <= N => Upto(k), k + 1 <= N PROVE Upto(k + 1)
  <2>1. k \in 0 .. N - 1 /\ k + 1 \in 1 .. N /\ Upto(k)
    BY <1>16, <1>1
  <2>2. \A i : i \in 1 .. k + 1 <=> i \in 1 .. k \/ i = k + 1
    OBVIOUS
  <2>3. CASE Goes(k + 1)
    <3> DEFINE first == <<walk[k + 1]>>
    <3>1. w[k + 1] = first \o w[k] /\ first \in Seq(Elements)
      BY <2>1, <2>3, <1>2, <1>14
    <3>2. IsInjective(first) /\ Range(first) = {walk[k + 1]}
      BY DEF IsInjective, Range
    <3>3. walk[k + 1] \notin Range(w[k])
      <4>1. \A i \in 1 .. k : walk[i] # walk[k + 1]
        BY <2>1, InjectiveMembers DEF N
      <4> QED
        BY <4>1, <2>1
    <3> HIDE DEF first
    <3>4. /\ w[k + 1] \in Seq(Elements) /\ IsInjective(w[k + 1])
          /\ Range(w[k + 1]) = {walk[k + 1]} \cup Range(w[k])
      BY <2>1, <3>1, <3>2, <3>3, ConcatRange
    <3> QED
      BY <3>4, <2>1, <2>2, <2>3
  <2>4. CASE ~Goes(k + 1)
    <3>1. w[k + 1] = w[k]
      BY <2>1, <2>4, <1>14
    <3> QED
      BY <3>1, <2>1, <2>2, <2>4
  <2> QED
    BY <2>3, <2>4
<1>17. \A k \in Nat : k \in S => k + 1 \in S
  <2> HIDE DEF Upto
  <2> SUFFICES ASSUME NEW k \in Nat, k <= N => Upto(k), k + 1 <= N PROVE Upto(k + 1)
    OBVIOUS
  <2> QED
    BY <1>16
<1> HIDE DEF S
<1>18. N \in S
  BY <1>1, <1>15, <1>17, Induction
<1>19. Upto(N)
  BY <1>18, <1>1 DEF S
<1>20. \A x : x \in Range(walk) <=> \E i \in 1 .. N : x = walk[i]
  BY RangeMembers DEF N
<1> QED
  BY <1>11, <1>19, <1>20 DEF Goes

-----------------------------------------------------------------------------
(* The list of the application.                                            *)

\* The first element of s; NULL stands for none.
First(s) == IF Len(s) = 0 THEN NULL ELSE s[1]

\* links lead along s, and from its last element to NULL.
Chain(links, s) ==
    \A n \in 1 .. Len(s) : links[s[n]] = IF n = Len(s) THEN NULL ELSE s[n + 1]

\* Walk along linked elements meets one after the other.
LEMMA WalkAlong ==
    ASSUME NEW links \in [Elements -> Link], NEW s \in Seq(Elements), NEW n \in Nat,
           \A k \in 1 .. Len(s) : k # Len(s) => links[s[k]] = s[k + 1],
           Len(s) # 0
    PROVE  \A k \in 0 .. n : k < Len(s) => Walk(links, s[1], n)[k] = s[k + 1]
<1> DEFINE w == Walk(links, s[1], n)
<1>1. Len(s) \in Nat /\ \A k \in 1 .. Len(s) : s[k] \in Elements
  OBVIOUS
<1>2. s[1] \in Link
  BY <1>1 DEF Link, Pointer
<1>3. w[0] = s[1] /\ \A k \in 0 .. n - 1 : w[k + 1] = Following(links, w[k])
  BY <1>2, WalkSteps
<1> HIDE DEF w
<1> DEFINE S == {k \in Nat : k <= n /\ k < Len(s) => w[k] = s[k + 1]}
<1>4. 0 \in S
  BY <1>3
<1>5. ASSUME NEW k \in Nat, k <= n /\ k < Len(s) => w[k] = s[k + 1], k + 1 <= n, k + 1 < Len(s)
      PROVE  w[k + 1] = s[(k + 1) + 1]
  <2>1. w[k] = s[k + 1] /\ k \in 0 .. n - 1 /\ k + 1 \in 1 .. Len(s) /\ k + 1 # Len(s)
    BY <1>5, <1>1
  <2>2. s[k + 1] \in Elements /\ links[s[k + 1]] = s[(k + 1) + 1]
    BY <2>1, <1>1
  <2> QED
    BY <2>1, <2>2, <1>3 DEF Following
<1>6. \A k \in Nat : k \in S => k + 1 \in S
  BY <1>5
<1> HIDE DEF S
<1>7. Nat \subseteq S
  BY <1>4, <1>6, Induction
<1> QED
  BY <1>7 DEF S, w

\* Walk along a chain meets its elements, then NULL.
LEMMA WalkChain ==
    ASSUME NEW links \in [Elements -> Link], NEW s \in Seq(Elements), NEW n \in Nat,
           Chain(links, s), NULL \notin Elements
    PROVE  \A k \in 0 .. n : Walk(links, First(s), n)[k] = IF k < Len(s) THEN s[k + 1] ELSE NULL
<1> DEFINE w == Walk(links, First(s), n)
<1>1. Len(s) \in Nat /\ \A k \in 1 .. Len(s) : s[k] \in Elements
  OBVIOUS
<1>2. First(s) \in Link
  BY <1>1 DEF Link, Pointer, First
<1>3. w[0] = First(s) /\ \A k \in 0 .. n - 1 : w[k + 1] = Following(links, w[k])
  BY <1>2, WalkSteps
<1>4. \A k \in 0 .. n : k < Len(s) => w[k] = s[k + 1]
  <2>1. CASE Len(s) = 0
    BY <2>1
  <2>2. CASE Len(s) # 0
    <3>1. First(s) = s[1]
      BY <2>2 DEF First
    <3>2. \A k \in 1 .. Len(s) : k # Len(s) => links[s[k]] = s[k + 1]
      BY DEF Chain
    <3>3. \A k \in 0 .. n : k < Len(s) => Walk(links, s[1], n)[k] = s[k + 1]
      BY <2>2, <3>2, WalkAlong
    <3> QED
      BY <3>1, <3>3
  <2> QED
    BY <2>1, <2>2
<1> HIDE DEF w
<1> DEFINE S == {k \in Nat : k <= n /\ ~ (k < Len(s)) => w[k] = NULL}
<1>5. 0 \in S
  BY <1>1, <1>3 DEF First
<1>6. ASSUME NEW k \in Nat, k <= n /\ ~ (k < Len(s)) => w[k] = NULL, k + 1 <= n, ~ (k + 1 < Len(s))
      PROVE  w[k + 1] = NULL
  <2>1. k \in 0 .. n - 1 /\ k \in 0 .. n /\ k <= n
    BY <1>6
  <2>2. CASE k < Len(s)
    <3>1. k + 1 = Len(s) /\ k + 1 \in 1 .. Len(s)
      BY <2>2, <1>1, <1>6
    <3>2. w[k] = s[k + 1] /\ s[k + 1] \in Elements /\ links[s[k + 1]] = NULL
      BY <3>1, <2>1, <2>2, <1>1, <1>4 DEF Chain
    <3> QED
      BY <3>2, <2>1, <1>3 DEF Following
  <2>3. CASE ~ (k < Len(s))
    BY <2>1, <2>3, <1>3, <1>6 DEF Following
  <2> QED
    BY <2>2, <2>3
<1>7. \A k \in Nat : k \in S => k + 1 \in S
  BY <1>6
<1> HIDE DEF S
<1>8. Nat \subseteq S
  BY <1>5, <1>7, Induction
<1>9. \A k \in 0 .. n : ~ (k < Len(s)) => w[k] = NULL
  BY <1>8 DEF S
<1> QED
  BY <1>4, <1>9 DEF w

\* s is what is linked in t, in the order of the application.
Listed(t, s) ==
    /\ s \in Seq(Elements) /\ IsInjective(s)
    /\ t.head = First(s)
    /\ Len(s) # 0 => t.tail = s[Len(s)]
    /\ Chain(t.next, s)
    /\ \A n \in 1 .. Len(s) : t.prev[s[n]] = IF n = 1 THEN NULL ELSE s[n - 1]

\* AppOrder reads off what is linked, however many elements there are.
LEMMA AppOrderOfList ==
    ASSUME NEW t, NEW s, Listed(t, s), t.next \in [Elements -> Link]
    PROVE  AppOrder(t) = s
<1> DEFINE C == Cardinality(Elements)
<1> DEFINE met == Walk(t.next, t.head, C)
<1>1. NULL \notin Elements /\ IsFiniteSet(Elements)
  BY HashAssumption
<1>2. C \in Nat
  BY <1>1, FS_CardinalityType
<1>3. s \in Seq(Elements) /\ IsInjective(s) /\ t.head = First(s) /\ Chain(t.next, s)
  BY DEF Listed
<1>4. Len(s) \in Nat /\ \A k \in 1 .. Len(s) : s[k] \in Elements
  BY <1>3
<1>5. Len(s) <= C
  <2>1. IsFiniteSet(Range(s)) /\ Cardinality(Range(s)) = Len(s)
    BY <1>3, SameLength
  <2>2. Range(s) \in SUBSET Elements
    BY <1>3, RangeMembers
  <2> QED
    BY <2>1, <2>2, <1>1, FS_Subset
<1>6. First(s) \in Link
  BY <1>4 DEF First, Link, Pointer
<1>7. met \in [0 .. C -> Link]
  BY <1>2, <1>3, <1>6, WalkSteps
<1>8. \A k \in 0 .. C : met[k] = IF k < Len(s) THEN s[k + 1] ELSE NULL
  BY <1>1, <1>2, <1>3, WalkChain
<1>9. {k \in DOMAIN met : met[k] \in Elements} = 0 .. Len(s) - 1
  <2>1. DOMAIN met = 0 .. C
    BY <1>7
  <2> HIDE DEF met, C
  <2>2. \A k \in 0 .. C : met[k] \in Elements <=> k < Len(s)
    <3>1. \A k \in 0 .. C : k < Len(s) => k + 1 \in 1 .. Len(s)
      BY <1>2, <1>4
    <3> QED
      BY <3>1, <1>1, <1>4, <1>8
  <2> QED
    BY <2>1, <2>2, <1>2, <1>4, <1>5
<1>10. Cardinality(0 .. Len(s) - 1) = Len(s)
  <2>1. 0 \in Int /\ Len(s) - 1 \in Int /\ (0 > Len(s) - 1 <=> Len(s) = 0)
    BY <1>4
  <2> QED
    BY <2>1, <1>4, FS_Interval
<1>11. AppOrder(t) = [n \in 1 .. Len(s) |-> met[n - 1]]
  BY <1>9, <1>10 DEF AppOrder
<1> HIDE DEF met, C
<1>12. \A n \in 1 .. Len(s) : met[n - 1] = s[n]
  <2>1. \A n \in 1 .. Len(s) : n - 1 \in 0 .. C /\ n - 1 < Len(s) /\ (n - 1) + 1 = n
    BY <1>2, <1>4, <1>5
  <2> QED
    BY <2>1, <1>8
<1>13. s = [n \in 1 .. Len(s) |-> s[n]]
  BY <1>3
<1> QED
  BY <1>11, <1>12, <1>13

\* InsertAt, place by place.
LEMMA InsertAtHolds ==
    ASSUME NEW V, NEW s \in Seq(V), NEW x \in V, NEW p \in 1 .. Len(s) + 1
    PROVE  /\ InsertAt(s, p, x) \in Seq(V)
           /\ Len(InsertAt(s, p, x)) = Len(s) + 1
           /\ \A n \in 1 .. Len(s) + 1 : InsertAt(s, p, x)[n] =
                    IF n < p THEN s[n] ELSE IF n = p THEN x ELSE s[n - 1]
<1> DEFINE L == Len(s)
<1>1. L \in Nat /\ \A n \in 1 .. L : s[n] \in V
  OBVIOUS
<1> DEFINE a == SubSeq(s, 1, p - 1)
           b == SubSeq(s, p, L)
<1>2. /\ a \in Seq(V) /\ Len(a) = p - 1
      /\ \A n \in 1 .. p - 1 : a[n] = s[n]
  <2>1. 1 \in Int /\ p - 1 \in Int /\ \A n \in 1 .. p - 1 : s[n] \in V
    BY <1>1
  <2>2. /\ a \in Seq(V)
        /\ Len(a) = IF 1 <= p - 1 THEN (p - 1) - 1 + 1 ELSE 0
        /\ \A n \in 1 .. (p - 1) - 1 + 1 : a[n] = s[1 + n - 1]
    BY <2>1, SubSeqProperties
  <2> QED
    BY <2>2, <1>1
<1>3. /\ b \in Seq(V) /\ Len(b) = L + 1 - p
      /\ \A n \in 1 .. L + 1 - p : b[n] = s[p + n - 1]
  <2>1. p \in Int /\ L \in Int /\ \A n \in p .. L : s[n] \in V
    BY <1>1
  <2>2. /\ b \in Seq(V)
        /\ Len(b) = IF p <= L THEN L - p + 1 ELSE 0
        /\ \A n \in 1 .. L - p + 1 : b[n] = s[p + n - 1]
    BY <2>1, SubSeqProperties
  <2> QED
    BY <2>2, <1>1
<1> DEFINE c == a \o <<x>>
<1>4. /\ c \in Seq(V) /\ Len(c) = p
      /\ \A n \in 1 .. p : c[n] = IF n < p THEN s[n] ELSE x
  <2>1. <<x>> \in Seq(V) /\ Len(<<x>>) = 1 /\ <<x>>[1] = x
    OBVIOUS
  <2> HIDE DEF a
  <2>2. /\ c \in Seq(V) /\ Len(c) = Len(a) + Len(<<x>>)
        /\ \A n \in 1 .. Len(a) + Len(<<x>>) :
                c[n] = IF n <= Len(a) THEN a[n] ELSE <<x>>[n - Len(a)]
    BY <2>1, <1>2, ConcatProperties
  <2> QED
    BY <2>1, <2>2, <1>2
<1>5. InsertAt(s, p, x) = c \o b
  BY DEF InsertAt
<1> HIDE DEF a, b, c
<1> DEFINE u == c \o b
<1>6. /\ u \in Seq(V) /\ Len(u) = Len(c) + Len(b)
      /\ \A n \in 1 .. Len(c) + Len(b) : u[n] = IF n <= Len(c) THEN c[n] ELSE b[n - Len(c)]
  BY <1>3, <1>4, ConcatProperties
<1> HIDE DEF u, L
<1>7. Len(c) + Len(b) = L + 1 /\ p \in 1 .. L + 1
  BY <1>1, <1>3, <1>4 DEF L
<1>8. ASSUME NEW n \in 1 .. L + 1 PROVE u[n] = IF n < p THEN s[n] ELSE IF n = p THEN x ELSE s[n - 1]
  <2>1. CASE n <= p
    <3>1. n \in 1 .. p /\ u[n] = c[n]
      BY <2>1, <1>1, <1>4, <1>6, <1>7
    <3> QED
      BY <3>1, <2>1, <1>4, <1>7
  <2>2. CASE n > p
    <3>1. n - p \in 1 .. L + 1 - p /\ p + (n - p) - 1 = n - 1
      BY <2>2, <1>1, <1>7
    <3>2. u[n] = b[n - p] /\ b[n - p] = s[p + (n - p) - 1]
      BY <2>2, <3>1, <1>3, <1>4, <1>6, <1>7
    <3> QED
      BY <3>1, <3>2, <2>2, <1>7
  <2> QED
    BY <2>1, <2>2, <1>1, <1>7
<1> QED
  BY <1>5, <1>6, <1>7, <1>8 DEF u, L

\* RemoveAt, place by place.
LEMMA RemoveAtHolds ==
    ASSUME NEW V, NEW s \in Seq(V), NEW p \in 1 .. Len(s)
    PROVE  /\ RemoveAt(s, p) \in Seq(V)
           /\ Len(RemoveAt(s, p)) = Len(s) - 1
           /\ \A n \in 1 .. Len(s) - 1 : RemoveAt(s, p)[n] = IF n < p THEN s[n] ELSE s[n + 1]
<1> DEFINE L == Len(s)
<1>1. L \in Nat /\ \A n \in 1 .. L : s[n] \in V
  OBVIOUS
<1> DEFINE a == SubSeq(s, 1, p - 1)
           b == SubSeq(s, p + 1, L)
<1>2. /\ a \in Seq(V) /\ Len(a) = p - 1
      /\ \A n \in 1 .. p - 1 : a[n] = s[n]
  <2>1. 1 \in Int /\ p - 1 \in Int /\ \A n \in 1 .. p - 1 : s[n] \in V
    BY <1>1
  <2>2. /\ a \in Seq(V)
        /\ Len(a) = IF 1 <= p - 1 THEN (p - 1) - 1 + 1 ELSE 0
        /\ \A n \in 1 .. (p - 1) - 1 + 1 : a[n] = s[1 + n - 1]
    BY <2>1, SubSeqProperties
  <2> QED
    BY <2>2, <1>1
<1>3. /\ b \in Seq(V) /\ Len(b) = L - p
      /\ \A n \in 1 .. L - p : b[n] = s[p + n]
  <2>1. p + 1 \in Int /\ L \in Int /\ \A n \in p + 1 .. L : s[n] \in V
    BY <1>1
  <2>2. /\ b \in Seq(V)
        /\ Len(b) = IF p + 1 <= L THEN L - (p + 1) + 1 ELSE 0
        /\ \A n \in 1 .. L - (p + 1) + 1 : b[n] = s[(p + 1) + n - 1]
    BY <2>1, SubSeqProperties
  <2> QED
    BY <2>2, <1>1
<1>4. RemoveAt(s, p) = a \o b
  BY DEF RemoveAt
<1> HIDE DEF a, b
<1> DEFINE u == a \o b
<1>5. /\ u \in Seq(V) /\ Len(u) = Len(a) + Len(b)
      /\ \A n \in 1 .. Len(a) + Len(b) : u[n] = IF n <= Len(a) THEN a[n] ELSE b[n - Len(a)]
  BY <1>2, <1>3, ConcatProperties
<1> HIDE DEF u, L
<1>6. Len(a) + Len(b) = L - 1 /\ p \in 1 .. L
  BY <1>1, <1>2, <1>3 DEF L
<1>7. ASSUME NEW n \in 1 .. L - 1 PROVE u[n] = IF n < p THEN s[n] ELSE s[n + 1]
  <2>1. CASE n < p
    <3>1. n \in 1 .. p - 1 /\ n <= p - 1 /\ n \in 1 .. Len(a) + Len(b)
      BY <2>1, <1>1, <1>6
    <3> QED
      BY <3>1, <2>1, <1>2, <1>5
  <2>2. CASE ~ (n < p)
    <3>1. n - (p - 1) \in 1 .. L - p /\ p + (n - (p - 1)) = n + 1 /\ ~ (n <= p - 1)
      BY <2>2, <1>1, <1>6
    <3>2. u[n] = b[n - (p - 1)] /\ b[n - (p - 1)] = s[p + (n - (p - 1))]
      BY <3>1, <1>2, <1>3, <1>5, <1>6
    <3> QED
      BY <3>1, <3>2, <2>2
  <2> QED
    BY <2>1, <2>2
<1> QED
  BY <1>4, <1>5, <1>6, <1>7 DEF u, L

\* InsertAt adds a member.
LEMMA InsertAtMembers ==
    ASSUME NEW V, NEW s \in Seq(V), NEW x \in V, NEW p \in 1 .. Len(s) + 1, IsInjective(s), x \notin Range(s)
    PROVE  IsInjective(InsertAt(s, p, x)) /\ Range(InsertAt(s, p, x)) = Range(s) \cup {x}
<1> DEFINE u == InsertAt(s, p, x)
<1>1. /\ u \in Seq(V) /\ Len(u) = Len(s) + 1 /\ Len(s) \in Nat
      /\ \A n \in 1 .. Len(s) + 1 : u[n] = IF n < p THEN s[n] ELSE IF n = p THEN x ELSE s[n - 1]
  BY InsertAtHolds
<1> HIDE DEF u
<1>2. /\ \A m, n \in 1 .. Len(s) : s[m] = s[n] => m = n
      /\ \A n \in 1 .. Len(s) : s[n] # x
  <2>1. \A n \in 1 .. Len(s) : s[n] \in Range(s)
    BY RangeMembers
  <2> QED
    BY <2>1, InjectiveMembers
<1>3. \A n \in 1 .. Len(u) : \/ n < p /\ n \in 1 .. Len(s) /\ u[n] = s[n]
                             \/ n = p /\ u[n] = x
                             \/ n > p /\ n - 1 \in 1 .. Len(s) /\ u[n] = s[n - 1]
  BY <1>1
<1>4. ASSUME NEW m \in 1 .. Len(u), NEW n \in 1 .. Len(u), u[m] = u[n] PROVE m = n
  <2>1. CASE m < p /\ m \in 1 .. Len(s) /\ u[m] = s[m]
    BY <2>1, <1>2, <1>3, <1>4
  <2>2. CASE m = p /\ u[m] = x
    BY <2>2, <1>2, <1>3, <1>4
  <2>3. CASE m > p /\ m - 1 \in 1 .. Len(s) /\ u[m] = s[m - 1]
    <3>1. n > p /\ n - 1 \in 1 .. Len(s) /\ u[n] = s[n - 1]
      BY <2>3, <1>2, <1>3, <1>4
    <3>2. m - 1 = n - 1
      BY <3>1, <2>3, <1>2, <1>4
    <3> QED
      BY <3>2, <1>1
  <2> QED
    BY <2>1, <2>2, <2>3, <1>3
<1>5. \A n \in 1 .. Len(s) : \E m \in 1 .. Len(u) : u[m] = s[n]
  <2> TAKE n \in 1 .. Len(s)
  <2>1. CASE n < p
    BY <2>1, <1>1
  <2>2. CASE ~ (n < p)
    <3>1. n + 1 \in 1 .. Len(u) /\ ~ (n + 1 < p) /\ n + 1 # p /\ (n + 1) - 1 = n
      BY <2>2, <1>1
    <3> QED
      BY <3>1, <1>1
  <2> QED
    BY <2>1, <2>2
<1>6. p \in 1 .. Len(u) /\ u[p] = x
  BY <1>1
<1>7. \A y : y \in Range(u) <=> \E n \in 1 .. Len(u) : u[n] = y
  BY <1>1, RangeMembers
<1>8. \A y : y \in Range(s) <=> \E n \in 1 .. Len(s) : s[n] = y
  BY RangeMembers
<1>9. Range(u) = Range(s) \cup {x}
  <2>1. ASSUME NEW y \in Range(u) PROVE y \in Range(s) \cup {x}
    BY <1>3, <1>7, <1>8
  <2>2. ASSUME NEW y \in Range(s) \cup {x} PROVE y \in Range(u)
    BY <1>5, <1>6, <1>7, <1>8
  <2> QED
    BY <2>1, <2>2
<1>10. IsInjective(u)
  BY <1>1, <1>4, InjectiveMembers
<1> QED
  BY <1>9, <1>10 DEF u

\* RemoveAt takes one member out.
LEMMA RemoveAtMembers ==
    ASSUME NEW V, NEW s \in Seq(V), NEW p \in 1 .. Len(s), IsInjective(s)
    PROVE  IsInjective(RemoveAt(s, p)) /\ Range(RemoveAt(s, p)) = Range(s) \ {s[p]}
<1> DEFINE u == RemoveAt(s, p)
<1>1. /\ u \in Seq(V) /\ Len(u) = Len(s) - 1 /\ Len(s) \in Nat
      /\ \A n \in 1 .. Len(s) - 1 : u[n] = IF n < p THEN s[n] ELSE s[n + 1]
  BY RemoveAtHolds
<1> HIDE DEF u
<1>2. \A m, n \in 1 .. Len(s) : s[m] = s[n] => m = n
  BY InjectiveMembers
<1>3. \A n \in 1 .. Len(u) : \/ n < p /\ n \in 1 .. Len(s) /\ u[n] = s[n]
                             \/ n >= p /\ n + 1 \in 1 .. Len(s) /\ u[n] = s[n + 1]
  BY <1>1
<1>4. \A m, n \in 1 .. Len(u) : u[m] = u[n] => m = n
  BY <1>2, <1>3, <1>1
<1>5. \A n \in 1 .. Len(s) : n # p => \E m \in 1 .. Len(u) : u[m] = s[n]
  <2> SUFFICES ASSUME NEW n \in 1 .. Len(s), n # p PROVE \E m \in 1 .. Len(u) : u[m] = s[n]
    OBVIOUS
  <2>1. CASE n < p
    BY <2>1, <1>1
  <2>2. CASE ~ (n < p)
    <3>1. n - 1 \in 1 .. Len(u) /\ ~ (n - 1 < p) /\ (n - 1) + 1 = n
      BY <2>2, <1>1
    <3> QED
      BY <3>1, <1>1
  <2> QED
    BY <2>1, <2>2
<1>6. \A n \in 1 .. Len(u) : u[n] # s[p]
  BY <1>2, <1>3, <1>1
<1>7. \A y : y \in Range(u) <=> \E n \in 1 .. Len(u) : u[n] = y
  BY <1>1, RangeMembers
<1>8. \A y : y \in Range(s) <=> \E n \in 1 .. Len(s) : s[n] = y
  BY RangeMembers
<1>9. Range(u) = Range(s) \ {s[p]}
  <2>1. ASSUME NEW y \in Range(u) PROVE y \in Range(s) \ {s[p]}
    BY <1>3, <1>6, <1>7, <1>8
  <2>2. ASSUME NEW y \in Range(s) \ {s[p]} PROVE y \in Range(u)
    BY <1>5, <1>7, <1>8
  <2> QED
    BY <2>1, <2>2
<1>10. IsInjective(u)
  BY <1>1, <1>4, InjectiveMembers
<1> QED
  BY <1>9, <1>10 DEF u

\* The types of a table.
Bucket == [chain : Seq(Elements), count : Nat, expand_mult : Nat]
Buckets == UNION {[0 .. n - 1 -> Bucket] : n \in Nat}

Tables ==
    [head : Pointer, tail : Pointer, next : [Elements -> Link], prev : [Elements -> Link],
     num_items : Nat, num_buckets : Nat, buckets : Buckets, bloom : SUBSET Nat,
     ineff_expands : Nat, noexpand : BOOLEAN]

\* Nothing but the order of the application differs.
SameBuckets(r, t) ==
    /\ r.num_items = t.num_items /\ r.num_buckets = t.num_buckets /\ r.buckets = t.buckets
    /\ r.bloom = t.bloom /\ r.ineff_expands = t.ineff_expands /\ r.noexpand = t.noexpand

\* NULL and Garbage are no elements.
LEMMA PointerTypes ==
    /\ NULL \notin Elements /\ Garbage \notin Elements /\ NULL \in Pointer /\ NULL \in Link
    /\ Elements \subseteq Pointer /\ Elements \subseteq Link /\ Pointer \subseteq Link
    /\ Garbage \in Link /\ IsFiniteSet(Elements)
  BY HashAssumption DEF Pointer, Link

\* What it takes to be Listed, element by element.
LEMMA ListedElements ==
    ASSUME NEW t, NEW s, Listed(t, s)
    PROVE  /\ s \in Seq(Elements) /\ Len(s) \in Nat /\ \A n \in 1 .. Len(s) : s[n] \in Elements
           /\ \A m, n \in 1 .. Len(s) : s[m] = s[n] => m = n
           /\ Len(s) = 0 => t.head = NULL
           /\ Len(s) # 0 => t.head = s[1] /\ t.tail = s[Len(s)]
           /\ \A n \in 1 .. Len(s) : t.next[s[n]] = IF n = Len(s) THEN NULL ELSE s[n + 1]
           /\ \A n \in 1 .. Len(s) : t.prev[s[n]] = IF n = 1 THEN NULL ELSE s[n - 1]
<1>1. s \in Seq(Elements) /\ IsInjective(s)
  BY DEF Listed
<1>2. \A m, n \in 1 .. Len(s) : s[m] = s[n] => m = n
  BY <1>1, InjectiveMembers
<1>3. Len(s) \in Nat /\ \A n \in 1 .. Len(s) : s[n] \in Elements
  BY <1>1
<1> QED
  BY <1>1, <1>2, <1>3 DEF Listed, First, Chain

\* And the other way round.
LEMMA ListedIf ==
    ASSUME NEW t, NEW s \in Seq(Elements), IsInjective(s), Len(s) # 0,
           t.head = s[1], t.tail = s[Len(s)],
           \A n \in 1 .. Len(s) : t.next[s[n]] = IF n = Len(s) THEN NULL ELSE s[n + 1],
           \A n \in 1 .. Len(s) : t.prev[s[n]] = IF n = 1 THEN NULL ELSE s[n - 1]
    PROVE  Listed(t, s)
  BY DEF Listed, First, Chain

\* HASH_APPEND_LIST links x behind the last.
LEMMA AppendListHolds ==
    ASSUME NEW t \in Tables, NEW s, Listed(t, s), Len(s) # 0, NEW x \in Elements, x \notin Range(s)
    PROVE  /\ HASH_APPEND_LIST(t, x) \in Tables
           /\ SameBuckets(HASH_APPEND_LIST(t, x), t)
           /\ Listed(HASH_APPEND_LIST(t, x), Append(s, x))
           /\ Range(Append(s, x)) = Range(s) \cup {x}
<1> DEFINE r == HASH_APPEND_LIST(t, x)
           u == Append(s, x)
           L == Len(s)
<1> USE PointerTypes
<1>1. /\ s \in Seq(Elements) /\ IsInjective(s) /\ L \in Nat /\ \A n \in 1 .. L : s[n] \in Elements
      /\ \A m, n \in 1 .. L : s[m] = s[n] => m = n
      /\ t.head = s[1] /\ t.tail = s[L]
      /\ \A n \in 1 .. L : t.next[s[n]] = IF n = L THEN NULL ELSE s[n + 1]
      /\ \A n \in 1 .. L : t.prev[s[n]] = IF n = 1 THEN NULL ELSE s[n - 1]
  <2>1. IsInjective(s)
    BY DEF Listed
  <2> QED
    BY <2>1, ListedElements
<1>2. t.tail \in Elements /\ t.next \in [Elements -> Link] /\ t.prev \in [Elements -> Link]
  <2>1. L \in 1 .. L
    BY <1>1
  <2> QED
    BY <2>1, <1>1 DEF Tables
<1>3. \A n \in 1 .. L : s[n] # x
  BY <1>1, RangeMembers
<1>4. /\ r.head = t.head /\ r.tail = x /\ SameBuckets(r, t)
      /\ r.next = [[t.next EXCEPT ![x] = NULL] EXCEPT ![t.tail] = x]
      /\ r.prev = [t.prev EXCEPT ![x] = t.tail]
  BY DEF HASH_APPEND_LIST, Tables, SameBuckets
<1>5. r \in Tables
  BY <1>2 DEF HASH_APPEND_LIST, Tables
<1>6. /\ u \in Seq(Elements) /\ Len(u) = L + 1
      /\ \A n \in 1 .. L : u[n] = s[n]
      /\ u[L + 1] = x
  BY <1>1, AppendProperties
<1>7. IsInjective(u) /\ Range(u) = Range(s) \cup {x}
  <2> DEFINE one == <<x>>
  <2>1. one \in Seq(Elements) /\ IsInjective(one) /\ Range(one) = {x}
    BY DEF IsInjective, Range
  <2>2. u = s \o one
    BY <1>1, AppendIsConcat
  <2> HIDE DEF one, u
  <2>3. Range(s) \cap Range(one) = {}
    BY <2>1
  <2> QED
    BY <2>1, <2>2, <2>3, <1>1, ConcatRange
<1> HIDE DEF r, u
<1>8. /\ r.next[x] = NULL /\ r.next[s[L]] = x
      /\ \A y \in Elements : y # x /\ y # s[L] => r.next[y] = t.next[y]
  <2>1. s[L] # x
    BY <1>1, <1>2, <1>3
  <2> QED
    BY <2>1, <1>1, <1>2, <1>4
<1>9. r.prev[x] = s[L] /\ \A y \in Elements : y # x => r.prev[y] = t.prev[y]
  BY <1>1, <1>2, <1>4
<1>10. ASSUME NEW n \in 1 .. Len(u)
       PROVE  /\ r.next[u[n]] = IF n = Len(u) THEN NULL ELSE u[n + 1]
              /\ r.prev[u[n]] = IF n = 1 THEN NULL ELSE u[n - 1]
  <2>1. CASE n = L + 1
    BY <2>1, <1>1, <1>6, <1>8, <1>9
  <2>2. CASE n = L
    <3>1. n \in 1 .. L /\ u[n] = s[L] /\ s[L] # x /\ s[L] \in Elements
      BY <2>2, <1>1, <1>3, <1>6
    <3>2. r.next[u[n]] = x /\ u[n + 1] = x
      BY <2>2, <3>1, <1>6, <1>8
    <3>3. r.prev[u[n]] = IF n = 1 THEN NULL ELSE s[n - 1]
      BY <2>2, <3>1, <1>1, <1>9
    <3>4. n # 1 => u[n - 1] = s[n - 1]
      BY <3>1, <1>1, <1>6
    <3> QED
      BY <3>2, <3>3, <3>4, <2>2, <1>1, <1>6
  <2>3. CASE n < L
    <3>1. n \in 1 .. L /\ n + 1 \in 1 .. L /\ L \in 1 .. L
      BY <2>3, <1>1
    <3>2. u[n] = s[n] /\ s[n] # x /\ s[n] # s[L] /\ u[n + 1] = s[n + 1] /\ s[n] \in Elements
      BY <2>3, <3>1, <1>1, <1>3, <1>6
    <3>3. r.next[u[n]] = s[n + 1]
      BY <2>3, <3>1, <3>2, <1>1, <1>8
    <3>4. r.prev[u[n]] = t.prev[s[n]]
      BY <3>2, <1>9
    <3>5. n # 1 => u[n - 1] = s[n - 1]
      <4>1. n # 1 => n - 1 \in 1 .. L
        BY <3>1
      <4> QED
        BY <4>1, <1>6
    <3>6. t.prev[s[n]] = IF n = 1 THEN NULL ELSE s[n - 1]
      BY <3>1, <1>1
    <3> QED
      BY <3>2, <3>3, <3>4, <3>5, <3>6, <2>3, <1>1, <1>6
  <2> QED
    BY <2>1, <2>2, <2>3, <1>1, <1>6
<1>11. r.head = u[1]
  BY <1>1, <1>4, <1>6
<1>12. Listed(r, u)
  <2>1. Len(u) # 0 /\ r.tail = u[Len(u)]
    BY <1>1, <1>4, <1>6
  <2> QED
    BY <2>1, <1>6, <1>7, <1>10, <1>11, ListedIf
<1> QED
  BY <1>4, <1>5, <1>7, <1>12 DEF r, u

\* HASH_MAKE_TABLE: one element, empty buckets.
LEMMA MakeTableHolds ==
    ASSUME NEW t \in Tables, NEW x \in Elements
    PROVE  LET r == HASH_MAKE_TABLE(t, x)
           IN /\ r \in Tables /\ Listed(r, <<x>>)
              /\ r.num_items = 0 /\ r.num_buckets = HASH_INITIAL_NUM_BUCKETS
              /\ r.buckets = [b \in 0 .. HASH_INITIAL_NUM_BUCKETS - 1 |-> NoBuckets]
              /\ r.bloom = {} /\ r.ineff_expands = 0 /\ r.noexpand = FALSE
<1> DEFINE r == HASH_MAKE_TABLE(t, x)
           B == [b \in 0 .. HASH_INITIAL_NUM_BUCKETS - 1 |-> NoBuckets]
<1>1. HASH_INITIAL_NUM_BUCKETS \in Nat
  BY HashAssumption
<1>2. NoBuckets \in Bucket
  BY DEF NoBuckets, Bucket
<1>3. B \in Buckets
  BY <1>1, <1>2 DEF Buckets
<1>4. t.next \in [Elements -> Link] /\ t.prev \in [Elements -> Link] /\ x \in Pointer /\ NULL \in Link
  BY PointerTypes DEF Tables
<1> HIDE DEF B
<1>5. /\ r.head = x /\ r.tail = x /\ r.num_items = 0 /\ r.num_buckets = HASH_INITIAL_NUM_BUCKETS
      /\ r.buckets = B /\ r.bloom = {} /\ r.ineff_expands = 0 /\ r.noexpand = FALSE
      /\ r.next = [t.next EXCEPT ![x] = NULL] /\ r.prev = [t.prev EXCEPT ![x] = NULL]
  BY DEF HASH_MAKE_TABLE, Tables, B
<1>6. r \in Tables
  BY <1>1, <1>3, <1>4 DEF HASH_MAKE_TABLE, Tables, B
<1>7. Listed(r, <<x>>)
  <2> DEFINE one == <<x>>
  <2>1. one \in Seq(Elements) /\ IsInjective(one) /\ Len(one) = 1 /\ one[1] = x
    BY DEF IsInjective
  <2>2. r.next[x] = NULL /\ r.prev[x] = NULL
    BY <1>4, <1>5
  <2> HIDE DEF one, r
  <2>3. Listed(r, one)
    <3>1. \A n \in 1 .. Len(one) : n = 1 /\ n = Len(one) /\ one[n] = x
      BY <2>1
    <3>2. /\ \A n \in 1 .. Len(one) : r.next[one[n]] = IF n = Len(one) THEN NULL ELSE one[n + 1]
          /\ \A n \in 1 .. Len(one) : r.prev[one[n]] = IF n = 1 THEN NULL ELSE one[n - 1]
      BY <3>1, <2>2
    <3>3. r.head = one[1] /\ r.tail = one[Len(one)] /\ Len(one) # 0
      BY <2>1, <1>5
    <3> QED
      BY <3>2, <3>3, <2>1, ListedIf
  <2> QED
    BY <2>3 DEF one
<1> QED
  BY <1>5, <1>6, <1>7 DEF B

\* Linking x in front of the p-th element.
LEMMA InsertBeforeHolds ==
    ASSUME NEW t \in Tables, NEW s, Listed(t, s), NEW x \in Elements, x \notin Range(s),
           NEW p \in 1 .. Len(s)
    PROVE  /\ InsertBefore(t, x, s[p]) \in Tables
           /\ SameBuckets(InsertBefore(t, x, s[p]), t)
           /\ Listed(InsertBefore(t, x, s[p]), InsertAt(s, p, x))
           /\ Range(InsertAt(s, p, x)) = Range(s) \cup {x}
<1> DEFINE r == InsertBefore(t, x, s[p])
           u == InsertAt(s, p, x)
           L == Len(s)
<1> USE PointerTypes
<1>0. IsInjective(s)
  BY DEF Listed
<1>1. /\ s \in Seq(Elements) /\ L \in Nat /\ \A n \in 1 .. L : s[n] \in Elements
      /\ \A m, n \in 1 .. L : s[m] = s[n] => m = n
      /\ L # 0 => t.head = s[1] /\ t.tail = s[L]
      /\ \A n \in 1 .. L : t.next[s[n]] = IF n = L THEN NULL ELSE s[n + 1]
      /\ \A n \in 1 .. L : t.prev[s[n]] = IF n = 1 THEN NULL ELSE s[n - 1]
  BY ListedElements
<1>2. /\ t.next \in [Elements -> Link] /\ t.prev \in [Elements -> Link]
      /\ t.head = s[1] /\ t.tail = s[L] /\ L # 0 /\ p \in 1 .. L /\ p \in 1 .. L + 1
  BY <1>1 DEF Tables
<1>3. \A n \in 1 .. L : s[n] # x
  BY <1>1, RangeMembers
<1> DEFINE before == t.prev[s[p]]
<1>4. before = IF p = 1 THEN NULL ELSE s[p - 1]
  BY <1>1
<1>5. before \in Link /\ before # x /\ (before = NULL <=> p = 1)
  <2>1. CASE p = 1
    BY <2>1, <1>4
  <2>2. CASE p # 1
    <3>1. p - 1 \in 1 .. L
      BY <2>2, <1>1
    <3> QED
      BY <3>1, <2>2, <1>1, <1>3, <1>4
  <2> QED
    BY <2>1, <2>2
<1> HIDE DEF before
<1>6. /\ r.head = (IF before = NULL THEN x ELSE t.head) /\ r.tail = t.tail /\ SameBuckets(r, t)
      /\ r.next = [z \in Elements |-> CASE z = x -> s[p] [] z = before -> x [] OTHER -> t.next[z]]
      /\ r.prev = [t.prev EXCEPT ![x] = before, ![s[p]] = x]
  BY DEF InsertBefore, Tables, SameBuckets, before
<1>7. s[p] \in Elements /\ s[p] # x
  BY <1>1, <1>3
<1>8. /\ r.next[x] = s[p] /\ (before \in Elements => r.next[before] = x)
      /\ \A y \in Elements : y # x /\ y # before => r.next[y] = t.next[y]
  BY <1>5, <1>6
<1>9. /\ r.prev[x] = before /\ r.prev[s[p]] = x
      /\ \A y \in Elements : y # x /\ y # s[p] => r.prev[y] = t.prev[y]
  BY <1>2, <1>6, <1>7
<1>10. r \in Tables
  <2>1. [z \in Elements |-> CASE z = x -> s[p] [] z = before -> x [] OTHER -> t.next[z]]
           \in [Elements -> Link]
    BY <1>2, <1>7
  <2>2. [t.prev EXCEPT ![x] = before, ![s[p]] = x] \in [Elements -> Link]
    BY <1>2, <1>5
  <2> QED
    BY <2>1, <2>2 DEF InsertBefore, Tables, before
<1>11. /\ u \in Seq(Elements) /\ Len(u) = L + 1
       /\ \A n \in 1 .. L + 1 : u[n] = IF n < p THEN s[n] ELSE IF n = p THEN x ELSE s[n - 1]
  BY <1>1, <1>2, InsertAtHolds
<1>12. IsInjective(u) /\ Range(u) = Range(s) \cup {x}
  BY <1>0, <1>1, <1>2, InsertAtMembers
<1> HIDE DEF r, u
<1>13. ASSUME NEW n \in 1 .. Len(u)
       PROVE  /\ r.next[u[n]] = IF n = Len(u) THEN NULL ELSE u[n + 1]
              /\ r.prev[u[n]] = IF n = 1 THEN NULL ELSE u[n - 1]
  <2>1. CASE n < p - 1
    <3>1. /\ n \in 1 .. L /\ n + 1 \in 1 .. L /\ n # p /\ n # p - 1 /\ p - 1 \in 1 .. L
          /\ n \in 1 .. L + 1 /\ n + 1 \in 1 .. L + 1 /\ n < p /\ n + 1 < p /\ n # L /\ n # L + 1 /\ p # 1
      BY <2>1, <1>1, <1>2
    <3>2. u[n] = s[n] /\ u[n + 1] = s[n + 1] /\ before = s[p - 1]
      BY <3>1, <1>4, <1>11
    <3>3. s[n] \in Elements /\ s[n] # x /\ s[n] # before /\ s[n] # s[p]
      BY <3>1, <3>2, <1>1, <1>2, <1>3
    <3>4. r.next[u[n]] = t.next[s[n]] /\ r.prev[u[n]] = t.prev[s[n]]
      BY <3>2, <3>3, <1>8, <1>9
    <3>5. t.next[s[n]] = s[n + 1] /\ t.prev[s[n]] = IF n = 1 THEN NULL ELSE s[n - 1]
      BY <3>1, <1>1
    <3>6. n # 1 => u[n - 1] = s[n - 1]
      <4>1. n # 1 => n - 1 \in 1 .. L + 1 /\ n - 1 < p
        BY <3>1
      <4> QED
        BY <4>1, <1>11
    <3> QED
      BY <3>1, <3>2, <3>4, <3>5, <3>6, <1>11
  <2>2. CASE n = p - 1
    <3>1. /\ n \in 1 .. L /\ n \in 1 .. L + 1 /\ p \in 1 .. L + 1 /\ n < p /\ p # 1
          /\ n + 1 = p /\ ~ (p < p) /\ n # L + 1 /\ n # p
      BY <2>2, <1>1, <1>2
    <3>2. u[n] = s[n] /\ u[n + 1] = x /\ before = s[n]
      BY <3>1, <2>2, <1>4, <1>11
    <3>3. s[n] \in Elements /\ s[n] # x /\ s[n] # s[p]
      BY <3>1, <1>1, <1>2, <1>3
    <3>4. r.next[u[n]] = x /\ r.prev[u[n]] = t.prev[s[n]]
      BY <3>2, <3>3, <1>8, <1>9
    <3>5. t.prev[s[n]] = IF n = 1 THEN NULL ELSE s[n - 1]
      BY <3>1, <1>1
    <3>6. n # 1 => u[n - 1] = s[n - 1]
      <4>1. n # 1 => n - 1 \in 1 .. L + 1 /\ n - 1 < p
        BY <3>1
      <4> QED
        BY <4>1, <1>11
    <3> QED
      BY <3>1, <3>2, <3>4, <3>5, <3>6, <1>11
  <2>3. CASE n = p
    <3>1. /\ n \in 1 .. L + 1 /\ n + 1 \in 1 .. L + 1 /\ ~ (n < p) /\ ~ (n + 1 < p) /\ n + 1 # p
          /\ (n + 1) - 1 = p /\ n # L + 1
      <4>1. p \in Nat /\ p >= 1 /\ p <= L
        BY <1>1, <1>2
      <4> QED
        BY <4>1, <2>3, <1>1
    <3>2. u[n] = x /\ u[n + 1] = s[p]
      BY <3>1, <2>3, <1>11
    <3>3. r.next[u[n]] = s[p] /\ r.prev[u[n]] = before
      BY <3>2, <1>8, <1>9
    <3>4. n # 1 => u[n - 1] = s[n - 1]
      <4>1. n # 1 => n - 1 \in 1 .. L + 1 /\ n - 1 < p
        BY <2>3, <3>1
      <4> QED
        BY <4>1, <1>11
    <3> QED
      BY <2>3, <3>1, <3>2, <3>3, <3>4, <1>4, <1>11
  <2>4. CASE n > p
    <3> DEFINE m == n - 1
    <3>1. /\ m \in 1 .. L /\ n \in 1 .. L + 1 /\ n = m + 1 /\ ~ (n < p) /\ n # p /\ n # 1
          /\ m >= p /\ (n = L + 1 <=> m = L)
      BY <2>4, <1>1, <1>2, <1>11
    <3>2. u[n] = s[m]
      BY <3>1, <1>11
    <3>3. s[m] \in Elements /\ s[m] # x /\ s[m] # before
      <4>1. CASE p = 1
        BY <4>1, <3>1, <1>1, <1>3, <1>4
      <4>2. CASE p # 1
        <5>1. p - 1 \in 1 .. L /\ m # p - 1
          BY <4>2, <3>1, <1>1, <1>2
        <5> QED
          BY <5>1, <4>2, <3>1, <1>1, <1>3, <1>4
      <4> QED
        BY <4>1, <4>2
    <3>4. r.next[u[n]] = t.next[s[m]]
      BY <3>2, <3>3, <1>8
    <3>5. t.next[s[m]] = IF m = L THEN NULL ELSE s[m + 1]
      BY <3>1, <1>1
    <3>6. m # L => u[n + 1] = s[m + 1]
      <4>1. m # L => n + 1 \in 1 .. L + 1 /\ ~ (n + 1 < p) /\ n + 1 # p /\ (n + 1) - 1 = m + 1
        BY <3>1, <1>1, <1>2
      <4> QED
        BY <4>1, <1>11
    <3>7. r.prev[u[n]] = u[n - 1]
      <4>1. CASE m = p
        <5>1. r.prev[u[n]] = x
          BY <4>1, <3>2, <1>9
        <5>2. u[n - 1] = x
          BY <4>1, <1>2, <1>11
        <5> QED
          BY <5>1, <5>2
      <4>2. CASE m # p
        <5>1. s[m] # s[p] /\ m # 1 /\ m \in 1 .. L + 1 /\ ~ (m < p) /\ n - 1 = m
          BY <4>2, <3>1, <1>1, <1>2
        <5>2. r.prev[u[n]] = t.prev[s[m]] /\ t.prev[s[m]] = s[m - 1]
          BY <5>1, <3>1, <3>2, <3>3, <1>1, <1>9
        <5>3. u[n - 1] = s[m - 1]
          BY <5>1, <4>2, <1>11
        <5> QED
          BY <5>2, <5>3
      <4> QED
        BY <4>1, <4>2
    <3> QED
      BY <3>1, <3>4, <3>5, <3>6, <3>7, <1>11
  <2> QED
    BY <2>1, <2>2, <2>3, <2>4, <1>1, <1>2, <1>11
<1>14. r.head = u[1]
  <2>1. 1 \in 1 .. L + 1 /\ (p = 1 \/ 1 < p)
    BY <1>1, <1>2
  <2> QED
    BY <2>1, <1>2, <1>5, <1>6, <1>11
<1>15. r.tail = u[Len(u)]
  <2>1. L + 1 \in 1 .. L + 1 /\ ~ (L + 1 < p) /\ L + 1 # p /\ (L + 1) - 1 = L
    BY <1>1, <1>2
  <2> QED
    BY <2>1, <1>2, <1>6, <1>11
<1>16. Listed(r, u)
  <2>1. Len(u) # 0
    BY <1>1, <1>11
  <2> QED
    BY <2>1, <1>11, <1>12, <1>13, <1>14, <1>15, ListedIf
<1> QED
  BY <1>6, <1>10, <1>12, <1>16 DEF r, u

\* HASH_CLEAR: nothing is linked, there are no buckets.
LEMMA ClearHolds ==
    ASSUME NEW t \in Tables
    PROVE  /\ HASH_CLEAR(t) \in Tables /\ Listed(HASH_CLEAR(t), <<>>)
           /\ HASH_CLEAR(t).num_buckets = 0 /\ HASH_CLEAR(t).buckets = [b \in {} |-> NoBuckets]
           /\ HASH_CLEAR(t).noexpand = FALSE
<1> DEFINE B == [b \in {} |-> NoBuckets]
<1>1. B \in Buckets
  <2>1. B \in [0 .. 0 - 1 -> Bucket]
    OBVIOUS
  <2> QED
    BY <2>1 DEF Buckets
<1>2. <<>> \in Seq(Elements) /\ Len(<<>>) = 0
  OBVIOUS
<1>3. IsInjective(<<>>)
  BY DEF IsInjective
<1> HIDE DEF B
<1>4. HASH_CLEAR(t) \in Tables
  BY <1>1, PointerTypes DEF HASH_CLEAR, NoTable, Tables, B
<1>5. Listed(HASH_CLEAR(t), <<>>)
  <2>1. HASH_CLEAR(t).head = NULL
    BY DEF HASH_CLEAR, NoTable
  <2> QED
    BY <2>1, <1>2, <1>3 DEF Listed, Chain, First
<1> QED
  BY <1>4, <1>5 DEF HASH_CLEAR, NoTable

\* Unlinking the p-th of several elements.
LEMMA UnlinkedHolds ==
    ASSUME NEW t \in Tables, NEW s, Listed(t, s), NEW p \in 1 .. Len(s), Len(s) # 1
    PROVE  /\ Unlinked(t, s[p]) \in Tables
           /\ SameBuckets(Unlinked(t, s[p]), t)
           /\ Listed(Unlinked(t, s[p]), RemoveAt(s, p))
<1> DEFINE r == Unlinked(t, s[p])
           u == RemoveAt(s, p)
           L == Len(s)
<1> USE PointerTypes
<1>0. IsInjective(s)
  BY DEF Listed
<1>1. /\ s \in Seq(Elements) /\ L \in Nat /\ \A n \in 1 .. L : s[n] \in Elements
      /\ \A m, n \in 1 .. L : s[m] = s[n] => m = n
      /\ L # 0 => t.head = s[1] /\ t.tail = s[L]
      /\ \A n \in 1 .. L : t.next[s[n]] = IF n = L THEN NULL ELSE s[n + 1]
      /\ \A n \in 1 .. L : t.prev[s[n]] = IF n = 1 THEN NULL ELSE s[n - 1]
  BY ListedElements
<1>2. /\ t.next \in [Elements -> Link] /\ t.prev \in [Elements -> Link]
      /\ t.head = s[1] /\ t.tail = s[L] /\ L > 1 /\ p \in 1 .. L /\ L \in 1 .. L
  <2>1. L > 1 /\ p \in 1 .. L /\ L \in 1 .. L /\ L # 0
    <3>1. L \in Nat
      BY <1>1
    <3> HIDE DEF L
    <3>2. p \in 1 .. L /\ L # 1
      BY DEF L
    <3> QED
      BY <3>1, <3>2
  <2> QED
    BY <2>1, <1>1 DEF Tables
<1> DEFINE before == t.prev[s[p]]
           after == t.next[s[p]]
<1>3. before = (IF p = 1 THEN NULL ELSE s[p - 1]) /\ after = (IF p = L THEN NULL ELSE s[p + 1])
  BY <1>1
<1>4. /\ before \in Pointer /\ (before = NULL <=> p = 1)
      /\ after \in Pointer /\ (after = NULL <=> p = L)
  <2>1. p # 1 => p - 1 \in 1 .. L
    BY <1>1, <1>2
  <2>2. p # L => p + 1 \in 1 .. L
    BY <1>1, <1>2
  <2> QED
    BY <2>1, <2>2, <1>1, <1>3
<1> HIDE DEF before, after
<1>5. /\ r.tail = (IF s[p] = t.tail THEN before ELSE t.tail)
      /\ r.head = (IF before = NULL THEN after ELSE t.head) /\ SameBuckets(r, t)
      /\ r.next = [z \in Elements |-> IF z = before THEN after ELSE t.next[z]]
      /\ r.prev = [z \in Elements |-> IF z = after THEN before ELSE t.prev[z]]
  BY DEF Unlinked, Tables, SameBuckets, before, after
<1>6. r \in Tables
  <2>1. /\ [z \in Elements |-> IF z = before THEN after ELSE t.next[z]] \in [Elements -> Link]
        /\ [z \in Elements |-> IF z = after THEN before ELSE t.prev[z]] \in [Elements -> Link]
    BY <1>2, <1>4
  <2> QED
    BY <2>1, <1>4 DEF Unlinked, Tables, before, after
<1>7. /\ u \in Seq(Elements) /\ Len(u) = L - 1
      /\ \A n \in 1 .. L - 1 : u[n] = IF n < p THEN s[n] ELSE s[n + 1]
  BY <1>1, <1>2, RemoveAtHolds
<1>8. IsInjective(u)
  BY <1>0, <1>1, <1>2, RemoveAtMembers
<1> HIDE DEF r, u
\* The n-th element of u is the m-th of s.
<1>9. ASSUME NEW m \in 1 .. L, m # p
      PROVE  /\ r.next[s[m]] = (IF m = p - 1 THEN after ELSE t.next[s[m]])
             /\ r.prev[s[m]] = (IF m = p + 1 THEN before ELSE t.prev[s[m]])
  <2>1. s[m] \in Elements
    BY <1>1
  <2>2. s[m] = before <=> m = p - 1
    <3>1. CASE p = 1
      BY <3>1, <2>1, <1>3
    <3>2. CASE p # 1
      <4>1. p - 1 \in 1 .. L /\ before = s[p - 1]
        BY <3>2, <1>1, <1>2, <1>3
      <4> QED
        BY <4>1, <1>1
    <3> QED
      BY <3>1, <3>2
  <2>3. s[m] = after <=> m = p + 1
    <3>1. CASE p = L
      BY <3>1, <2>1, <1>1, <1>3
    <3>2. CASE p # L
      <4>1. p + 1 \in 1 .. L /\ after = s[p + 1]
        BY <3>2, <1>1, <1>2, <1>3
      <4> QED
        BY <4>1, <1>1
    <3> QED
      BY <3>1, <3>2
  <2> QED
    BY <2>1, <2>2, <2>3, <1>5
<1>10. ASSUME NEW n \in 1 .. Len(u)
       PROVE  /\ r.next[u[n]] = IF n = Len(u) THEN NULL ELSE u[n + 1]
              /\ r.prev[u[n]] = IF n = 1 THEN NULL ELSE u[n - 1]
  <2>1. CASE n < p
    <3>1. n \in 1 .. L /\ n # p /\ n # p + 1 /\ n \in 1 .. L - 1 /\ n # L
      BY <2>1, <1>1, <1>2, <1>7
    <3>2. u[n] = s[n]
      BY <3>1, <2>1, <1>7
    <3>3. r.prev[u[n]] = IF n = 1 THEN NULL ELSE u[n - 1]
      <4>1. r.prev[u[n]] = t.prev[s[n]] /\ t.prev[s[n]] = IF n = 1 THEN NULL ELSE s[n - 1]
        BY <3>1, <3>2, <1>1, <1>9
      <4>2. n # 1 => n - 1 \in 1 .. L - 1 /\ n - 1 < p
        BY <3>1, <2>1, <1>1, <1>2
      <4>3. n # 1 => u[n - 1] = s[n - 1]
        BY <4>2, <1>7
      <4> QED
        BY <4>1, <4>3
    <3>4. CASE n = p - 1
      <4>1. r.next[u[n]] = after
        BY <3>1, <3>2, <3>4, <1>9
      <4>2. n + 1 = p /\ (n = L - 1 <=> p = L)
        BY <3>4, <1>1, <1>2
      <4>3. p # L => p \in 1 .. L - 1 /\ ~ (p < p)
        BY <1>1, <1>2
      <4>4. p # L => u[p] = s[p + 1]
        BY <4>3, <1>7
      <4> QED
        BY <3>3, <4>1, <4>2, <4>4, <1>3, <1>7
    <3>5. CASE n # p - 1
      <4>1. r.next[u[n]] = t.next[s[n]] /\ t.next[s[n]] = s[n + 1]
        BY <3>1, <3>2, <3>5, <1>1, <1>9
      <4>2. n + 1 \in 1 .. L - 1 /\ n + 1 < p /\ n # L - 1
        BY <3>1, <3>5, <2>1, <1>1, <1>2
      <4>3. u[n + 1] = s[n + 1]
        BY <4>2, <1>7
      <4> QED
        BY <3>3, <4>1, <4>2, <4>3, <1>7
    <3> QED
      BY <3>4, <3>5
  <2>2. CASE ~ (n < p)
    <3> DEFINE m == n + 1
    <3>1. /\ m \in 1 .. L /\ m # p /\ m # p - 1 /\ n \in 1 .. L - 1 /\ m # 1
          /\ (n = L - 1 <=> m = L) /\ n = m - 1
      BY <2>2, <1>1, <1>2, <1>7
    <3>2. u[n] = s[m]
      BY <3>1, <2>2, <1>7
    <3>3. r.next[u[n]] = IF n = Len(u) THEN NULL ELSE u[n + 1]
      <4>1. r.next[u[n]] = t.next[s[m]] /\ t.next[s[m]] = IF m = L THEN NULL ELSE s[m + 1]
        BY <3>1, <3>2, <1>1, <1>9
      <4>2. m # L => n + 1 \in 1 .. L - 1 /\ ~ (n + 1 < p) /\ (n + 1) + 1 = m + 1
        BY <3>1, <2>2, <1>1, <1>2
      <4>3. m # L => u[n + 1] = s[m + 1]
        BY <4>2, <1>7
      <4> QED
        BY <3>1, <4>1, <4>3, <1>7
    <3>4. CASE n = p
      <4>1. r.prev[u[n]] = before
        BY <3>1, <3>2, <3>4, <1>9
      <4>2. n # 1 => n - 1 \in 1 .. L - 1 /\ n - 1 < p
        BY <3>4, <1>1, <1>2
      <4>3. n # 1 => u[n - 1] = s[n - 1]
        BY <4>2, <1>7
      <4> QED
        BY <3>3, <3>4, <4>1, <4>3, <1>3
    <3>5. CASE n # p
      <4>1. r.prev[u[n]] = t.prev[s[m]] /\ t.prev[s[m]] = s[m - 1]
        <5>1. m # p + 1
          BY <3>1, <3>5
        <5> QED
          BY <5>1, <3>1, <3>2, <1>1, <1>9
      <4>2. n - 1 \in 1 .. L - 1 /\ ~ (n - 1 < p) /\ (n - 1) + 1 = m - 1 /\ n # 1
        BY <3>1, <3>5, <2>2, <1>1, <1>2
      <4>3. u[n - 1] = s[m - 1]
        BY <4>2, <1>7
      <4> QED
        BY <3>3, <4>1, <4>2, <4>3
    <3> QED
      BY <3>4, <3>5
  <2> QED
    BY <2>1, <2>2
<1>11. r.head = u[1]
  <2>1. 1 \in 1 .. L - 1 /\ (1 < p <=> p # 1)
    BY <1>1, <1>2
  <2> QED
    BY <2>1, <1>2, <1>3, <1>4, <1>5, <1>7
<1>12. r.tail = u[Len(u)]
  <2>1. L - 1 \in 1 .. L - 1 /\ (L - 1 < p <=> p = L) /\ (L - 1) + 1 = L
    BY <1>1, <1>2
  <2>2. s[p] = t.tail <=> p = L
    BY <1>1, <1>2
  <2>3. p = L => p # 1
    BY <1>2
  <2> QED
    BY <2>1, <2>2, <2>3, <1>2, <1>3, <1>5, <1>7
<1>13. Listed(r, u)
  <2>1. Len(u) # 0
    BY <1>1, <1>2, <1>7
  <2> QED
    BY <2>1, <1>7, <1>8, <1>10, <1>11, <1>12, ListedIf
<1> QED
  BY <1>5, <1>6, <1>13 DEF r, u

-----------------------------------------------------------------------------
(* Buckets.                                                                *)

\* Division with remainder.
LEMMA Divides ==
    ASSUME NEW m \in Nat, NEW n \in Nat \ {0}
    PROVE  /\ m \div n \in Nat /\ m % n \in 0 .. n - 1
           /\ m = n * (m \div n) + (m % n)
           /\ n * (m \div n) <= m /\ m < n * ((m \div n) + 1)
  OBVIOUS

\* Multiplication keeps the order,
LEMMA Grows ==
    ASSUME NEW a \in Int, NEW b \in Int, NEW n \in Nat, a <= b
    PROVE  n * a <= n * b
  OBVIOUS

\* and so does its inverse.
LEMMA Cancels ==
    ASSUME NEW a \in Int, NEW b \in Int, NEW n \in Nat \ {0}, n * a <= n * b
    PROVE  a <= b
<1> SUFFICES ASSUME b + 1 <= a PROVE FALSE
  OBVIOUS
<1>1. n * (b + 1) <= n * a
  BY Grows
<1>2. n * (b + 1) = n * b + n
  OBVIOUS
<1> QED
  BY <1>1, <1>2

\* Ceiling(m, n) is the least number of which n cover m.
LEMMA CeilingHolds ==
    ASSUME NEW m \in Nat \ {0}, NEW n \in Nat \ {0}
    PROVE  /\ Ceiling(m, n) \in Nat \ {0}
           /\ m <= n * Ceiling(m, n)
           /\ \A k \in Nat : m <= n * k => Ceiling(m, n) <= k
<1> DEFINE q == m \div n
           r == m % n
<1>1. /\ q \in Nat /\ r \in 0 .. n - 1 /\ m = n * q + r /\ m < n * (q + 1) /\ n * q <= m
  BY Divides
<1>2. Ceiling(m, n) = q + (IF r # 0 THEN 1 ELSE 0)
  BY DEF Ceiling
<1> HIDE DEF q, r
<1>3. CASE r = 0
  <2>1. n * q = m /\ Ceiling(m, n) = q
    BY <1>1, <1>2, <1>3
  <2>2. q # 0
    BY <2>1
  <2> QED
    BY <2>1, <2>2, <1>1, Cancels
<1>4. CASE r # 0
  <2>1. Ceiling(m, n) = q + 1
    BY <1>1, <1>2, <1>4
  <2>2. ASSUME NEW k \in Nat, m <= n * k PROVE q + 1 <= k
    <3> SUFFICES ASSUME k <= q PROVE FALSE
      BY <1>1
    <3>1. n * k <= n * q
      BY <1>1, Grows
    <3>2. n * k \in Int /\ n * q \in Int
      BY <1>1
    <3> QED
      BY <3>1, <3>2, <2>2, <1>1, <1>4
  <2> QED
    BY <2>1, <2>2, <1>1
<1> QED
  BY <1>3, <1>4

\* Every element has a bucket.
LEMMA BucketNumber ==
    ASSUME NEW x \in Elements, NEW n \in Nat \ {0}
    PROVE  HASH_TO_BKT(x, n) \in 0 .. n - 1
<1>1. hashv[x] \in Nat
  BY HashAssumption
<1> QED
  BY <1>1, Divides DEF HASH_TO_BKT

\* The chains B of n buckets hold the elements X, each in its bucket.
HasChains(B, n, X) ==
    /\ B \in [0 .. n - 1 -> Bucket]
    /\ \A b \in 0 .. n - 1 : /\ IsInjective(B[b].chain) /\ B[b].count = Len(B[b].chain)
                             /\ Range(B[b].chain) = {x \in X : HASH_TO_BKT(x, n) = b}
Stored(t, X) == t.num_buckets \in Nat \ {0} /\ HasChains(t.buckets, t.num_buckets, X)

\* The chains in their numbering from 1.
LEMMA AllChainsHolds ==
    ASSUME NEW t, NEW n \in Nat, t.num_buckets = n, t.buckets \in [0 .. n - 1 -> Bucket]
    PROVE  /\ AllChains(t) \in [1 .. n -> Seq(Elements)]
           /\ \A k \in 1 .. n : AllChains(t)[k] = t.buckets[k - 1].chain
<1>1. \A k \in 1 .. n : k - 1 \in 0 .. n - 1
  OBVIOUS
<1>2. \A b \in 0 .. n - 1 : t.buckets[b].chain \in Seq(Elements)
  BY DEF Bucket
<1> QED
  BY <1>1, <1>2 DEF AllChains

\* The walk of HASH_EXPAND_BUCKETS meets every stored element once.
LEMMA ChainedHolds ==
    ASSUME NEW t, NEW X \in SUBSET Elements, Stored(t, X)
    PROVE  /\ Chained(t) \in Seq(Elements) /\ IsInjective(Chained(t)) /\ Range(Chained(t)) = X
<1> DEFINE n == t.num_buckets
           B == t.buckets
           ss == AllChains(t)
<1>1. n \in Nat \ {0} /\ B \in [0 .. n - 1 -> Bucket]
  BY DEF Stored, HasChains
<1>2. \A b \in 0 .. n - 1 : IsInjective(B[b].chain) /\ Range(B[b].chain) = {x \in X : HASH_TO_BKT(x, n) = b}
  BY DEF Stored, HasChains
<1>3. ss \in [1 .. n -> Seq(Elements)] /\ \A k \in 1 .. n : ss[k] = B[k - 1].chain
  BY <1>1, AllChainsHolds
<1>4. Chained(t) = FlattenSeq(ss)
  BY DEF Chained, AllChains
<1>5. \A x \in X : HASH_TO_BKT(x, n) \in 0 .. n - 1
  BY <1>1, BucketNumber
<1> HIDE DEF n, B, ss
<1>6. \A k \in 1 .. n : IsInjective(ss[k]) /\ Range(ss[k]) = {x \in X : HASH_TO_BKT(x, n) = k - 1}
  <2> TAKE k \in 1 .. n
  <2>1. k - 1 \in 0 .. n - 1
    BY <1>1
  <2> QED
    BY <2>1, <1>2, <1>3
<1>7. \A j, k \in 1 .. n : j # k => Range(ss[j]) \cap Range(ss[k]) = {}
  <2> SUFFICES ASSUME NEW j \in 1 .. n, NEW k \in 1 .. n, j # k, NEW x \in Range(ss[j]) \cap Range(ss[k])
               PROVE  FALSE
    OBVIOUS
  <2>1. HASH_TO_BKT(x, n) = j - 1 /\ HASH_TO_BKT(x, n) = k - 1
    BY <1>6
  <2> QED
    BY <2>1, <1>1
<1>8. /\ FlattenSeq(ss) \in Seq(Elements) /\ IsInjective(FlattenSeq(ss))
      /\ Range(FlattenSeq(ss)) = UNION {Range(ss[k]) : k \in 1 .. n}
  <2>1. \A k \in 1 .. n : IsInjective(ss[k])
    BY <1>6
  <2>2. n \in Nat /\ ss \in [1 .. n -> Seq(Elements)]
    BY <1>1, <1>3
  <2> QED
    BY <2>1, <2>2, <1>7, FlattenDisjoint
<1>9. UNION {Range(ss[k]) : k \in 1 .. n} = X
  <2>1. ASSUME NEW x \in X PROVE \E k \in 1 .. n : x \in Range(ss[k])
    <3> DEFINE b == HASH_TO_BKT(x, n)
    <3>1. b \in 0 .. n - 1
      BY <1>5
    <3> HIDE DEF b
    <3>2. b + 1 \in 1 .. n /\ (b + 1) - 1 = b
      BY <3>1, <1>1
    <3>3. Range(ss[b + 1]) = {y \in X : HASH_TO_BKT(y, n) = b}
      BY <3>2, <1>6
    <3> QED
      BY <3>2, <3>3 DEF b
  <2>2. \A k \in 1 .. n : Range(ss[k]) \subseteq X
    BY <1>6
  <2> QED
    BY <2>1, <2>2
<1> QED
  BY <1>4, <1>8, <1>9

\* Every element is in the bucket of the bits that the new number of buckets asks for.
LEMMA RedistributedHolds ==
    ASSUME NEW t, NEW X \in SUBSET Elements, Stored(t, X), t.num_items \in Nat \ {0}, NEW n \in Nat \ {0}
    PROVE  HasChains(Redistributed(t, n), n, X)
<1> DEFINE ideal == Ceiling(t.num_items, n)
           chain(b) == NewChain(Chained(t), n, b)
           R == Redistributed(t, n)
           mult(b) == IF Len(chain(b)) > ideal THEN Len(chain(b)) \div ideal ELSE 0
<1>1. Chained(t) \in Seq(Elements) /\ IsInjective(Chained(t)) /\ Range(Chained(t)) = X
  BY ChainedHolds
<1>2. \A b : /\ chain(b) \in Seq(Elements) /\ IsInjective(chain(b))
             /\ Range(chain(b)) = {x \in X : HASH_TO_BKT(x, n) = b}
  BY <1>1, NewChainHolds
<1>3. ideal \in Nat \ {0}
  BY CeilingHolds
<1>4. R = [b \in 0 .. n - 1 |-> [chain |-> chain(b), count |-> Len(chain(b)), expand_mult |-> mult(b)]]
  BY DEF Redistributed
<1> HIDE DEF ideal, chain, R
<1>5. \A b : Len(chain(b)) \in Nat
  BY <1>2
<1>6. \A b : mult(b) \in Nat
  BY <1>3, <1>5, Divides
<1> HIDE DEF mult
<1>7. R \in [0 .. n - 1 -> Bucket]
  BY <1>2, <1>4, <1>5, <1>6 DEF Bucket
<1>8. \A b \in 0 .. n - 1 : R[b].chain = chain(b) /\ R[b].count = Len(chain(b))
  BY <1>4
<1> QED
  BY <1>2, <1>7, <1>8 DEF HasChains, R

\* M adds up the multiples of the n buckets B: there are no more than n of them.
Multiples(M, B, n) ==
    /\ M \in [0 .. n -> Nat] /\ M[0] = 0 /\ M[n] <= n
    /\ \A b \in 0 .. n - 1 : M[b + 1] = M[b] + B[b].expand_mult

\* The bound of every chain; it is not reached where the multiple is not 0.
ShortChains(B, n) ==
    \A b \in 0 .. n - 1 :
        /\ B[b].count <= (B[b].expand_mult + 1) * HASH_BKT_CAPACITY_THRESH
        /\ B[b].expand_mult # 0 => B[b].count < (B[b].expand_mult + 1) * HASH_BKT_CAPACITY_THRESH
ShortEnough(B, n) == ShortChains(B, n) /\ \E M : Multiples(M, B, n)

\* The counts of the chains, added up bucket by bucket, make all elements.
LEMMA ChainSteps ==
    ASSUME NEW t, NEW X \in SUBSET Elements, Stored(t, X)
    PROVE  \E f : /\ f \in [0 .. t.num_buckets -> Nat] /\ f[0] = 0
                  /\ f[t.num_buckets] = Cardinality(X)
                  /\ \A b \in 0 .. t.num_buckets - 1 : f[b + 1] = f[b] + t.buckets[b].count
<1> DEFINE n == t.num_buckets
           B == t.buckets
           ss == AllChains(t)
<1>1. n \in Nat /\ B \in [0 .. n - 1 -> Bucket] /\ \A b \in 0 .. n - 1 : B[b].count = Len(B[b].chain)
  BY DEF Stored, HasChains
<1>2. ss \in [1 .. n -> Seq(Elements)] /\ \A k \in 1 .. n : ss[k] = B[k - 1].chain
  BY <1>1, AllChainsHolds
<1>3. Chained(t) = FlattenSeq(ss)
  BY DEF Chained, AllChains
<1>4. FlattenSeq(ss) \in Seq(Elements) /\ IsInjective(FlattenSeq(ss)) /\ Range(FlattenSeq(ss)) = X
  BY <1>3, ChainedHolds
<1>5. Len(FlattenSeq(ss)) = Cardinality(X)
  BY <1>4, SameLength
<1> HIDE DEF n, B, ss
<1>6. PICK g : Concatenates(g, Elements, n, ss)
  BY <1>1, <1>2, FlattenSteps
<1>7. /\ g \in [0 .. n -> Seq(Elements)] /\ g[0] = <<>> /\ g[n] = FlattenSeq(ss)
      /\ \A b \in 0 .. n - 1 : g[b + 1] = g[b] \o ss[b + 1]
  BY <1>6 DEF Concatenates
<1> DEFINE f == [b \in 0 .. n |-> Len(g[b])]
<1>8. \A b \in 0 .. n : f[b] = Len(g[b]) /\ Len(g[b]) \in Nat
  BY <1>7
<1>9. ASSUME NEW b \in 0 .. n - 1 PROVE f[b + 1] = f[b] + B[b].count
  <2>1. b \in 0 .. n /\ b + 1 \in 0 .. n /\ b + 1 \in 1 .. n /\ (b + 1) - 1 = b
    BY <1>1
  <2>2. g[b] \in Seq(Elements) /\ ss[b + 1] \in Seq(Elements) /\ ss[b + 1] = B[b].chain
    BY <2>1, <1>2, <1>7
  <2>3. Len(g[b] \o ss[b + 1]) = Len(g[b]) + Len(ss[b + 1])
    BY <2>2, ConcatProperties
  <2>4. B[b].count = Len(B[b].chain)
    BY <1>1
  <2> QED
    BY <2>1, <2>2, <2>3, <2>4, <1>7, <1>8
<1>10. 0 \in 0 .. n /\ n \in 0 .. n
  BY <1>1
<1>11. f[0] = 0 /\ f[n] = Cardinality(X)
  BY <1>5, <1>7, <1>8, <1>10
<1>12. f \in [0 .. n -> Nat]
  BY <1>8
<1> QED
  BY <1>9, <1>11, <1>12 DEF n, B

\* A table whose chains are short enough has fewer elements than twice the threshold allows.
LEMMA FewItems ==
    ASSUME NEW t, NEW X \in SUBSET Elements, Stored(t, X), ShortEnough(t.buckets, t.num_buckets)
    PROVE  Cardinality(X) + 1 <= HASH_BKT_CAPACITY_THRESH * (2 * t.num_buckets)
<1> DEFINE n == t.num_buckets
           B == t.buckets
           T == HASH_BKT_CAPACITY_THRESH
<1>1. n \in Nat \ {0} /\ T \in Nat \ {0}
  BY HashAssumption DEF Stored
<1>2. PICK f : /\ f \in [0 .. n -> Nat] /\ f[0] = 0 /\ f[n] = Cardinality(X)
               /\ \A b \in 0 .. n - 1 : f[b + 1] = f[b] + B[b].count
  BY ChainSteps
<1>3. PICK M : Multiples(M, B, n)
  BY DEF ShortEnough
<1>4. /\ M \in [0 .. n -> Nat] /\ M[0] = 0 /\ M[n] <= n
      /\ \A b \in 0 .. n - 1 : M[b + 1] = M[b] + B[b].expand_mult
  BY <1>3 DEF Multiples
<1>5. \A b \in 0 .. n - 1 : /\ B[b].count \in Nat /\ B[b].expand_mult \in Nat
                            /\ B[b].count <= (B[b].expand_mult + 1) * T
                            /\ B[b].expand_mult # 0 => B[b].count < (B[b].expand_mult + 1) * T
  <2>1. \A b \in 0 .. n - 1 : B[b] \in Bucket
    BY DEF Stored, HasChains
  <2> QED
    BY <2>1 DEF ShortEnough, ShortChains, Bucket
<1> HIDE DEF n, B, T
<1> DEFINE Below(k) == f[k] <= T * (M[k] + k) /\ (M[k] # 0 => f[k] + 1 <= T * (M[k] + k))
           S == {k \in Nat : k <= n => Below(k)}
<1>6. 0 \in S
  BY <1>1, <1>2, <1>4
<1>7. ASSUME NEW k \in Nat, k <= n => Below(k), k + 1 <= n PROVE Below(k + 1)
  <2> DEFINE c == B[k].count
             m == B[k].expand_mult
             a == M[k] + k
  <2>1. k \in 0 .. n - 1 /\ k \in 0 .. n /\ Below(k)
    BY <1>7, <1>1
  <2>2. /\ c \in Nat /\ m \in Nat /\ c <= (m + 1) * T /\ (m # 0 => c < (m + 1) * T)
        /\ f[k + 1] = f[k] + c /\ M[k + 1] = M[k] + m /\ f[k] \in Nat /\ M[k] \in Nat
    BY <2>1, <1>2, <1>4, <1>5
  <2> HIDE DEF c, m
  <2>3. T * (M[k + 1] + (k + 1)) = T * a + (m + 1) * T
    <3>1. M[k + 1] + (k + 1) = a + (m + 1)
      BY <2>2
    <3>2. a \in Nat /\ m + 1 \in Nat /\ T \in Nat
      BY <2>2, <1>1
    <3> HIDE DEF a
    <3> QED
      BY <3>1, <3>2
  <2>4. T * a \in Nat /\ (m + 1) * T \in Nat
    BY <2>2, <1>1
  <2>5. f[k] <= T * a /\ (M[k] # 0 => f[k] + 1 <= T * a)
    BY <2>1
  <2> DEFINE u == T * a
             v == (m + 1) * T
             w == T * (M[k + 1] + (k + 1))
  <2>6. w = u + v /\ u \in Nat /\ v \in Nat
    BY <2>3, <2>4
  <2>7. c <= v /\ (m # 0 => c < v) /\ f[k] <= u /\ (M[k] # 0 => f[k] + 1 <= u)
    BY <2>2, <2>5
  <2> HIDE DEF a, u, v, w
  <2>8. f[k + 1] <= w /\ (M[k + 1] # 0 => f[k + 1] + 1 <= w)
    BY <2>2, <2>6, <2>7
  <2> QED
    BY <2>8 DEF w
<1>8. n \in S
  <2>1. \A k \in Nat : k \in S => k + 1 \in S
    BY <1>7
  <2> HIDE DEF S
  <2> QED
    BY <2>1, <1>1, <1>6, Induction
<1>9. f[n] <= T * (M[n] + n) /\ (M[n] # 0 => f[n] + 1 <= T * (M[n] + n)) /\ f[n] \in Nat /\ M[n] \in Nat
  BY <1>1, <1>2, <1>4, <1>8
<1>10. T * (2 * n) = T * n + T * n /\ T * n \in Nat \ {0}
  <2>1. 2 * n = n + n
    BY <1>1
  <2>2. T * (n + n) = T * n + T * n
    BY <1>1
  <2>3. T * 1 <= T * n
    BY <1>1, Grows
  <2>4. T * 1 = T /\ T * n \in Nat
    BY <1>1
  <2> QED
    BY <2>1, <2>2, <2>3, <2>4, <1>1
<1>11. f[n] + 1 <= T * (2 * n)
  <2>1. CASE M[n] = 0
    BY <2>1, <1>1, <1>9, <1>10
  <2>2. CASE M[n] # 0
    <3>1. T * (M[n] + n) <= T * (2 * n)
      <4>1. M[n] + n <= 2 * n
        BY <1>1, <1>4, <1>9
      <4> QED
        BY <4>1, <1>1, <1>9, Grows
    <3>2. T * (M[n] + n) \in Nat
      BY <1>1, <1>9
    <3> QED
      BY <3>1, <3>2, <2>2, <1>9, <1>10
  <2> QED
    BY <2>1, <2>2
<1> QED
  BY <1>2, <1>11 DEF n, T

\* After doubling, every chain is within its multiple, and the multiples add up to no more than
\* the buckets.
LEMMA RedistributedShort ==
    ASSUME NEW t, NEW X \in SUBSET Elements, Stored(t, X), t.num_items = Cardinality(X), X # {},
           NEW n \in Nat \ {0}, t.num_items <= HASH_BKT_CAPACITY_THRESH * n,
           NEW r, r.num_buckets = n, r.buckets = Redistributed(t, n)
    PROVE  ShortEnough(r.buckets, n)
<1> DEFINE N == t.num_items
           ideal == Ceiling(N, n)
           T == HASH_BKT_CAPACITY_THRESH
           B == r.buckets
<1>1. N \in Nat \ {0} /\ T \in Nat \ {0} /\ IsFiniteSet(X)
  <2>1. IsFiniteSet(X)
    BY HashAssumption, FS_Subset
  <2> QED
    BY <2>1, HashAssumption, FS_CardinalityType, FS_EmptySet
<1>2. HasChains(B, n, X)
  BY <1>1, RedistributedHolds
<1>3. Stored(r, X)
  BY <1>2 DEF Stored
<1>4. \A b \in 0 .. n - 1 : B[b].count \in Nat
                         /\ B[b].expand_mult = IF B[b].count > ideal THEN B[b].count \div ideal ELSE 0
  <2>1. \A b \in 0 .. n - 1 : B[b] \in Bucket
    BY <1>2 DEF HasChains
  <2> QED
    BY <2>1 DEF Redistributed, Bucket
<1>5. ideal \in Nat \ {0} /\ N <= n * ideal /\ ideal <= T
  <2>1. n * T = T * n
    BY <1>1
  <2> QED
    BY <2>1, <1>1, CeilingHolds
<1>6. PICK f : /\ f \in [0 .. n -> Nat] /\ f[0] = 0 /\ f[n] = N
               /\ \A b \in 0 .. n - 1 : f[b + 1] = f[b] + B[b].count
  <2>1. PICK f : /\ f \in [0 .. r.num_buckets -> Nat] /\ f[0] = 0
                 /\ f[r.num_buckets] = Cardinality(X)
                 /\ \A b \in 0 .. r.num_buckets - 1 : f[b + 1] = f[b] + r.buckets[b].count
    BY <1>3, ChainSteps
  <2> QED
    BY <2>1
<1> HIDE DEF N, ideal, T, B
<1>7. \A b \in 0 .. n - 1 : /\ B[b].expand_mult \in Nat
                            /\ ideal * B[b].expand_mult <= B[b].count
                            /\ B[b].count <= (B[b].expand_mult + 1) * ideal
                            /\ B[b].expand_mult # 0 => B[b].count < (B[b].expand_mult + 1) * ideal
  <2> TAKE b \in 0 .. n - 1
  <2> DEFINE c == B[b].count
             m == B[b].expand_mult
  <2>1. c \in Nat /\ m = IF c > ideal THEN c \div ideal ELSE 0
    BY <1>4
  <2> HIDE DEF c, m
  <2>2. CASE c > ideal
    <3>1. m \in Nat /\ ideal * m <= c /\ c < ideal * (m + 1)
      BY <2>1, <2>2, <1>5, Divides
    <3>2. ideal * (m + 1) = (m + 1) * ideal /\ (m + 1) * ideal \in Nat
      BY <3>1, <1>5
    <3> QED
      BY <3>1, <3>2, <2>1 DEF c, m
  <2>3. CASE ~ (c > ideal)
    <3>1. m = 0 /\ ideal * m = 0 /\ (m + 1) * ideal = ideal
      BY <2>1, <2>3, <1>5
    <3> QED
      BY <3>1, <2>1, <2>3, <1>5 DEF c, m
  <2> QED
    BY <2>2, <2>3
<1>8. ShortChains(B, n)
  <2> SUFFICES ASSUME NEW b \in 0 .. n - 1
               PROVE  /\ B[b].count <= (B[b].expand_mult + 1) * T
                      /\ B[b].expand_mult # 0 => B[b].count < (B[b].expand_mult + 1) * T
    BY DEF ShortChains, T
  <2> DEFINE c == B[b].count
             m == B[b].expand_mult
  <2>1. c \in Nat /\ m \in Nat /\ c <= (m + 1) * ideal /\ (m # 0 => c < (m + 1) * ideal)
    BY <1>4, <1>7
  <2> HIDE DEF c, m
  <2>2. (m + 1) * ideal <= (m + 1) * T /\ (m + 1) * ideal \in Nat /\ (m + 1) * T \in Nat
    BY <2>1, <1>1, <1>5, Grows
  <2>3. c <= (m + 1) * T /\ (m # 0 => c < (m + 1) * T)
    BY <2>1, <2>2
  <2> QED
    BY <2>3 DEF c, m
<1> DEFINE step == [p \in (0 .. n - 1) \X Nat |-> p[2] + B[p[1]].expand_mult]
<1>9. StepOn(step, Nat, n)
  BY <1>7 DEF StepOn
<1>10. \A b \in 0 .. n - 1, m \in Nat : step[<<b, m>>] = m + B[b].expand_mult
  OBVIOUS
<1> HIDE DEF step
<1>11. PICK M : Computed(M, Nat, n, 0, step)
  BY <1>9, Recursion
<1>12. M \in [0 .. n -> Nat] /\ M[0] = 0
  BY <1>11 DEF Computed
<1>13. \A b \in 0 .. n - 1 : M[b + 1] = M[b] + B[b].expand_mult
  <2>1. \A b \in 0 .. n - 1 : b \in 0 .. n /\ M[b] \in Nat
    BY <1>12
  <2>2. \A b \in 0 .. n - 1 : M[b + 1] = step[<<b, M[b]>>]
    BY <1>11 DEF Computed
  <2> QED
    BY <2>1, <2>2, <1>10
<1> DEFINE S == {k \in Nat : k <= n => ideal * M[k] <= f[k]}
<1>14. 0 \in S
  BY <1>5, <1>6, <1>12
<1>15. ASSUME NEW k \in Nat, k <= n => ideal * M[k] <= f[k], k + 1 <= n
       PROVE  ideal * M[k + 1] <= f[k + 1]
  <2> DEFINE c == B[k].count
             m == B[k].expand_mult
  <2>1. k \in 0 .. n - 1 /\ k \in 0 .. n /\ ideal * M[k] <= f[k]
    BY <1>15
  <2>2. /\ c \in Nat /\ m \in Nat /\ ideal * m <= c /\ f[k] \in Nat /\ M[k] \in Nat
        /\ f[k + 1] = f[k] + c /\ M[k + 1] = M[k] + m
    BY <2>1, <1>4, <1>6, <1>7, <1>12, <1>13
  <2> HIDE DEF c, m
  <2>3. ideal * (M[k] + m) = ideal * M[k] + ideal * m /\ ideal * M[k] \in Nat /\ ideal * m \in Nat
    BY <2>2, <1>5
  <2> QED
    BY <2>1, <2>2, <2>3
<1>16. n \in S
  <2>1. \A k \in Nat : k \in S => k + 1 \in S
    BY <1>15
  <2> HIDE DEF S
  <2> QED
    BY <2>1, <1>14, Induction
<1>17. M[n] <= n
  <2>1. M[n] \in Nat /\ ideal * M[n] <= N
    BY <1>6, <1>12, <1>16
  <2>2. n * ideal = ideal * n /\ ideal * n \in Nat /\ ideal * M[n] \in Nat
    BY <2>1, <1>5
  <2>3. ideal * M[n] <= ideal * n
    BY <2>1, <2>2, <1>1, <1>5
  <2> QED
    BY <2>1, <2>3, <1>5, Cancels
<1>18. Multiples(M, B, n)
  BY <1>12, <1>13, <1>17 DEF Multiples
<1> QED
  BY <1>8, <1>18 DEF ShortEnough, B

\* Nothing but the buckets differs.
SameOrder(r, t) == r.head = t.head /\ r.tail = t.tail /\ r.next = t.next /\ r.prev = t.prev
Kept(r, t) == SameOrder(r, t) /\ r.num_items = t.num_items /\ r.bloom = t.bloom

ExpansionOK(t) == t.noexpand \/ ShortEnough(t.buckets, t.num_buckets)

\* HASH_EXPAND_BUCKETS keeps what is stored, and the bound of the chains.
LEMMA ExpandHolds ==
    ASSUME NEW t \in Tables, NEW X \in SUBSET Elements, Stored(t, X),
           t.num_items = Cardinality(X), X # {},
           t.num_items <= HASH_BKT_CAPACITY_THRESH * (2 * t.num_buckets)
    PROVE  LET r == HASH_EXPAND_BUCKETS(t)
           IN r \in Tables /\ Kept(r, t) /\ Stored(r, X) /\ ExpansionOK(r)
<1> DEFINE r == HASH_EXPAND_BUCKETS(t)
           n == 2 * t.num_buckets
           B == Redistributed(t, n)
           ineff == IF NonidealItems(B, Ceiling(t.num_items, n)) > t.num_items \div 2
                    THEN t.ineff_expands + 1 ELSE 0
<1>1. n \in Nat \ {0}
  BY DEF Stored
<1>2. t.num_items \in Nat \ {0}
  <2>1. IsFiniteSet(X)
    BY HashAssumption, FS_Subset
  <2> QED
    BY <2>1, FS_CardinalityType, FS_EmptySet
<1>3. HasChains(B, n, X)
  BY <1>1, <1>2, RedistributedHolds
<1>4. B \in [0 .. n - 1 -> Bucket]
  BY <1>3 DEF HasChains
<1>5. B \in Buckets
  BY <1>1, <1>4 DEF Buckets
<1>6. r = [t EXCEPT !.num_buckets = n, !.buckets = B,
                    !.ineff_expands = ineff, !.noexpand = @ \/ ineff > 1]
  BY DEF HASH_EXPAND_BUCKETS
<1>7. ineff \in Nat
  BY DEF Tables
<1> HIDE DEF r, B, ineff, n
<1>8. r \in Tables /\ Kept(r, t) /\ r.num_buckets = n /\ r.buckets = B
  BY <1>1, <1>5, <1>6, <1>7 DEF Tables, Kept, SameOrder
<1>9. Stored(r, X)
  BY <1>1, <1>3, <1>8 DEF Stored
<1>10. ShortEnough(r.buckets, n)
  BY <1>1, <1>8, RedistributedShort DEF n, B
<1> QED
  BY <1>8, <1>9, <1>10 DEF r, ExpansionOK

\* HASH_ADD_TO_BKT stores x; it doubles the buckets before a chain reaches beyond its bound.
LEMMA AddToBktHolds ==
    ASSUME NEW t \in Tables, NEW X \in SUBSET Elements, NEW x \in Elements, x \notin X,
           Stored(t, X), t.num_items = Cardinality(X) + 1, ExpansionOK(t)
    PROVE  LET r == HASH_ADD_TO_BKT(t, x)
           IN r \in Tables /\ Kept(r, t) /\ Stored(r, X \cup {x}) /\ ExpansionOK(r)
<1> DEFINE n == t.num_buckets
           B == t.buckets
           b == HASH_TO_BKT(x, n)
           chain == <<x>> \o B[b].chain
           C == [B EXCEPT ![b] = [B[b] EXCEPT !.chain = chain, !.count = B[b].count + 1]]
           added == [t EXCEPT !.buckets = C]
           T == HASH_BKT_CAPACITY_THRESH
           full == C[b].count >= (C[b].expand_mult + 1) * T
<1>1. n \in Nat \ {0} /\ HasChains(B, n, X) /\ T \in Nat \ {0}
  BY HashAssumption DEF Stored
<1>2. B \in [0 .. n - 1 -> Bucket] /\ b \in 0 .. n - 1
  BY <1>1, BucketNumber DEF HasChains
<1>3. HASH_ADD_TO_BKT(t, x) = IF full /\ ~t.noexpand THEN HASH_EXPAND_BUCKETS(added) ELSE added
  BY DEF HASH_ADD_TO_BKT
<1>4. \A a \in 0 .. n - 1 : /\ IsInjective(B[a].chain) /\ B[a].count = Len(B[a].chain)
                            /\ Range(B[a].chain) = {y \in X : HASH_TO_BKT(y, n) = a}
  BY <1>1 DEF HasChains
<1>5. B[b].chain \in Seq(Elements) /\ B[b].count \in Nat /\ B[b].expand_mult \in Nat
  BY <1>2 DEF Bucket
<1>6. /\ chain \in Seq(Elements) /\ IsInjective(chain)
      /\ Range(chain) = {x} \cup Range(B[b].chain) /\ Len(chain) = B[b].count + 1
  <2> DEFINE one == <<x>>
  <2>1. one \in Seq(Elements) /\ Len(one) = 1
    OBVIOUS
  <2>2. IsInjective(one) /\ Range(one) = {x}
    BY DEF IsInjective, Range
  <2> HIDE DEF one
  <2>3. Range(one) \cap Range(B[b].chain) = {}
    BY <2>2, <1>2, <1>4
  <2>4. /\ one \o B[b].chain \in Seq(Elements) /\ IsInjective(one \o B[b].chain)
        /\ Range(one \o B[b].chain) = Range(one) \cup Range(B[b].chain)
    BY <2>1, <2>2, <2>3, <1>2, <1>4, <1>5, ConcatRange
  <2>5. Len(one \o B[b].chain) = Len(one) + Len(B[b].chain)
    BY <2>1, <1>5, ConcatProperties
  <2> QED
    BY <2>1, <2>2, <2>4, <2>5, <1>2, <1>4, <1>5 DEF one
<1> HIDE DEF chain
<1>7. /\ C \in [0 .. n - 1 -> Bucket] /\ C[b].chain = chain /\ C[b].count = B[b].count + 1
      /\ \A a \in 0 .. n - 1 : C[a].expand_mult = B[a].expand_mult
      /\ \A a \in 0 .. n - 1 : a # b => C[a] = B[a]
  <2>1. [B[b] EXCEPT !.chain = chain, !.count = B[b].count + 1] \in Bucket
    <3> HIDE DEF C, B, b, n, full
    <3>1. B[b] \in Bucket /\ B[b].count + 1 \in Nat
      BY <1>2, <1>5
    <3> QED
      BY <3>1, <1>6 DEF Bucket
  <2>2. B[b] \in Bucket
    BY <1>2
  <2> QED
    BY <2>1, <2>2, <1>2, <1>5 DEF Bucket
<1>8. added \in Tables /\ Kept(added, t) /\ added.num_buckets = n /\ added.buckets = C
      /\ added.noexpand = t.noexpand
  <2>1. C \in Buckets
    BY <1>1, <1>7 DEF Buckets
  <2> HIDE DEF C
  <2> QED
    BY <2>1 DEF Tables, Kept, SameOrder
<1>9. Stored(added, X \cup {x})
  <2>1. \A a \in 0 .. n - 1 : /\ IsInjective(C[a].chain) /\ C[a].count = Len(C[a].chain)
                              /\ Range(C[a].chain) = {y \in X \cup {x} : HASH_TO_BKT(y, n) = a}
    <3> TAKE a \in 0 .. n - 1
    <3>1. CASE a = b
      BY <3>1, <1>2, <1>4, <1>6, <1>7
    <3>2. CASE a # b
      BY <3>2, <1>2, <1>4, <1>7
    <3> QED
      BY <3>1, <3>2
  <2> HIDE DEF C, n, added
  <2> QED
    BY <2>1, <1>1, <1>7, <1>8 DEF Stored, HasChains
<1>10. Cardinality(X \cup {x}) = Cardinality(X) + 1
  BY HashAssumption, FS_Subset, FS_AddElement
<1>11. CASE full /\ ~t.noexpand
  <2>1. Cardinality(X) + 1 <= T * (2 * n)
    <3>1. ShortEnough(t.buckets, t.num_buckets)
      BY <1>11 DEF ExpansionOK
    <3> QED
      BY <3>1, FewItems
  <2> DEFINE r == HASH_EXPAND_BUCKETS(added)
  <2>2. r \in Tables /\ Kept(r, added) /\ Stored(r, X \cup {x}) /\ ExpansionOK(r)
    <3>1. added.num_items = Cardinality(X \cup {x}) /\ X \cup {x} # {} /\ X \cup {x} \in SUBSET Elements
      BY <1>8, <1>10 DEF Kept
    <3>2. added.num_items <= HASH_BKT_CAPACITY_THRESH * (2 * added.num_buckets)
      BY <2>1, <1>8, <1>10, <3>1
    <3> HIDE DEF added, C
    <3> QED
      BY <3>1, <3>2, <1>8, <1>9, ExpandHolds
  <2> HIDE DEF r, added
  <2>3. Kept(r, t)
    BY <2>2, <1>8 DEF Kept, SameOrder
  <2> QED
    BY <2>2, <2>3, <1>3, <1>11 DEF r
<1>12. CASE ~ (full /\ ~t.noexpand)
  <2>1. ExpansionOK(added)
    <3> SUFFICES ASSUME ~t.noexpand PROVE ShortEnough(C, n)
      BY <1>8 DEF ExpansionOK
    <3>1. ShortEnough(B, n) /\ ~full
      BY <1>12 DEF ExpansionOK
    <3>2. ShortChains(C, n)
      <4> SUFFICES ASSUME NEW a \in 0 .. n - 1
                   PROVE  /\ C[a].count <= (C[a].expand_mult + 1) * T
                          /\ C[a].expand_mult # 0 => C[a].count < (C[a].expand_mult + 1) * T
        BY DEF ShortChains
      <4>1. CASE a = b
        <5>1. ~ (C[b].count >= (C[b].expand_mult + 1) * T) /\ C[b].count \in Nat /\ C[b].expand_mult \in Nat
          BY <3>1, <1>2, <1>5, <1>7
        <5>2. (C[b].expand_mult + 1) * T \in Nat
          BY <5>1, <1>1
        <5> HIDE DEF C, T
        <5> QED
          BY <5>1, <5>2, <4>1
      <4>2. CASE a # b
        BY <4>2, <3>1, <1>7 DEF ShortEnough, ShortChains
      <4> QED
        BY <4>1, <4>2
    <3>3. PICK M : Multiples(M, B, n)
      BY <3>1 DEF ShortEnough
    <3>4. Multiples(M, C, n)
      <4> HIDE DEF C
      <4> QED
        BY <3>3, <1>7 DEF Multiples
    <3> QED
      BY <3>2, <3>4 DEF ShortEnough
  <2> HIDE DEF added, full
  <2> QED
    BY <2>1, <1>3, <1>8, <1>9, <1>12
<1> QED
  BY <1>11, <1>12

\* HASH_DEL_IN_BKT takes x out of its chain.
LEMMA DelInBktHolds ==
    ASSUME NEW t \in Tables, NEW X \in SUBSET Elements, NEW x \in X, Stored(t, X), ExpansionOK(t)
    PROVE  LET r == HASH_DEL_IN_BKT(t, x)
           IN r \in Tables /\ Kept(r, t) /\ Stored(r, X \ {x}) /\ ExpansionOK(r)
<1> DEFINE n == t.num_buckets
           B == t.buckets
           b == HASH_TO_BKT(x, n)
           old == B[b].chain
           chain == RemoveAt(old, CHOOSE m \in DOMAIN old : old[m] = x)
           C == [B EXCEPT ![b] = [B[b] EXCEPT !.chain = chain, !.count = B[b].count - 1]]
           r == [t EXCEPT !.buckets = C]
           T == HASH_BKT_CAPACITY_THRESH
<1>1. n \in Nat \ {0} /\ HasChains(B, n, X) /\ T \in Nat \ {0}
  BY HashAssumption DEF Stored
<1>2. B \in [0 .. n - 1 -> Bucket] /\ b \in 0 .. n - 1
  BY <1>1, BucketNumber DEF HasChains
<1>3. HASH_DEL_IN_BKT(t, x) = r
  BY DEF HASH_DEL_IN_BKT
<1>4. \A a \in 0 .. n - 1 : /\ IsInjective(B[a].chain) /\ B[a].count = Len(B[a].chain)
                            /\ Range(B[a].chain) = {y \in X : HASH_TO_BKT(y, n) = a}
  BY <1>1 DEF HasChains
<1>5. old \in Seq(Elements) /\ B[b].count \in Nat /\ B[b].expand_mult \in Nat
  BY <1>2 DEF Bucket
<1>6. /\ chain \in Seq(Elements) /\ IsInjective(chain)
      /\ Range(chain) = Range(old) \ {x} /\ Len(chain) = B[b].count - 1 /\ Len(chain) \in Nat
  <2> DEFINE m == CHOOSE m \in DOMAIN old : old[m] = x
  <2>1. IsInjective(old) /\ x \in Range(old) /\ B[b].count = Len(old)
    BY <1>2, <1>4
  <2>2. \E k \in 1 .. Len(old) : old[k] = x
    BY <2>1, <1>5, RangeMembers
  <2>3. m \in 1 .. Len(old) /\ old[m] = x
    BY <2>2, <1>5
  <2> HIDE DEF m, old
  <2>4. RemoveAt(old, m) \in Seq(Elements) /\ Len(RemoveAt(old, m)) = Len(old) - 1
    BY <2>3, <1>5, RemoveAtHolds
  <2>5. IsInjective(RemoveAt(old, m)) /\ Range(RemoveAt(old, m)) = Range(old) \ {old[m]}
    BY <2>1, <2>3, <1>5, RemoveAtMembers
  <2>6. Len(RemoveAt(old, m)) \in Nat
    BY <2>4
  <2> QED
    BY <2>1, <2>3, <2>4, <2>5, <2>6 DEF m
<1> HIDE DEF chain
<1>7. /\ C \in [0 .. n - 1 -> Bucket] /\ C[b].chain = chain /\ C[b].count = B[b].count - 1
      /\ \A a \in 0 .. n - 1 : C[a].expand_mult = B[a].expand_mult
      /\ \A a \in 0 .. n - 1 : a # b => C[a] = B[a]
  BY <1>2, <1>5, <1>6 DEF Bucket
<1>8. r \in Tables /\ Kept(r, t) /\ r.num_buckets = n /\ r.buckets = C /\ r.noexpand = t.noexpand
  <2>1. C \in Buckets
    BY <1>1, <1>7 DEF Buckets
  <2> HIDE DEF C
  <2> QED
    BY <2>1 DEF Tables, Kept, SameOrder
<1>9. Stored(r, X \ {x})
  <2>1. \A a \in 0 .. n - 1 : /\ IsInjective(C[a].chain) /\ C[a].count = Len(C[a].chain)
                              /\ Range(C[a].chain) = {y \in X \ {x} : HASH_TO_BKT(y, n) = a}
    <3> TAKE a \in 0 .. n - 1
    <3>1. CASE a = b
      BY <3>1, <1>2, <1>4, <1>6, <1>7
    <3>2. CASE a # b
      BY <3>2, <1>2, <1>4, <1>7
    <3> QED
      BY <3>1, <3>2
  <2> HIDE DEF C, n, r
  <2> QED
    BY <2>1, <1>1, <1>7, <1>8 DEF Stored, HasChains
<1>10. ExpansionOK(r)
  <2> SUFFICES ASSUME ~t.noexpand PROVE ShortEnough(C, n)
    BY <1>8 DEF ExpansionOK
  <2>1. ShortEnough(B, n)
    BY DEF ExpansionOK
  <2>2. ShortChains(C, n)
    <3> SUFFICES ASSUME NEW a \in 0 .. n - 1
                 PROVE  /\ C[a].count <= (C[a].expand_mult + 1) * T
                        /\ C[a].expand_mult # 0 => C[a].count < (C[a].expand_mult + 1) * T
      BY DEF ShortChains
    <3>1. /\ B[a].count <= (B[a].expand_mult + 1) * T
          /\ B[a].expand_mult # 0 => B[a].count < (B[a].expand_mult + 1) * T
      BY <2>1 DEF ShortEnough, ShortChains
    <3>2. CASE a = b
      <4>1. B[b].count \in Nat /\ (B[b].expand_mult + 1) * T \in Nat /\ C[b].expand_mult = B[b].expand_mult
        BY <1>1, <1>2, <1>5, <1>7
      <4> HIDE DEF C, T
      <4> QED
        BY <4>1, <3>1, <3>2, <1>7
    <3>3. CASE a # b
      BY <3>1, <3>3, <1>7
    <3> QED
      BY <3>2, <3>3
  <2>3. PICK M : Multiples(M, B, n)
    BY <2>1 DEF ShortEnough
  <2>4. Multiples(M, C, n)
    <3> HIDE DEF C
    <3> QED
      BY <2>3, <1>7 DEF Multiples
  <2> QED
    BY <2>2, <2>4 DEF ShortEnough
<1> HIDE DEF r
<1> QED
  BY <1>3, <1>8, <1>9, <1>10

-----------------------------------------------------------------------------
(* Sound tables.                                                           *)

\* The Bloom filter lets the elements X pass.
Sieved(t, X) == \A x \in X : HASH_BLOOM_TEST(t, hashv[x])
KeysDiffer(X) == \A x, y \in X : KeyOf[x] = KeyOf[y] => x = y

\* The buckets of t hold the elements X.
Contents(t, X) ==
    /\ t.buckets \in [0 .. t.num_buckets - 1 -> Bucket]
    /\ t.num_items = Cardinality(X)
    /\ X # {} => Stored(t, X) /\ Sieved(t, X)
    /\ KeysDiffer(X)
    /\ ExpansionOK(t)

\* t holds the elements of s, in this order.
Sound(t, s) == t \in Tables /\ Listed(t, s) /\ Contents(t, Range(s))

\* Min returns the smallest of a set that has members.
LEMMA MinHolds ==
    ASSUME NEW S, S \subseteq Nat, S # {}
    PROVE  Min(S) \in S /\ \A n \in S : Min(S) <= n
<1>1. \E n \in S : \A m \in S : n <= m
  BY Smallest
<1> QED
  BY <1>1 DEF Min

\* HASH_FIND returns the element that has the key, or NULL.
LEMMA FindHolds ==
    ASSUME NEW t \in Tables, NEW X \in SUBSET Elements, Contents(t, X), t.head = NULL <=> X = {},
           NEW x \in Elements
    PROVE  /\ (\A y \in X : KeyOf[y] # KeyOf[x]) => HASH_FIND(t, x) = NULL
           /\ \A y \in X : KeyOf[y] = KeyOf[x] => HASH_FIND(t, x) = y
<1>1. CASE X = {}
  BY <1>1 DEF HASH_FIND
<1>2. CASE X # {}
  <2> DEFINE n == t.num_buckets
             b == HASH_TO_BKT(x, n)
             chain == t.buckets[b].chain
             found == {k \in DOMAIN chain : hashv[chain[k]] = hashv[x] /\ KeyOf[chain[k]] = KeyOf[x]}
  <2>1. Stored(t, X) /\ Sieved(t, X) /\ KeysDiffer(X)
    BY <1>2 DEF Contents
  <2>2. n \in Nat \ {0} /\ HasChains(t.buckets, n, X)
    BY <2>1 DEF Stored
  <2>3. b \in 0 .. n - 1
    BY <2>2, BucketNumber
  <2>4. Range(chain) = {y \in X : HASH_TO_BKT(y, n) = b} /\ t.buckets[b] \in Bucket
    BY <2>2, <2>3 DEF HasChains
  <2>5. chain \in Seq(Elements)
    BY <2>4 DEF Bucket
  <2>6. HASH_FIND(t, x) = IF ~HASH_BLOOM_TEST(t, hashv[x]) THEN NULL
                          ELSE IF found = {} THEN NULL ELSE chain[Min(found)]
    BY <1>2 DEF HASH_FIND
  <2>7. \A y \in Range(chain) : y \in Elements /\ \E k \in 1 .. Len(chain) : chain[k] = y
    BY <2>5, RangeMembers
  <2>8. \A k \in 1 .. Len(chain) : chain[k] \in Range(chain)
    BY <2>5, RangeMembers
  <2>9. found = {k \in 1 .. Len(chain) : hashv[chain[k]] = hashv[x] /\ KeyOf[chain[k]] = KeyOf[x]}
    BY <2>5
  <2> HIDE DEF chain, found, b
  <2>10. found \subseteq Nat
    BY <2>9
  <2>11. \A k \in found : chain[k] \in X /\ KeyOf[chain[k]] = KeyOf[x]
    BY <2>4, <2>8, <2>9
  <2>12. ASSUME \A y \in X : KeyOf[y] # KeyOf[x] PROVE HASH_FIND(t, x) = NULL
    <3>1. found = {}
      BY <2>11, <2>12
    <3> QED
      BY <3>1, <2>6
  <2>13. ASSUME NEW y \in X, KeyOf[y] = KeyOf[x] PROVE HASH_FIND(t, x) = y
    <3>1. hashv[y] = hashv[x]
      BY <2>13, HashAssumption
    <3>2. HASH_BLOOM_TEST(t, hashv[x])
      BY <3>1, <2>1 DEF Sieved
    <3>3. HASH_TO_BKT(y, n) = b
      BY <3>1 DEF HASH_TO_BKT, b
    <3>4. y \in Range(chain)
      BY <3>3, <2>4
    <3>5. found # {}
      BY <3>1, <3>4, <2>7, <2>9, <2>13
    <3>6. Min(found) \in found
      BY <3>5, <2>10, MinHolds
    <3>7. chain[Min(found)] = y
      BY <3>6, <2>1, <2>11, <2>13 DEF KeysDiffer
    <3> QED
      BY <3>2, <3>5, <3>7, <2>6
  <2> QED
    BY <2>12, <2>13
<1> QED
  BY <1>1, <1>2

\* Counted: x is stored and counted, and passes the filter.
LEMMA CountedHolds ==
    ASSUME NEW t \in Tables, NEW X \in SUBSET Elements, NEW x \in Elements, x \notin X,
           Stored(t, X), Sieved(t, X), t.num_items = Cardinality(X), ExpansionOK(t),
           KeysDiffer(X \cup {x})
    PROVE  LET r == Counted(t, x)
           IN r \in Tables /\ SameOrder(r, t) /\ Contents(r, X \cup {x})
<1> DEFINE counted == [t EXCEPT !.num_items = @ + 1]
           q == HASH_ADD_TO_BKT(counted, x)
           r == HASH_BLOOM_ADD(q, x)
<1>1. /\ counted \in Tables /\ SameOrder(counted, t) /\ counted.num_items = Cardinality(X) + 1
      /\ counted.bloom = t.bloom /\ counted.buckets = t.buckets /\ counted.num_buckets = t.num_buckets
      /\ counted.noexpand = t.noexpand
  BY DEF Tables, SameOrder
<1> HIDE DEF counted
<1>2. Stored(counted, X) /\ ExpansionOK(counted)
  BY <1>1 DEF Stored, ExpansionOK
<1>3. q \in Tables /\ Kept(q, counted) /\ Stored(q, X \cup {x}) /\ ExpansionOK(q)
  BY <1>1, <1>2, AddToBktHolds
<1> HIDE DEF q
<1>4. hashv[x] \in Nat /\ BLOOM_BITLEN \in Nat
  BY HashAssumption
<1>5. /\ r \in Tables /\ SameOrder(r, q) /\ r.num_items = q.num_items
      /\ r.buckets = q.buckets /\ r.num_buckets = q.num_buckets /\ r.noexpand = q.noexpand
      /\ BLOOM_BITLEN # 0 => r.bloom = q.bloom \cup {hashv[x] % BLOOM_BITLEN}
  <2>1. CASE BLOOM_BITLEN = 0
    BY <2>1, <1>3 DEF HASH_BLOOM_ADD, SameOrder
  <2>2. CASE BLOOM_BITLEN # 0
    <3>1. hashv[x] % BLOOM_BITLEN \in Nat
      BY <2>2, <1>4, Divides
    <3> QED
      BY <3>1, <2>2, <1>3 DEF HASH_BLOOM_ADD, SameOrder, Tables
  <2> QED
    BY <2>1, <2>2
<1>6. Counted(t, x) = r
  BY DEF Counted, counted, q
<1> HIDE DEF r
<1>7. SameOrder(r, t)
  BY <1>1, <1>3, <1>5 DEF Kept, SameOrder
<1>8. Sieved(r, X \cup {x})
  BY <1>1, <1>3, <1>5 DEF Sieved, HASH_BLOOM_TEST, Kept
<1>9. Stored(r, X \cup {x}) /\ ExpansionOK(r)
  BY <1>3, <1>5 DEF Stored, ExpansionOK
<1>10. r.num_items = Cardinality(X \cup {x})
  <2>1. Cardinality(X \cup {x}) = Cardinality(X) + 1
    BY HashAssumption, FS_Subset, FS_AddElement
  <2> QED
    BY <2>1, <1>1, <1>3, <1>5 DEF Kept
<1>11. r.buckets \in [0 .. r.num_buckets - 1 -> Bucket]
  BY <1>9 DEF Stored, HasChains
<1> QED
  BY <1>5, <1>6, <1>7, <1>8, <1>9, <1>10, <1>11 DEF Contents

\* What leaves the links alone leaves the list alone.
LEMMA SameOrderListed ==
    ASSUME NEW t, NEW s, Listed(t, s), NEW r, SameOrder(r, t)
    PROVE  Listed(r, s)
  BY DEF Listed, SameOrder

\* A table just made can take its first element.
LEMMA MadeTableEmpty ==
    ASSUME NEW t \in Tables, NEW x \in Elements
    PROVE  LET r == HASH_MAKE_TABLE(t, x)
           IN /\ r \in Tables /\ Listed(r, <<x>>) /\ Stored(r, {}) /\ Sieved(r, {})
              /\ r.num_items = Cardinality({}) /\ ExpansionOK(r)
<1> DEFINE r == HASH_MAKE_TABLE(t, x)
           n == HASH_INITIAL_NUM_BUCKETS
<1>1. /\ r \in Tables /\ Listed(r, <<x>>) /\ r.num_items = 0 /\ r.num_buckets = n
      /\ r.buckets = [b \in 0 .. n - 1 |-> NoBuckets]
  BY MakeTableHolds
<1>2. n \in Nat \ {0} /\ HASH_BKT_CAPACITY_THRESH \in Nat \ {0}
  BY HashAssumption
<1> HIDE DEF r
<1>3. \A b \in 0 .. n - 1 : r.buckets[b] = NoBuckets
  BY <1>1
<1>4. NoBuckets \in Bucket
  BY DEF NoBuckets, Bucket
<1>5. /\ IsInjective(NoBuckets.chain) /\ NoBuckets.count = Len(NoBuckets.chain) /\ Range(NoBuckets.chain) = {}
      /\ NoBuckets.count = 0 /\ NoBuckets.expand_mult = 0
  <2>1. NoBuckets.chain = <<>> /\ DOMAIN <<>> = {} /\ NoBuckets.count = 0 /\ NoBuckets.expand_mult = 0
    BY DEF NoBuckets
  <2> QED
    BY <2>1 DEF IsInjective, Range
<1>6. Stored(r, {})
  BY <1>1, <1>2, <1>3, <1>4, <1>5 DEF Stored, HasChains
<1>7. ShortEnough(r.buckets, r.num_buckets)
  <2>1. ShortChains(r.buckets, n)
    BY <1>2, <1>3, <1>5 DEF ShortChains
  <2>2. Multiples([k \in 0 .. n |-> 0], r.buckets, n)
    BY <1>2, <1>3, <1>5 DEF Multiples
  <2> QED
    BY <2>1, <2>2, <1>1 DEF ShortEnough
<1>8. Cardinality({}) = 0
  BY FS_EmptySet
<1> QED
  BY <1>1, <1>6, <1>7, <1>8 DEF Sieved, ExpansionOK, r

\* The instance has its own names for the library operators.
LEMMA OrderedOperators ==
    /\ \A S : Ordered!Min(S) = Min(S)
    /\ \A s, n, x : Ordered!InsertAt(s, n, x) = InsertAt(s, n, x)
    /\ \A s, n : Ordered!RemoveAt(s, n) = RemoveAt(s, n)
    /\ \A s : Ordered!Range(s) = Range(s)
  BY DEF Ordered!Min, Min, Ordered!InsertAt, InsertAt, Ordered!RemoveAt, RemoveAt, Ordered!Range, Range

\* What a sound table says of the emptiness of its order.
LEMMA EmptySound ==
    ASSUME NEW t, NEW s, Sound(t, s)
    PROVE  /\ s \in Seq(Elements) /\ IsInjective(s) /\ Len(s) \in Nat
           /\ Range(s) \in SUBSET Elements
           /\ (Range(s) = {} <=> Len(s) = 0) /\ (t.head = NULL <=> Len(s) = 0)
<1>1. s \in Seq(Elements) /\ IsInjective(s)
  BY DEF Sound, Listed
<1>2. /\ \A n \in 1 .. Len(s) : s[n] \in Range(s) /\ s[n] \in Elements
      /\ \A x \in Range(s) : x \in Elements /\ \E n \in 1 .. Len(s) : s[n] = x
  BY <1>1, RangeMembers
<1>3. Len(s) \in Nat
  BY <1>1
<1>4. Range(s) = {} <=> Len(s) = 0
  BY <1>2, <1>3
<1>5. t.head = IF Len(s) = 0 THEN NULL ELSE s[1]
  BY DEF Sound, Listed, First
<1>6. t.head = NULL <=> Len(s) = 0
  <2>1. Len(s) # 0 => s[1] \in Elements
    BY <1>2, <1>3
  <2> QED
    BY <2>1, <1>5, HashAssumption
<1> QED
  BY <1>1, <1>2, <1>3, <1>4, <1>6

\* HASH_ADD appends.
LEMMA AddHolds ==
    ASSUME NEW t, NEW s, Sound(t, s), NEW x \in Elements, x \notin Range(s),
           KeysDiffer(Range(s) \cup {x})
    PROVE  /\ Sound(HASH_ADD(t, x), Append(s, x))
           /\ Range(Append(s, x)) = Range(s) \cup {x}
<1> DEFINE X == Range(s)
<1>1. /\ s \in Seq(Elements) /\ X \in SUBSET Elements
      /\ (X = {} <=> Len(s) = 0) /\ (t.head = NULL <=> Len(s) = 0)
  BY EmptySound
<1>2. t \in Tables /\ Listed(t, s) /\ Contents(t, X)
  BY DEF Sound
<1>3. CASE Len(s) = 0
  <2> DEFINE m == HASH_MAKE_TABLE(t, x)
             r == Counted(m, x)
  <2>1. /\ m \in Tables /\ Listed(m, <<x>>) /\ Stored(m, {}) /\ Sieved(m, {})
        /\ m.num_items = Cardinality({}) /\ ExpansionOK(m)
    BY <1>2, MadeTableEmpty
  <2>2. X = {} /\ s = <<>>
    BY <1>1, <1>3
  <2>3. HASH_ADD(t, x) = r
    BY <1>1, <1>3 DEF HASH_ADD
  <2> HIDE DEF m
  <2>4. r \in Tables /\ SameOrder(r, m) /\ Contents(r, X \cup {x})
    BY <2>1, <2>2, CountedHolds
  <2> HIDE DEF r
  <2>5. Listed(r, <<x>>)
    BY <2>1, <2>4, SameOrderListed
  <2>6. Append(s, x) = <<x>> /\ Range(<<x>>) = {x}
    BY <2>2 DEF Range
  <2> QED
    BY <2>2, <2>3, <2>4, <2>5, <2>6 DEF Sound
<1>4. CASE Len(s) # 0
  <2> DEFINE m == HASH_APPEND_LIST(t, x)
             r == Counted(m, x)
  <2>1. m \in Tables /\ SameBuckets(m, t) /\ Listed(m, Append(s, x)) /\ Range(Append(s, x)) = X \cup {x}
    BY <1>2, <1>4, AppendListHolds
  <2>2. HASH_ADD(t, x) = r
    BY <1>1, <1>4 DEF HASH_ADD
  <2> HIDE DEF m
  <2>3. Stored(m, X) /\ Sieved(m, X) /\ m.num_items = Cardinality(X) /\ ExpansionOK(m)
    <3>1. Stored(t, X) /\ Sieved(t, X) /\ t.num_items = Cardinality(X) /\ ExpansionOK(t)
      BY <1>1, <1>2, <1>4 DEF Contents
    <3> QED
      BY <3>1, <2>1 DEF SameBuckets, Stored, Sieved, HASH_BLOOM_TEST, ExpansionOK
  <2>4. r \in Tables /\ SameOrder(r, m) /\ Contents(r, X \cup {x})
    BY <2>1, <2>3, <1>1, CountedHolds
  <2> HIDE DEF r
  <2>5. Listed(r, Append(s, x))
    BY <2>1, <2>4, SameOrderListed
  <2> QED
    BY <2>1, <2>2, <2>4, <2>5 DEF Sound
<1> QED
  BY <1>3, <1>4, <1>1

\* Inserting behind the last is appending.
LEMMA InsertAtEnd ==
    ASSUME NEW s \in Seq(Elements), NEW x \in Elements
    PROVE  InsertAt(s, Len(s) + 1, x) = Append(s, x)
<1> DEFINE L == Len(s)
           u == InsertAt(s, L + 1, x)
<1>1. L \in Nat /\ L + 1 \in 1 .. L + 1
  OBVIOUS
<1>2. /\ u \in Seq(Elements) /\ Len(u) = L + 1
      /\ \A n \in 1 .. L + 1 : u[n] = IF n < L + 1 THEN s[n] ELSE IF n = L + 1 THEN x ELSE s[n - 1]
  BY <1>1, InsertAtHolds
<1> HIDE DEF u
<1>3. \A n \in 1 .. Len(u) : u[n] = Append(s, x)[n]
  BY <1>1, <1>2
<1>4. Append(s, x) \in Seq(Elements) /\ Len(Append(s, x)) = L + 1
  OBVIOUS
<1> QED
  BY <1>2, <1>3, <1>4 DEF u

\* HASH_ADD_INORDER inserts before the first element that is greater.
LEMMA AddInorderHolds ==
    ASSUME NEW t, NEW s, Sound(t, s), NEW x \in Elements, x \notin Range(s),
           KeysDiffer(Range(s) \cup {x})
    PROVE  Sound(HASH_ADD_INORDER(t, x), Ordered!Inserted(s, x))
<1> DEFINE X == Range(s)
           greater == {n \in DOMAIN s : Rank[s[n]] > Rank[x]}
           place == IF greater = {} THEN Len(s) + 1 ELSE Min(greater)
<1>1. /\ s \in Seq(Elements) /\ IsInjective(s) /\ Len(s) \in Nat /\ X \in SUBSET Elements
      /\ (X = {} <=> Len(s) = 0) /\ (t.head = NULL <=> Len(s) = 0)
  BY EmptySound
<1>2. t \in Tables /\ Listed(t, s) /\ Contents(t, X)
  BY DEF Sound
<1>3. Ordered!Inserted(s, x) = InsertAt(s, place, x)
  BY OrderedOperators DEF Ordered!Inserted
<1>4. AppOrder(t) = s
  BY <1>2, AppOrderOfList DEF Tables
<1>5. DOMAIN s = 1 .. Len(s)
  BY <1>1
<1>6. HASH_AKBI_INNER_LOOP(t, x) = IF greater = {} THEN NULL ELSE s[Min(greater)]
  BY <1>4 DEF HASH_AKBI_INNER_LOOP
<1>7. greater # {} => Min(greater) \in greater
  <2>1. greater \subseteq Nat
    BY <1>5
  <2> HIDE DEF greater
  <2> QED
    BY <2>1, MinHolds
<1>8. CASE greater = {}
  <2>1. HASH_AKBI_INNER_LOOP(t, x) = NULL /\ Ordered!Inserted(s, x) = Append(s, x)
    BY <1>1, <1>3, <1>6, <1>8, InsertAtEnd
  <2>2. HASH_ADD_INORDER(t, x) = HASH_ADD(t, x)
    BY <2>1 DEF HASH_ADD_INORDER, HASH_ADD
  <2>3. Sound(HASH_ADD(t, x), Append(s, x))
    BY AddHolds
  <2> QED
    BY <2>1, <2>2, <2>3
<1>9. CASE greater # {}
  <2> DEFINE p == Min(greater)
             u == InsertAt(s, p, x)
             m == InsertBefore(t, x, s[p])
             r == Counted(m, x)
  <2>1. p \in 1 .. Len(s) /\ s[p] \in Elements
    BY <1>1, <1>5, <1>7, <1>9
  <2>2. Len(s) # 0
    BY <2>1, <1>1
  <2>3. HASH_ADD_INORDER(t, x) = r /\ Ordered!Inserted(s, x) = u
    <3>1. s[p] # NULL
      BY <2>1, HashAssumption
    <3> QED
      BY <3>1, <2>2, <1>1, <1>3, <1>6, <1>9 DEF HASH_ADD_INORDER
  <2> HIDE DEF p, greater
  <2>4. m \in Tables /\ SameBuckets(m, t) /\ Listed(m, u) /\ Range(u) = X \cup {x}
    BY <2>1, <1>2, InsertBeforeHolds
  <2> HIDE DEF m, u
  <2>5. Stored(m, X) /\ Sieved(m, X) /\ m.num_items = Cardinality(X) /\ ExpansionOK(m)
    <3>1. Stored(t, X) /\ Sieved(t, X) /\ t.num_items = Cardinality(X) /\ ExpansionOK(t)
      BY <2>2, <1>1, <1>2 DEF Contents
    <3> QED
      BY <3>1, <2>4 DEF SameBuckets, Stored, Sieved, HASH_BLOOM_TEST, ExpansionOK
  <2>6. r \in Tables /\ SameOrder(r, m) /\ Contents(r, X \cup {x})
    BY <2>4, <2>5, <1>1, CountedHolds
  <2> HIDE DEF r
  <2>7. Listed(r, u)
    BY <2>4, <2>6, SameOrderListed
  <2> QED
    BY <2>3, <2>4, <2>6, <2>7 DEF Sound
<1> QED
  BY <1>8, <1>9

\* HASH_CLEAR empties.
LEMMA ClearedSound ==
    ASSUME NEW t \in Tables
    PROVE  Sound(HASH_CLEAR(t), <<>>)
<1> DEFINE r == HASH_CLEAR(t)
<1>1. r \in Tables /\ Listed(r, <<>>) /\ r.num_buckets = 0 /\ r.buckets = [b \in {} |-> NoBuckets]
  BY ClearHolds
<1>2. r.num_items = 0
  BY DEF HASH_CLEAR, NoTable
<1> HIDE DEF r
<1>3. Contents(r, {})
  <2>1. r.buckets \in [0 .. 0 - 1 -> Bucket]
    BY <1>1
  <2>2. ShortEnough(r.buckets, 0)
    <3>1. 0 .. 0 - 1 = {}
      OBVIOUS
    <3>2. Multiples([k \in 0 .. 0 |-> 0], r.buckets, 0)
      BY <3>1 DEF Multiples
    <3> QED
      BY <3>1, <3>2 DEF ShortEnough, ShortChains
  <2> QED
    BY <2>1, <2>2, <1>1, <1>2, FS_EmptySet DEF Contents, KeysDiffer, ExpansionOK
<1>4. Range(<<>>) = {}
  <2>1. DOMAIN <<>> = {}
    OBVIOUS
  <2> QED
    BY <2>1 DEF Range
<1> QED
  BY <1>1, <1>3, <1>4 DEF Sound, r

\* HASH_DELETE takes the p-th element out, the last one with the table.
LEMMA DeleteHolds ==
    ASSUME NEW t, NEW s, Sound(t, s), NEW p \in 1 .. Len(s)
    PROVE  /\ Sound(HASH_DELETE(t, s[p]), RemoveAt(s, p))
           /\ Range(RemoveAt(s, p)) = Range(s) \ {s[p]}
<1> DEFINE X == Range(s)
           x == s[p]
           u == RemoveAt(s, p)
<1>1. /\ s \in Seq(Elements) /\ IsInjective(s) /\ Len(s) \in Nat /\ X \in SUBSET Elements
      /\ (X = {} <=> Len(s) = 0)
  BY EmptySound
<1>2. t \in Tables /\ Listed(t, s) /\ Contents(t, X)
  BY DEF Sound
<1>3. /\ \A n \in 1 .. Len(s) : s[n] \in Elements
      /\ \A n \in 1 .. Len(s) : t.next[s[n]] = IF n = Len(s) THEN NULL ELSE s[n + 1]
      /\ \A n \in 1 .. Len(s) : t.prev[s[n]] = IF n = 1 THEN NULL ELSE s[n - 1]
  BY <1>2, ListedElements
<1>4. u \in Seq(Elements) /\ Len(u) = Len(s) - 1 /\ IsInjective(u) /\ Range(u) = X \ {x}
  BY <1>1, RemoveAtHolds, RemoveAtMembers
<1>5. x \in X /\ Len(s) # 0 /\ x \in Elements
  BY <1>1, <1>3, RangeMembers
<1>6. t.prev[x] = NULL /\ t.next[x] = NULL <=> Len(s) = 1
  <2>1. t.prev[x] = NULL <=> p = 1
    <3>1. p # 1 => p - 1 \in 1 .. Len(s)
      BY <1>1
    <3>2. t.prev[x] = IF p = 1 THEN NULL ELSE s[p - 1]
      BY <1>3
    <3>3. p # 1 => s[p - 1] # NULL
      BY <3>1, <1>3, HashAssumption
    <3> QED
      BY <3>2, <3>3
  <2>2. t.next[x] = NULL <=> p = Len(s)
    <3>1. p # Len(s) => p + 1 \in 1 .. Len(s)
      BY <1>1
    <3>2. t.next[x] = IF p = Len(s) THEN NULL ELSE s[p + 1]
      BY <1>3
    <3>3. p # Len(s) => s[p + 1] # NULL
      BY <3>1, <1>3, HashAssumption
    <3> QED
      BY <3>2, <3>3
  <2>3. p = 1 /\ p = Len(s) <=> Len(s) = 1
    <3> HIDE DEF x, u, X
    <3>1. Len(s) \in Nat /\ p \in 1 .. Len(s)
      BY <1>1
    <3>2. ASSUME Len(s) = 1 PROVE p = 1
      BY <3>1, <3>2
    <3> QED
      BY <3>2
  <2> HIDE DEF x
  <2> QED
    BY <2>1, <2>2, <2>3
<1>7. CASE Len(s) = 1
  <2> DEFINE r == HASH_CLEAR(t)
  <2>1. HASH_DELETE(t, x) = r
    BY <1>6, <1>7 DEF HASH_DELETE
  <2>2. u = <<>> /\ Range(u) = {}
    <3>1. u = <<>>
      BY <1>4, <1>7
    <3>2. DOMAIN <<>> = {}
      OBVIOUS
    <3>3. Range(<<>>) = {}
      BY <3>2 DEF Range
    <3> QED
      BY <3>1, <3>3
  <2>3. Sound(r, <<>>)
    BY <1>2, ClearedSound
  <2> HIDE DEF r, u
  <2> QED
    BY <2>1, <2>2, <2>3, <1>4 DEF u
<1>8. CASE Len(s) # 1
  <2> DEFINE q == Unlinked(t, x)
             d == HASH_DEL_IN_BKT(q, x)
             r == [d EXCEPT !.num_items = @ - 1]
             Y == X \ {x}
  <2>1. HASH_DELETE(t, x) = r
    BY <1>6, <1>8 DEF HASH_DELETE
  <2>2. q \in Tables /\ SameBuckets(q, t) /\ Listed(q, u)
    BY <1>2, <1>8, UnlinkedHolds
  <2> HIDE DEF q
  <2>3. Stored(t, X) /\ Sieved(t, X) /\ t.num_items = Cardinality(X) /\ ExpansionOK(t) /\ KeysDiffer(X)
    BY <1>2, <1>5 DEF Contents
  <2>4. Stored(q, X) /\ ExpansionOK(q)
    BY <2>2, <2>3 DEF SameBuckets, Stored, ExpansionOK
  <2>5. d \in Tables /\ Kept(d, q) /\ Stored(d, Y) /\ ExpansionOK(d)
    BY <2>2, <2>4, <1>1, <1>5, DelInBktHolds
  <2> HIDE DEF d
  <2>6. Cardinality(Y) = Cardinality(X) - 1 /\ Cardinality(Y) \in Nat
    <3>1. IsFiniteSet(X)
      BY <1>1, HashAssumption, FS_Subset
    <3> QED
      BY <3>1, <1>5, FS_RemoveElement, FS_CardinalityType
  <2>7. /\ r \in Tables /\ SameOrder(r, d) /\ r.bloom = d.bloom /\ r.num_items = Cardinality(Y)
        /\ r.buckets = d.buckets /\ r.num_buckets = d.num_buckets /\ r.noexpand = d.noexpand
    <3>1. d.num_items = Cardinality(X)
      BY <2>2, <2>3, <2>5 DEF Kept, SameBuckets
    <3>2. r.num_items = Cardinality(Y)
      BY <3>1, <2>5, <2>6 DEF Tables
    <3>3. r \in Tables
      BY <3>1, <2>5, <2>6 DEF Tables
    <3> QED
      BY <3>2, <3>3, <2>5 DEF Tables, SameOrder
  <2> HIDE DEF r, u
  <2>8. Listed(r, u)
    <3>1. SameOrder(r, q)
      BY <2>5, <2>7 DEF Kept, SameOrder
    <3> QED
      BY <3>1, <2>2, SameOrderListed
  <2>9. Contents(r, Y)
    <3>1. Stored(r, Y) /\ ExpansionOK(r)
      BY <2>5, <2>7 DEF Stored, ExpansionOK
    <3>2. Sieved(r, Y)
      BY <2>2, <2>3, <2>5, <2>7 DEF Sieved, HASH_BLOOM_TEST, Kept, SameBuckets
    <3>3. KeysDiffer(Y)
      BY <2>3 DEF KeysDiffer
    <3>4. r.buckets \in [0 .. r.num_buckets - 1 -> Bucket]
      BY <3>1 DEF Stored, HasChains
    <3> QED
      BY <3>1, <3>2, <3>3, <3>4, <2>7 DEF Contents
  <2> QED
    BY <2>1, <2>7, <2>8, <2>9, <1>4 DEF Sound, u
<1> QED
  BY <1>4, <1>7, <1>8

\* Evicted takes out the element that has the key of x, if any.
LEMMA EvictedHolds ==
    ASSUME NEW t, NEW s, Sound(t, s), NEW x \in Elements
    PROVE  LET u == Ordered!Without(s, KeyOf[x])
           IN /\ Sound(Evicted(t, x), u) /\ x \notin Range(u) /\ KeysDiffer(Range(u) \cup {x})
              /\ Range(u) \subseteq Range(s)
<1> DEFINE X == Range(s)
           key == KeyOf[x]
           u == Ordered!Without(s, key)
<1>1. /\ s \in Seq(Elements) /\ IsInjective(s) /\ Len(s) \in Nat /\ X \in SUBSET Elements
      /\ (X = {} <=> Len(s) = 0) /\ (t.head = NULL <=> Len(s) = 0)
  BY EmptySound
<1>2. t \in Tables /\ Contents(t, X) /\ KeysDiffer(X)
  BY DEF Sound, Contents
<1>3. /\ (\A y \in X : KeyOf[y] # key) => HASH_FIND(t, x) = NULL
      /\ \A y \in X : KeyOf[y] = key => HASH_FIND(t, x) = y
  BY <1>1, <1>2, FindHolds
<1>4. /\ \A n \in 1 .. Len(s) : s[n] \in X /\ s[n] \in Elements
      /\ \A y \in X : \E n \in 1 .. Len(s) : s[n] = y
  BY <1>1, RangeMembers
<1>5. u = IF \E y \in X : KeyOf[y] = key
          THEN RemoveAt(s, CHOOSE n \in DOMAIN s : KeyOf[s[n]] = key) ELSE s
  <2>1. key \in Ordered!Keys(s) <=> \E y \in X : KeyOf[y] = key
    BY OrderedOperators DEF Ordered!Keys
  <2> QED
    BY <2>1, OrderedOperators DEF Ordered!Without
<1>6. CASE \A y \in X : KeyOf[y] # key
  <2>1. Evicted(t, x) = t /\ u = s
    BY <1>3, <1>5, <1>6 DEF Evicted
  <2>2. x \notin X /\ KeysDiffer(X \cup {x})
    BY <1>2, <1>6 DEF KeysDiffer
  <2> QED
    BY <2>1, <2>2
<1>7. CASE \E y \in X : KeyOf[y] = key
  <2> DEFINE p == CHOOSE n \in DOMAIN s : KeyOf[s[n]] = key
  <2>1. p \in 1 .. Len(s) /\ KeyOf[s[p]] = key
    BY <1>1, <1>4, <1>7
  <2>2. u = RemoveAt(s, p)
    BY <1>5, <1>7
  <2> HIDE DEF p, u
  <2>3. HASH_FIND(t, x) = s[p] /\ s[p] # NULL
    BY <2>1, <1>3, <1>4, HashAssumption
  <2>4. Evicted(t, x) = HASH_DELETE(t, s[p])
    BY <2>3 DEF Evicted
  <2>5. Sound(HASH_DELETE(t, s[p]), u) /\ Range(u) = X \ {s[p]}
    BY <2>1, <2>2, DeleteHolds
  <2>6. \A y \in X \ {s[p]} : KeyOf[y] # key
    BY <2>1, <1>2, <1>4 DEF KeysDiffer
  <2>7. x \notin X \ {s[p]} /\ KeysDiffer((X \ {s[p]}) \cup {x})
    BY <2>6, <1>2 DEF KeysDiffer
  <2> QED
    BY <2>4, <2>5, <2>7 DEF u
<1> QED
  BY <1>6, <1>7

\* Freeing what is not in the table leaves the table sound.
LEMMA FreedHolds ==
    ASSUME NEW t, NEW s, Sound(t, s)
    PROVE  Sound(Freed(t), s)
<1> DEFINE Keep(links) == [x \in Elements |-> IF x \in Range(s) THEN links[x] ELSE Garbage]
           r == [t EXCEPT !.next = Keep(@), !.prev = Keep(@)]
<1>1. t \in Tables /\ Listed(t, s) /\ Contents(t, Range(s)) /\ s \in Seq(Elements)
  BY DEF Sound, Listed
<1>2. AppOrder(t) = s
  BY <1>1, AppOrderOfList DEF Tables
<1>3. Freed(t) = r
  BY <1>2 DEF Freed
<1>4. /\ r \in Tables /\ r.head = t.head /\ r.tail = t.tail
      /\ r.next = Keep(t.next) /\ r.prev = Keep(t.prev) /\ SameBuckets(r, t)
  <2>1. Keep(t.next) \in [Elements -> Link] /\ Keep(t.prev) \in [Elements -> Link]
    BY <1>1, PointerTypes DEF Tables
  <2> HIDE DEF Keep
  <2> QED
    BY <2>1, <1>1 DEF Tables, SameBuckets
<1>5. \A n \in 1 .. Len(s) : s[n] \in Range(s) /\ s[n] \in Elements
  BY <1>1, RangeMembers
<1>6. \A n \in 1 .. Len(s) : r.next[s[n]] = t.next[s[n]] /\ r.prev[s[n]] = t.prev[s[n]]
  BY <1>4, <1>5
<1> HIDE DEF r
<1>7. Listed(r, s)
  BY <1>1, <1>4, <1>6 DEF Listed, Chain
<1>8. Contents(r, Range(s))
  BY <1>1, <1>4 DEF Contents, SameBuckets, Stored, Sieved, HASH_BLOOM_TEST, ExpansionOK
<1> QED
  BY <1>3, <1>4, <1>7, <1>8 DEF Sound

-----------------------------------------------------------------------------
(* HASH_SRT: what is linked already (D), what is left of the run at p (P), *)
(* and what follows from q on (S).                                         *)

\* The types of the local variables.
Sorts ==
    [at : {"idle", "pass", "merge"}, insize : Nat, nmerges : Nat, list : Pointer, tail : Pointer,
     p : Link, psize : Nat, q : Link, qsize : Nat, before : Seq(Elements)]

\* D, P and S share no element, and are the elements that were there before.
Apart3(D, P, S) == /\ Range(D) \cap Range(P) = {} /\ Range(D) \cap Range(S) = {}
                   /\ Range(P) \cap Range(S) = {}

Pieces(before, D, P, S) ==
    /\ D \in Seq(Elements) /\ P \in Seq(Elements) /\ S \in Seq(Elements)
    /\ IsInjective(D) /\ IsInjective(P) /\ IsInjective(S) /\ Apart3(D, P, S)
    /\ Range(D) \cup Range(P) \cup Range(S) = Range(before)

\* Linked one to the next, but for what the last leads to; Back is the other direction.
Leads(links, s) == \A n \in 1 .. Len(s) : n # Len(s) => links[s[n]] = s[n + 1]
Back(links, s) == \A n \in 1 .. Len(s) : links[s[n]] = IF n = 1 THEN NULL ELSE s[n - 1]
Final(s) == IF Len(s) = 0 THEN NULL ELSE s[Len(s)]

\* How the links and the ends of the list stand for D, P and S.
Linked(t, s, D, P, S) ==
    /\ s.list = First(D) /\ s.tail = Final(D)
    /\ Leads(t.next, D) /\ Back(t.prev, D)
    /\ Leads(t.next, P) /\ Chain(t.next, S)

\* r is t with e linked behind the last of what s has linked already.
LinkedTo(r, t, s, e) ==
    /\ r.next = [x \in Elements |-> IF x = s.tail THEN e ELSE t.next[x]]
    /\ r.prev = [t.prev EXCEPT ![e] = s.tail]

\* e is taken out of P or S and linked behind D.
LEMMA LinkedStep ==
    ASSUME NEW t \in Tables, NEW s, NEW D, NEW P, NEW S,
           D \in Seq(Elements), Linked(t, s, D, P, S), IsInjective(D),
           NEW Q, NEW R, Q \in Seq(Elements), R \in Seq(Elements), Leads(t.next, Q), Chain(t.next, R),
           Apart3(D, Q, R),
           NEW e \in Elements, e \notin Range(D), e \notin Range(Q), e \notin Range(R),
           NEW r, LinkedTo(r, t, s, e),
           NEW u, u.list = IF s.tail = NULL THEN e ELSE s.list, u.tail = e
    PROVE  /\ Linked(r, u, Append(D, e), Q, R)
           /\ Append(D, e) \in Seq(Elements) /\ IsInjective(Append(D, e))
           /\ Range(Append(D, e)) = Range(D) \cup {e} /\ Apart3(Append(D, e), Q, R)
<1> DEFINE L == Len(D)
           E == Append(D, e)
<1> USE PointerTypes
<1>1. /\ L \in Nat /\ \A n \in 1 .. L : D[n] \in Range(D) /\ D[n] \in Elements
      /\ \A m, n \in 1 .. L : D[m] = D[n] => m = n
      /\ s.list = First(D) /\ s.tail = Final(D)
      /\ \A n \in 1 .. L : n # L => t.next[D[n]] = D[n + 1]
      /\ \A n \in 1 .. L : t.prev[D[n]] = IF n = 1 THEN NULL ELSE D[n - 1]
      /\ t.prev \in [Elements -> Link] /\ t.next \in [Elements -> Link]
  <2>1. L \in Nat /\ \A n \in 1 .. L : D[n] \in Range(D) /\ D[n] \in Elements
    BY RangeMembers
  <2>2. \A m, n \in 1 .. L : D[m] = D[n] => m = n
    BY InjectiveMembers
  <2> QED
    BY <2>1, <2>2 DEF Linked, Leads, Back, Tables
<1>2. E \in Seq(Elements) /\ Len(E) = L + 1 /\ E[L + 1] = e /\ \A n \in 1 .. L : E[n] = D[n]
  BY AppendProperties
<1>3. IsInjective(E) /\ Range(E) = Range(D) \cup {e}
  <2> DEFINE one == <<e>>
  <2>1. one \in Seq(Elements) /\ IsInjective(one) /\ Range(one) = {e}
    BY DEF IsInjective, Range
  <2>2. E = D \o one
    BY AppendIsConcat
  <2> HIDE DEF one, E
  <2>3. Range(D) \cap Range(one) = {}
    BY <2>1
  <2> QED
    BY <2>1, <2>2, <2>3, ConcatRange
<1> HIDE DEF E
<1>4. Apart3(E, Q, R)
  BY <1>3 DEF Apart3
<1>5. (s.tail = NULL <=> L = 0) /\ (L # 0 => s.tail = D[L] /\ s.list = D[1] /\ L \in 1 .. L /\ 1 \in 1 .. L)
  <2>1. L # 0 => L \in 1 .. L /\ 1 \in 1 .. L
    BY <1>1
  <2> QED
    BY <2>1, <1>1 DEF Final, First
<1>6. /\ \A x \in Elements : x # s.tail => r.next[x] = t.next[x]
      /\ L # 0 => r.next[D[L]] = e
  BY <1>1, <1>5 DEF LinkedTo
<1>7. r.prev[e] = s.tail /\ \A x \in Elements : x # e => r.prev[x] = t.prev[x]
  BY <1>1 DEF LinkedTo
<1>8. Leads(r.next, E)
  <2> SUFFICES ASSUME NEW n \in 1 .. L + 1, n # L + 1 PROVE r.next[E[n]] = E[n + 1]
    BY <1>2 DEF Leads
  <2>1. n \in 1 .. L /\ E[n] = D[n]
    BY <1>1, <1>2
  <2>2. CASE n = L
    BY <2>1, <2>2, <1>2, <1>6
  <2>3. CASE n # L
    <3>1. D[n] # s.tail /\ n + 1 \in 1 .. L
      BY <2>1, <2>3, <1>1, <1>5
    <3> QED
      BY <3>1, <2>1, <2>3, <1>1, <1>2, <1>6
  <2> QED
    BY <2>2, <2>3
<1>9. Back(r.prev, E)
  <2> SUFFICES ASSUME NEW n \in 1 .. L + 1 PROVE r.prev[E[n]] = IF n = 1 THEN NULL ELSE E[n - 1]
    BY <1>2 DEF Back
  <2>1. CASE n = L + 1
    <3>1. r.prev[E[n]] = s.tail
      BY <2>1, <1>2, <1>7
    <3>2. n # 1 => L # 0 /\ n - 1 = L
      BY <2>1, <1>1
    <3>3. n = 1 => L = 0
      BY <2>1, <1>1
    <3> QED
      BY <3>1, <3>2, <3>3, <1>2, <1>5
  <2>2. CASE n # L + 1
    <3>1. n \in 1 .. L /\ E[n] = D[n] /\ D[n] # e
      BY <2>2, <1>1, <1>2
    <3>2. n # 1 => n - 1 \in 1 .. L
      BY <3>1
    <3>3. r.prev[E[n]] = t.prev[D[n]]
      BY <3>1, <1>1, <1>7
    <3>4. t.prev[D[n]] = IF n = 1 THEN NULL ELSE D[n - 1]
      BY <3>1, <1>1
    <3> QED
      BY <3>2, <3>3, <3>4, <1>2
  <2> QED
    BY <2>1, <2>2
<1>10. ASSUME NEW x \in Range(Q) \cup Range(R) PROVE x \in Elements /\ x # s.tail
  <2>1. x \in Elements
    BY RangeMembers
  <2>2. x \notin Range(D)
    BY DEF Apart3
  <2> QED
    BY <2>1, <2>2, <1>1, <1>5
<1>11. Leads(r.next, Q)
  <2>1. \A n \in 1 .. Len(Q) : Q[n] \in Range(Q)
    BY RangeMembers
  <2> QED
    BY <2>1, <1>6, <1>10 DEF Leads
<1>12. Chain(r.next, R)
  <2>1. \A n \in 1 .. Len(R) : R[n] \in Range(R)
    BY RangeMembers
  <2> QED
    BY <2>1, <1>6, <1>10 DEF Chain
<1>13. u.list = First(E) /\ u.tail = Final(E)
  <2>1. Len(E) # 0 /\ (L # 0 => E[1] = D[1]) /\ (L = 0 => E[1] = e)
    BY <1>1, <1>2
  <2> QED
    BY <2>1, <1>2, <1>5 DEF First, Final
<1> QED
  BY <1>2, <1>3, <1>4, <1>8, <1>9, <1>11, <1>12, <1>13 DEF Linked, E

\* The rest of a chain, or of what leads on, without its first element.
LEMMA RestHolds ==
    ASSUME NEW s \in Seq(Elements), IsInjective(s), Len(s) # 0
    PROVE  LET r == RemoveAt(s, 1)
           IN /\ r \in Seq(Elements) /\ Len(r) = Len(s) - 1 /\ Len(r) \in Nat
              /\ \A n \in 1 .. Len(r) : r[n] = s[n + 1] /\ n + 1 \in 1 .. Len(s)
              /\ IsInjective(r) /\ Range(r) = Range(s) \ {s[1]}
              /\ s[1] \in Elements /\ s[1] \in Range(s)
<1> DEFINE r == RemoveAt(s, 1)
<1>1. Len(s) \in Nat /\ 1 \in 1 .. Len(s)
  OBVIOUS
<1>2. /\ r \in Seq(Elements) /\ Len(r) = Len(s) - 1
      /\ \A n \in 1 .. Len(s) - 1 : r[n] = IF n < 1 THEN s[n] ELSE s[n + 1]
  BY <1>1, RemoveAtHolds
<1>3. IsInjective(r) /\ Range(r) = Range(s) \ {s[1]}
  BY <1>1, RemoveAtMembers
<1>4. s[1] \in Elements /\ s[1] \in Range(s)
  BY <1>1, RangeMembers
<1> HIDE DEF r
<1>5. \A n \in 1 .. Len(r) : r[n] = s[n + 1] /\ n + 1 \in 1 .. Len(s)
  BY <1>1, <1>2
<1> QED
  BY <1>1, <1>2, <1>3, <1>4, <1>5 DEF r

\* The links of the rest.
LEMMA RestLinks ==
    ASSUME NEW s \in Seq(Elements), IsInjective(s), Len(s) # 0, NEW links
    PROVE  /\ Leads(links, s) => /\ Leads(links, RemoveAt(s, 1))
                                 /\ Len(s) # 1 => links[s[1]] = RemoveAt(s, 1)[1]
           /\ Chain(links, s) => /\ Chain(links, RemoveAt(s, 1))
                                 /\ links[s[1]] = First(RemoveAt(s, 1))
<1> DEFINE r == RemoveAt(s, 1)
<1>1. /\ r \in Seq(Elements) /\ Len(r) = Len(s) - 1 /\ Len(s) \in Nat /\ Len(r) \in Nat
      /\ \A n \in 1 .. Len(r) : r[n] = s[n + 1] /\ n + 1 \in 1 .. Len(s)
  BY RestHolds
<1> HIDE DEF r
<1>2. 1 \in 1 .. Len(s)
  BY <1>1
<1>3. Len(s) # 1 => r[1] = s[1 + 1] /\ Len(r) # 0
  BY <1>1
<1>4. Len(s) = 1 => Len(r) = 0
  BY <1>1
<1>5. ASSUME Leads(links, s)
      PROVE  Leads(links, r) /\ (Len(s) # 1 => links[s[1]] = r[1])
  <2>1. \A n \in 1 .. Len(s) : n # Len(s) => links[s[n]] = s[n + 1]
    BY <1>5 DEF Leads
  <2>2. ASSUME NEW n \in 1 .. Len(r), n # Len(r) PROVE links[r[n]] = r[n + 1]
    <3>1. n + 1 \in 1 .. Len(r) /\ n + 1 \in 1 .. Len(s) /\ n + 1 # Len(s)
      BY <2>2, <1>1
    <3> QED
      BY <3>1, <2>1, <1>1
  <2> QED
    BY <2>1, <2>2, <1>2, <1>3 DEF Leads
<1>6. ASSUME Chain(links, s)
      PROVE  Chain(links, r) /\ links[s[1]] = First(r)
  <2>1. \A n \in 1 .. Len(s) : links[s[n]] = IF n = Len(s) THEN NULL ELSE s[n + 1]
    BY <1>6 DEF Chain
  <2>2. ASSUME NEW n \in 1 .. Len(r) PROVE links[r[n]] = IF n = Len(r) THEN NULL ELSE r[n + 1]
    <3>1. n + 1 \in 1 .. Len(s) /\ r[n] = s[n + 1] /\ (n = Len(r) <=> n + 1 = Len(s))
      BY <1>1
    <3>2. n # Len(r) => n + 1 \in 1 .. Len(r)
      BY <1>1
    <3> QED
      BY <3>1, <3>2, <2>1, <1>1
  <2> QED
    BY <2>1, <2>2, <1>2, <1>3, <1>4 DEF Chain, First
<1> QED
  BY <1>5, <1>6 DEF r

-----------------------------------------------------------------------------
(* Runs.                                                                   *)

\* x was before y when the sort began; it has to be before y after it.
Earlier(s, x, y) == \E k, l \in DOMAIN s : k < l /\ s[k] = x /\ s[l] = y
StablyBefore(s, x, y) == Rank[x] < Rank[y] \/ (Rank[x] = Rank[y] /\ Earlier(s, x, y))

\* Where runs of the given size end, the first of them after "first" elements.
RunEnds(first, size) == {first + size * m : m \in Nat}
Apart(B, i, j) == \E b \in B : i <= b /\ b < j

\* s consists of runs that end at B: sorted, and one before the other in "before".
Runs(before, s, B) ==
    \A i, j \in 1 .. Len(s) : i < j =>
        IF Apart(B, i, j) THEN Earlier(before, s[i], s[j]) ELSE StablyBefore(before, s[i], s[j])

\* No run ends within the W elements after the end of one.
LEMMA NoEndWithin ==
    ASSUME NEW W \in Nat \ {0}, NEW a \in RunEnds(0, W), NEW i \in Nat, NEW j \in Nat,
           a < i, j <= a + W
    PROVE  ~Apart(RunEnds(0, W), i, j)
<1>1. PICK k \in Nat : a = 0 + W * k
  BY DEF RunEnds
<1> SUFFICES ASSUME NEW m \in Nat, i <= 0 + W * m, 0 + W * m < j PROVE FALSE
  BY DEF Apart, RunEnds
<1>2. W * m \in Nat /\ W * k \in Nat /\ W * (k + 1) = W * k + W
  OBVIOUS
<1>3. CASE m <= k
  <2>1. W * m <= W * k
    BY <1>3, Grows
  <2> QED
    BY <2>1, <1>1, <1>2
<1>4. CASE k + 1 <= m
  <2>1. W * (k + 1) <= W * m
    BY <1>4, Grows
  <2> QED
    BY <2>1, <1>1, <1>2
<1> QED
  BY <1>3, <1>4

\* The ends are a multiple of the size apart.
LEMMA NextEnd ==
    ASSUME NEW W \in Nat \ {0}
    PROVE  /\ 0 \in RunEnds(0, W)
           /\ \A a \in RunEnds(0, W) : a \in Nat /\ a + W \in RunEnds(0, W)
<1>1. 0 \in RunEnds(0, W)
  <2>1. 0 = 0 + W * 0
    OBVIOUS
  <2> QED
    BY <2>1 DEF RunEnds
<1>2. ASSUME NEW a \in RunEnds(0, W) PROVE a \in Nat /\ a + W \in RunEnds(0, W)
  <2>1. PICK k \in Nat : a = 0 + W * k
    BY DEF RunEnds
  <2>2. k + 1 \in Nat /\ a \in Nat /\ a + W = 0 + W * (k + 1)
    BY <2>1
  <2> QED
    BY <2>2 DEF RunEnds
<1> QED
  BY <1>1, <1>2

\* Elements in the first run, and in different runs.
LEMMA FirstRun ==
    ASSUME NEW W \in Nat \ {0}, NEW q \in Nat, NEW i \in Nat, NEW j \in Nat
    PROVE  /\ j <= q => ~Apart(RunEnds(q, W), i, j)
           /\ i <= q /\ q < j => Apart(RunEnds(q, W), i, j)
<1>1. \A m \in Nat : W * m \in Nat
  OBVIOUS
<1>2. \A b \in RunEnds(q, W) : b \in Nat /\ q <= b
  BY <1>1 DEF RunEnds
<1>3. q \in RunEnds(q, W)
  <2>1. q = q + W * 0
    OBVIOUS
  <2> QED
    BY <2>1 DEF RunEnds
<1> QED
  BY <1>2, <1>3 DEF Apart

\* The ends, once the first element is gone,
LEMMA ShiftOne ==
    ASSUME NEW W \in Nat \ {0}, NEW q \in Nat \ {0}, NEW i \in Nat, NEW j \in Nat
    PROVE  Apart(RunEnds(q, W), i + 1, j + 1) <=> Apart(RunEnds(q - 1, W), i, j)
<1>1. \A m \in Nat : W * m \in Nat
  OBVIOUS
<1>2. ASSUME NEW m \in Nat
      PROVE  i + 1 <= q + W * m /\ q + W * m < j + 1 <=> i <= (q - 1) + W * m /\ (q - 1) + W * m < j
  <2>1. W * m \in Nat
    BY <1>1
  <2> QED
    BY <2>1
<1>3. Apart(RunEnds(q, W), i + 1, j + 1) <=> \E m \in Nat : i + 1 <= q + W * m /\ q + W * m < j + 1
  BY DEF Apart, RunEnds
<1>4. Apart(RunEnds(q - 1, W), i, j) <=> \E m \in Nat : i <= (q - 1) + W * m /\ (q - 1) + W * m < j
  BY DEF Apart, RunEnds
<1> QED
  BY <1>2, <1>3, <1>4

\* and once the first run is.
LEMMA ShiftRun ==
    ASSUME NEW W \in Nat \ {0}, NEW i \in Nat \ {0}, NEW j \in Nat
    PROVE  Apart(RunEnds(0, W), W + i, W + j) <=> Apart(RunEnds(W, W), i, j)
<1>1. Apart(RunEnds(0, W), W + i, W + j) <=> \E m \in Nat : W + i <= 0 + W * m /\ 0 + W * m < W + j
  BY DEF Apart, RunEnds
<1>2. Apart(RunEnds(W, W), i, j) <=> \E m \in Nat : i <= W + W * m /\ W + W * m < j
  BY DEF Apart, RunEnds
<1>3. ASSUME NEW m \in Nat, W + i <= 0 + W * m, 0 + W * m < W + j
      PROVE  \E k \in Nat : i <= W + W * k /\ W + W * k < j
  <2>1. m # 0 /\ m # 1
    <3>1. m = 0 => W * m = 0
      OBVIOUS
    <3>2. m = 1 => W * m = W
      OBVIOUS
    <3> QED
      BY <3>1, <3>2, <1>3
  <2> DEFINE k == m - 2
  <2>2. k \in Nat
    BY <2>1
  <2>3. W * m = W * k + W + W
    <3>1. m = k + 2
      BY <2>1
    <3> HIDE DEF k
    <3>2. W * (k + 2) = W * k + W * 2
      BY <2>2
    <3>3. W * 2 = W + W
      OBVIOUS
    <3>4. W * k \in Nat
      BY <2>2
    <3> QED
      BY <3>1, <3>2, <3>3, <3>4
  <2>4. W * k \in Nat
    BY <2>2
  <2> HIDE DEF k
  <2>5. i <= W + W * k /\ W + W * k < j
    BY <2>3, <2>4, <1>3
  <2> QED
    BY <2>2, <2>5
<1>4. ASSUME NEW m \in Nat, i <= W + W * m, W + W * m < j
      PROVE  \E k \in Nat : W + i <= 0 + W * k /\ 0 + W * k < W + j
  <2>1. W * (m + 2) = W * m + W + W /\ W * m \in Nat
    <3>1. W * (m + 2) = W * m + W * 2
      OBVIOUS
    <3>2. W * 2 = W + W /\ W * m \in Nat
      OBVIOUS
    <3> QED
      BY <3>1, <3>2
  <2>2. W + i <= 0 + W * (m + 2) /\ 0 + W * (m + 2) < W + j
    BY <2>1, <1>4
  <2>3. m + 2 \in Nat
    OBVIOUS
  <2> QED
    BY <2>2, <2>3
<1> QED
  BY <1>1, <1>2, <1>3, <1>4

\* Runs without the first element, which is before the others of its run and of the runs to come.
LEMMA RunsRest ==
    ASSUME NEW before, NEW s \in Seq(Elements), IsInjective(s), Len(s) # 0,
           NEW W \in Nat \ {0}, NEW q \in Nat \ {0}, Runs(before, s, RunEnds(q, W))
    PROVE  LET r == RemoveAt(s, 1)
           IN /\ Runs(before, r, RunEnds(q - 1, W))
              /\ \A j \in 1 .. Len(r) : IF j <= q - 1 THEN StablyBefore(before, s[1], r[j])
                                        ELSE Earlier(before, s[1], r[j])
<1> DEFINE r == RemoveAt(s, 1)
<1>1. /\ Len(r) = Len(s) - 1 /\ Len(r) \in Nat
      /\ \A n \in 1 .. Len(r) : r[n] = s[n + 1] /\ n + 1 \in 1 .. Len(s)
  BY RestHolds
<1> HIDE DEF r
<1>2. Runs(before, r, RunEnds(q - 1, W))
  <2> SUFFICES ASSUME NEW i \in 1 .. Len(r), NEW j \in 1 .. Len(r), i < j
               PROVE  IF Apart(RunEnds(q - 1, W), i, j) THEN Earlier(before, r[i], r[j])
                      ELSE StablyBefore(before, r[i], r[j])
    BY DEF Runs
  <2>1. i + 1 \in 1 .. Len(s) /\ j + 1 \in 1 .. Len(s) /\ i + 1 < j + 1 /\ i \in Nat /\ j \in Nat
        /\ r[i] = s[i + 1] /\ r[j] = s[j + 1]
    BY <1>1
  <2>2. IF Apart(RunEnds(q, W), i + 1, j + 1) THEN Earlier(before, s[i + 1], s[j + 1])
        ELSE StablyBefore(before, s[i + 1], s[j + 1])
    BY <2>1 DEF Runs
  <2>3. Apart(RunEnds(q, W), i + 1, j + 1) <=> Apart(RunEnds(q - 1, W), i, j)
    BY <2>1, ShiftOne
  <2> QED
    BY <2>1, <2>2, <2>3
<1>3. ASSUME NEW j \in 1 .. Len(r)
      PROVE  IF j <= q - 1 THEN StablyBefore(before, s[1], r[j]) ELSE Earlier(before, s[1], r[j])
  <2>1. /\ 1 \in 1 .. Len(s) /\ j + 1 \in 1 .. Len(s) /\ 1 < j + 1 /\ r[j] = s[j + 1]
        /\ j + 1 \in Nat /\ 1 \in Nat /\ q \in Nat
    BY <1>1
  <2>2. IF Apart(RunEnds(q, W), 1, j + 1) THEN Earlier(before, s[1], s[j + 1])
        ELSE StablyBefore(before, s[1], s[j + 1])
    BY <2>1 DEF Runs
  <2>3. /\ j + 1 <= q => ~Apart(RunEnds(q, W), 1, j + 1)
        /\ 1 <= q /\ q < j + 1 => Apart(RunEnds(q, W), 1, j + 1)
    BY <2>1, FirstRun
  <2> QED
    BY <2>1, <2>2, <2>3
<1> QED
  BY <1>2, <1>3 DEF r

\* The same of a single run.
LEMMA SortedRest ==
    ASSUME NEW before, NEW s \in Seq(Elements), IsInjective(s), Len(s) # 0, Runs(before, s, {})
    PROVE  LET r == RemoveAt(s, 1)
           IN /\ Runs(before, r, {})
              /\ \A x \in Range(r) : StablyBefore(before, s[1], x)
<1> DEFINE r == RemoveAt(s, 1)
<1>1. /\ Len(r) = Len(s) - 1 /\ Len(r) \in Nat /\ r \in Seq(Elements)
      /\ \A n \in 1 .. Len(r) : r[n] = s[n + 1] /\ n + 1 \in 1 .. Len(s)
  BY RestHolds
<1> HIDE DEF r
<1>2. \A i, j \in 1 .. Len(s) : i < j => StablyBefore(before, s[i], s[j])
  BY DEF Runs, Apart
<1>3. Runs(before, r, {})
  <2> SUFFICES ASSUME NEW i \in 1 .. Len(r), NEW j \in 1 .. Len(r), i < j
               PROVE  StablyBefore(before, r[i], r[j])
    BY DEF Runs, Apart
  <2>1. i + 1 < j + 1
    OBVIOUS
  <2> QED
    BY <2>1, <1>1, <1>2
<1>4. ASSUME NEW x \in Range(r) PROVE StablyBefore(before, s[1], x)
  <2>1. PICK n \in 1 .. Len(r) : r[n] = x
    BY <1>1, RangeMembers
  <2>2. 1 \in 1 .. Len(s) /\ n + 1 \in 1 .. Len(s) /\ 1 < n + 1 /\ x = s[n + 1]
    BY <2>1, <1>1
  <2> QED
    BY <2>2, <1>2
<1> QED
  BY <1>3, <1>4 DEF r

\* An element that may follow those of the unfinished run extends it.
LEMMA RunsAppend ==
    ASSUME NEW before, NEW s \in Seq(Elements), NEW W \in Nat \ {0}, Runs(before, s, RunEnds(0, W)),
           NEW e \in Elements, NEW a \in RunEnds(0, W), a <= Len(s), Len(s) < a + W,
           \A i \in 1 .. a : Earlier(before, s[i], e),
           \A i \in a + 1 .. Len(s) : StablyBefore(before, s[i], e)
    PROVE  Runs(before, Append(s, e), RunEnds(0, W))
<1> DEFINE L == Len(s)
           u == Append(s, e)
<1>1. L \in Nat /\ Len(u) = L + 1 /\ u[L + 1] = e /\ \A n \in 1 .. L : u[n] = s[n]
  OBVIOUS
<1>2. a \in Nat
  BY NextEnd
<1> HIDE DEF u
<1> SUFFICES ASSUME NEW i \in 1 .. L + 1, NEW j \in 1 .. L + 1, i < j
             PROVE  IF Apart(RunEnds(0, W), i, j) THEN Earlier(before, u[i], u[j])
                    ELSE StablyBefore(before, u[i], u[j])
  BY <1>1 DEF Runs, u
<1>3. CASE j # L + 1
  <2>1. i \in 1 .. L /\ j \in 1 .. L
    BY <1>1, <1>3
  <2> QED
    BY <2>1, <1>1 DEF Runs
<1>4. CASE j = L + 1
  <2>1. i \in 1 .. L /\ u[i] = s[i] /\ u[j] = e /\ i \in Nat /\ j \in Nat
    BY <1>1, <1>4
  <2>2. CASE i <= a
    <3>1. i <= a /\ a < j
      BY <2>2, <1>1, <1>2, <1>4
    <3>2. Apart(RunEnds(0, W), i, j)
      BY <3>1 DEF Apart
    <3>3. i \in 1 .. a
      BY <2>1, <2>2, <1>2
    <3> QED
      BY <3>2, <3>3, <2>1
  <2>3. CASE ~ (i <= a)
    <3>1. a < i /\ j <= a + W /\ i \in a + 1 .. L
      BY <2>1, <2>3, <1>1, <1>2, <1>4
    <3>2. ~Apart(RunEnds(0, W), i, j)
      BY <3>1, <2>1, NoEndWithin
    <3> QED
      BY <3>1, <3>2, <2>1
  <2> QED
    BY <2>2, <2>3
<1> QED
  BY <1>3, <1>4

\* The first run of s, of at most W elements, and what follows it.
LEMMA RunsSplit ==
    ASSUME NEW before, NEW s \in Seq(Elements), NEW W \in Nat \ {0}, Runs(before, s, RunEnds(0, W)),
           NEW n \in 0 .. Len(s), n <= W, n < Len(s) => n = W,
           NEW p, p \in Seq(Elements), Len(p) = n, \A i \in 1 .. n : p[i] = s[i],
           NEW r, r \in Seq(Elements), Len(r) = Len(s) - n, \A i \in 1 .. Len(s) - n : r[i] = s[n + i]
    PROVE  /\ Runs(before, p, {}) /\ Runs(before, r, RunEnds(W, W))
           /\ \A x \in Range(p), y \in Range(r) : Earlier(before, x, y)
<1> DEFINE L == Len(s)
<1>1. L \in Nat /\ n \in Nat /\ n <= L
  OBVIOUS
<1>2. \A i, j \in 1 .. L : i < j => IF Apart(RunEnds(0, W), i, j) THEN Earlier(before, s[i], s[j])
                                    ELSE StablyBefore(before, s[i], s[j])
  BY DEF Runs
<1>3. 0 \in RunEnds(0, W) /\ W \in RunEnds(0, W)
  <2>1. 0 + W = W
    OBVIOUS
  <2> QED
    BY <2>1, NextEnd
<1> HIDE DEF L
<1>4. Runs(before, p, {})
  <2> SUFFICES ASSUME NEW i \in 1 .. n, NEW j \in 1 .. n, i < j
               PROVE  StablyBefore(before, s[i], s[j])
    BY DEF Runs, Apart
  <2>1. i \in 1 .. L /\ j \in 1 .. L /\ i \in Nat /\ j \in Nat /\ 0 < i /\ j <= 0 + W
    BY <1>1
  <2>2. ~Apart(RunEnds(0, W), i, j)
    BY <2>1, <1>3, NoEndWithin
  <2> QED
    BY <2>1, <2>2, <1>2
<1>5. Runs(before, r, RunEnds(W, W))
  <2> SUFFICES ASSUME NEW i \in 1 .. Len(r), NEW j \in 1 .. Len(r), i < j
               PROVE  IF Apart(RunEnds(W, W), i, j) THEN Earlier(before, r[i], r[j])
                      ELSE StablyBefore(before, r[i], r[j])
    BY DEF Runs
  <2>1. i \in 1 .. L - n /\ j \in 1 .. L - n
    BY DEF L
  <2>2. n < L
    BY <2>1, <1>1
  <2>3. n = W
    BY <2>2 DEF L
  <2>4. r[i] = s[W + i] /\ r[j] = s[W + j]
    BY <2>1, <2>3 DEF L
  <2>5. W + i \in 1 .. L /\ W + j \in 1 .. L /\ W + i < W + j /\ i \in Nat \ {0} /\ j \in Nat
    BY <2>1, <2>3, <1>1
  <2>6. Apart(RunEnds(0, W), W + i, W + j) <=> Apart(RunEnds(W, W), i, j)
    BY <2>5, ShiftRun
  <2> QED
    BY <2>4, <2>5, <2>6, <1>2
<1>6. ASSUME NEW x \in Range(p), NEW y \in Range(r) PROVE Earlier(before, x, y)
  <2>1. PICK i \in 1 .. n : p[i] = x
    BY RangeMembers
  <2>2. PICK j \in 1 .. Len(r) : r[j] = y
    BY RangeMembers
  <2>3. j \in 1 .. L - n
    BY DEF L
  <2>4. n = W
    <3>1. n < L
      BY <2>3, <1>1
    <3> QED
      BY <3>1 DEF L
  <2>5. s[i] = x /\ s[n + j] = y
    BY <2>1, <2>2, <2>3 DEF L
  <2>6. i \in 1 .. L /\ n + j \in 1 .. L /\ i < n + j /\ i <= W /\ W < n + j
    BY <2>3, <2>4, <1>1
  <2>7. Apart(RunEnds(0, W), i, n + j)
    BY <2>6, <1>3 DEF Apart
  <2> QED
    BY <2>5, <2>6, <2>7, <1>2
<1> QED
  BY <1>4, <1>5, <1>6

-----------------------------------------------------------------------------
(* The invariant of HASH_SRT.                                              *)

\* Between two merges: S is still to come.
InPass(t, s, D, S) ==
    /\ Pieces(s.before, D, <<>>, S) /\ Linked(t, s, D, <<>>, S)
    /\ s.insize # 0 /\ s.p = First(S)
    /\ Runs(s.before, D, RunEnds(0, 2 * s.insize)) /\ Runs(s.before, S, RunEnds(0, s.insize))
    /\ \A x \in Range(D), y \in Range(S) : Earlier(s.before, x, y)
    /\ Len(S) # 0 => Len(D) \in RunEnds(0, 2 * s.insize)
    /\ s.nmerges = 0 => Len(D) = 0
    /\ s.nmerges = 1 => Len(D) <= 2 * s.insize

\* e, out of D from behind a on, may come before x, the j-th of S.
Follows(s, x, y, j) == IF j <= s.qsize THEN StablyBefore(s.before, x, y) ELSE Earlier(s.before, x, y)

\* The order while two runs are merged: the merge began after a elements.
Merged(s, D, P, S, a) ==
    /\ Runs(s.before, D, RunEnds(0, 2 * s.insize)) /\ Runs(s.before, P, {})
    /\ Runs(s.before, S, RunEnds(s.qsize, s.insize))
    /\ \A x \in Range(P), y \in Range(S) : Earlier(s.before, x, y)
    /\ \A i \in 1 .. a : \A x \in Range(P) \cup Range(S) : Earlier(s.before, D[i], x)
    /\ \A i \in a + 1 .. Len(D) : \A x \in Range(P) : StablyBefore(s.before, D[i], x)
    /\ \A i \in a + 1 .. Len(D) : \A j \in 1 .. Len(S) : Follows(s, D[i], S[j], j)
\* While two runs are merged: D was a elements long when this began.
InMerge(t, s, D, P, S, a) ==
    /\ Pieces(s.before, D, P, S) /\ Linked(t, s, D, P, S) /\ Merged(s, D, P, S, a)
    /\ s.insize # 0 /\ s.psize = Len(P) /\ s.q = First(S) /\ (Len(P) # 0 => s.p = P[1])
    /\ a \in RunEnds(0, 2 * s.insize) /\ a <= Len(D)
    /\ Len(D) + s.psize + s.qsize <= a + 2 * s.insize
    /\ Len(S) # 0 => Len(D) + s.psize + s.qsize = a + 2 * s.insize
    /\ s.nmerges # 0
    /\ s.nmerges = 1 => a = 0

\* The invariant of HASH_SRT.
Sorting(t, s) ==
    /\ s \in Sorts
    /\ s.at = "pass" => \E D, S : InPass(t, s, D, S)
    /\ s.at = "merge" => \E D, P, S, a : InMerge(t, s, D, P, S, a)

\* Nothing is linked to nothing.
LEMMA EmptyPiece ==
    /\ <<>> \in Seq(Elements) /\ Len(<<>>) = 0 /\ IsInjective(<<>>) /\ Range(<<>>) = {}
    /\ First(<<>>) = NULL /\ Final(<<>>) = NULL
    /\ \A links : Leads(links, <<>>) /\ Back(links, <<>>) /\ Chain(links, <<>>)
    /\ \A before, B : Runs(before, <<>>, B)
<1>1. <<>> \in Seq(Elements) /\ Len(<<>>) = 0 /\ DOMAIN <<>> = {} /\ 1 .. 0 = {}
  OBVIOUS
<1>2. IsInjective(<<>>) /\ Range(<<>>) = {}
  BY <1>1 DEF IsInjective, Range
<1> QED
  BY <1>1, <1>2 DEF First, Final, Leads, Back, Chain, Runs

\* HASH_SRT begins with runs of one element.
LEMMA StartHolds ==
    ASSUME NEW t, NEW s, Sound(t, s)
    PROVE  Sorting(t, Pass(t.head, 1, s))
<1> DEFINE u == Pass(t.head, 1, s)
<1>1. /\ s \in Seq(Elements) /\ IsInjective(s) /\ t \in Tables /\ t.head = First(s) /\ Chain(t.next, s)
  BY DEF Sound, Listed
<1>2. /\ u.at = "pass" /\ u.insize = 1 /\ u.nmerges = 0 /\ u.list = NULL /\ u.tail = NULL
      /\ u.p = t.head /\ u.before = s
  BY DEF Pass
<1>3. u \in Sorts
  BY <1>1, PointerTypes DEF Pass, Sorts, Tables
<1> HIDE DEF u
<1>4. Pieces(s, <<>>, <<>>, s)
  BY <1>1, EmptyPiece DEF Pieces, Apart3
<1>5. Linked(t, u, <<>>, <<>>, s)
  BY <1>1, <1>2, EmptyPiece DEF Linked
<1>6. Runs(s, s, RunEnds(0, 1))
  <2> SUFFICES ASSUME NEW i \in 1 .. Len(s), NEW j \in 1 .. Len(s), i < j
               PROVE  Apart(RunEnds(0, 1), i, j) /\ Earlier(s, s[i], s[j])
    BY DEF Runs
  <2>1. i \in Nat /\ i = 0 + 1 * i
    OBVIOUS
  <2>2. i \in RunEnds(0, 1)
    BY <2>1 DEF RunEnds
  <2>3. i <= i /\ DOMAIN s = 1 .. Len(s)
    BY <1>1, <2>1
  <2> QED
    BY <2>2, <2>3 DEF Apart, Earlier
<1>7. 0 \in RunEnds(0, 2 * 1)
  <2>1. 2 * 1 \in Nat \ {0}
    OBVIOUS
  <2> QED
    BY <2>1, NextEnd
<1>8. InPass(t, u, <<>>, s)
  BY <1>1, <1>2, <1>4, <1>5, <1>6, <1>7, EmptyPiece DEF InPass
<1> QED
  BY <1>2, <1>3, <1>8 DEF Sorting, u

\* The first n elements of a chain, and the others.
LEMMA SplitHolds ==
    ASSUME NEW s \in Seq(Elements), IsInjective(s), NEW n \in 0 .. Len(s), NEW links, Chain(links, s)
    PROVE  \E p, r : /\ p \in Seq(Elements) /\ Len(p) = n /\ \A i \in 1 .. n : p[i] = s[i]
                     /\ r \in Seq(Elements) /\ Len(r) = Len(s) - n
                     /\ \A i \in 1 .. Len(s) - n : r[i] = s[n + i]
                     /\ IsInjective(p) /\ IsInjective(r) /\ Range(p) \cap Range(r) = {}
                     /\ Range(p) \cup Range(r) = Range(s)
                     /\ Leads(links, p) /\ Chain(links, r)
<1> DEFINE L == Len(s)
           p == SubSeq(s, 1, n)
           r == SubSeq(s, n + 1, L)
<1>1. L \in Nat /\ n \in Nat /\ n <= L /\ \A i \in 1 .. L : s[i] \in Elements
  OBVIOUS
<1>2. p \in Seq(Elements) /\ Len(p) = n /\ \A i \in 1 .. n : p[i] = s[i]
  <2>1. 1 \in Int /\ n \in Int /\ \A i \in 1 .. n : s[i] \in Elements
    BY <1>1
  <2>2. /\ p \in Seq(Elements) /\ Len(p) = IF 1 <= n THEN n - 1 + 1 ELSE 0
        /\ \A i \in 1 .. n - 1 + 1 : p[i] = s[1 + i - 1]
    BY <2>1, SubSeqProperties
  <2> QED
    BY <2>2, <1>1
<1>3. r \in Seq(Elements) /\ Len(r) = L - n /\ \A i \in 1 .. L - n : r[i] = s[n + i]
  <2>1. n + 1 \in Int /\ L \in Int /\ \A i \in n + 1 .. L : s[i] \in Elements
    BY <1>1
  <2>2. /\ r \in Seq(Elements) /\ Len(r) = IF n + 1 <= L THEN L - (n + 1) + 1 ELSE 0
        /\ \A i \in 1 .. L - (n + 1) + 1 : r[i] = s[(n + 1) + i - 1]
    BY <2>1, SubSeqProperties
  <2> QED
    BY <2>2, <1>1
<1> HIDE DEF p, r, L
<1>4. \A i, j \in 1 .. L : s[i] = s[j] => i = j
  BY InjectiveMembers DEF L
<1>5. /\ \A i \in 1 .. n : i \in 1 .. L
      /\ \A i \in 1 .. L - n : n + i \in 1 .. L
      /\ \A i \in 1 .. n, j \in 1 .. L - n : i # n + j
      /\ \A i, j \in 1 .. L - n : n + i = n + j => i = j
      /\ \A i \in 1 .. L : i \in 1 .. n \/ (i - n \in 1 .. L - n /\ n + (i - n) = i)
  BY <1>1
<1>6. IsInjective(p)
  <2>1. \A i, j \in 1 .. Len(p) : p[i] = p[j] => i = j
    BY <1>2, <1>4, <1>5
  <2> QED
    BY <2>1, <1>2, InjectiveMembers
<1>7. IsInjective(r)
  <2>1. \A i, j \in 1 .. Len(r) : r[i] = r[j] => i = j
    <3> SUFFICES ASSUME NEW i \in 1 .. L - n, NEW j \in 1 .. L - n, r[i] = r[j] PROVE i = j
      BY <1>3
    <3>1. s[n + i] = s[n + j]
      BY <1>3
    <3> QED
      BY <3>1, <1>4, <1>5
  <2> QED
    BY <2>1, <1>3, InjectiveMembers
<1>8. /\ \A x : x \in Range(s) <=> \E i \in 1 .. L : s[i] = x
      /\ \A x : x \in Range(p) <=> \E i \in 1 .. n : p[i] = x
      /\ \A x : x \in Range(r) <=> \E i \in 1 .. L - n : r[i] = x
  <2>1. \A x : x \in Range(s) <=> \E i \in 1 .. L : s[i] = x
    BY RangeMembers DEF L
  <2>2. \A x : x \in Range(p) <=> \E i \in 1 .. n : p[i] = x
    BY <1>2, RangeMembers
  <2>3. \A x : x \in Range(r) <=> \E i \in 1 .. L - n : r[i] = x
    BY <1>3, RangeMembers
  <2> QED
    BY <2>1, <2>2, <2>3
<1>9. Range(p) \cap Range(r) = {}
  <2> SUFFICES ASSUME NEW i \in 1 .. n, NEW j \in 1 .. L - n, p[i] = r[j] PROVE FALSE
    BY <1>8
  <2>1. s[i] = s[n + j]
    BY <1>2, <1>3
  <2> QED
    BY <2>1, <1>4, <1>5
<1>10. Range(p) \cup Range(r) = Range(s)
  <2>1. ASSUME NEW x \in Range(s) PROVE x \in Range(p) \cup Range(r)
    <3>1. PICK i \in 1 .. L : s[i] = x
      BY <1>8
    <3>2. CASE i \in 1 .. n
      BY <3>1, <3>2, <1>2, <1>8
    <3>3. CASE i - n \in 1 .. L - n /\ n + (i - n) = i
      <4>1. r[i - n] = s[n + (i - n)]
        BY <3>3, <1>3
      <4> QED
        BY <4>1, <3>1, <3>3, <1>8
    <3> QED
      BY <3>2, <3>3, <1>5
  <2>2. Range(p) \subseteq Range(s)
    BY <1>2, <1>5, <1>8
  <2>3. ASSUME NEW x \in Range(r) PROVE x \in Range(s)
    <3>1. PICK i \in 1 .. L - n : r[i] = x
      BY <1>8
    <3>2. s[n + i] = x /\ n + i \in 1 .. L
      BY <3>1, <1>3, <1>5
    <3> QED
      BY <3>2, <1>8
  <2> QED
    BY <2>1, <2>2, <2>3
<1>11. \A i \in 1 .. L : links[s[i]] = IF i = L THEN NULL ELSE s[i + 1]
  BY DEF Chain, L
<1>12. Leads(links, p)
  <2> SUFFICES ASSUME NEW i \in 1 .. n, i # n PROVE links[p[i]] = p[i + 1]
    BY <1>2 DEF Leads
  <2>1. i + 1 \in 1 .. n /\ i \in 1 .. L /\ i # L
    BY <1>1
  <2> QED
    BY <2>1, <1>2, <1>11
<1>13. Chain(links, r)
  <2> SUFFICES ASSUME NEW i \in 1 .. L - n
               PROVE  links[r[i]] = IF i = L - n THEN NULL ELSE r[i + 1]
    BY <1>3 DEF Chain
  <2>1. n + i \in 1 .. L /\ (n + i = L <=> i = L - n) /\ (n + i) + 1 = n + (i + 1)
    BY <1>1
  <2>2. i # L - n => i + 1 \in 1 .. L - n
    BY <1>1
  <2>3. links[s[n + i]] = IF n + i = L THEN NULL ELSE s[(n + i) + 1]
    BY <2>1, <1>11
  <2> QED
    BY <2>1, <2>2, <2>3, <1>3
<1>14. Len(p) = n /\ Len(r) = Len(s) - n /\ \A i \in 1 .. Len(s) - n : r[i] = s[n + i]
  BY <1>2, <1>3 DEF L
<1> QED
  BY <1>2, <1>3, <1>6, <1>7, <1>9, <1>10, <1>12, <1>13, <1>14

\* Stepping over a run finds where the next begins.
LEMMA NextRunsHolds ==
    ASSUME table \in Tables, Sorting(table, sort), NextRuns
    PROVE  table' = table /\ sort'.at = "merge" /\ sort'.before = sort.before /\ Sorting(table', sort')
<1> DEFINE W == sort.insize
           Ahead == Walk(table.next, sort.p, W)
           length == Cardinality({n \in 0 .. W - 1 : Ahead[n] # NULL})
           u == [sort EXCEPT !.at = "merge", !.nmerges = @ + 1, !.psize = length,
                             !.q = Ahead[W], !.qsize = W]
<1>1. sort.at = "pass" /\ sort.p # NULL /\ table' = table /\ sort \in Sorts
  BY DEF NextRuns, Sorting
<1>2. sort' = [sort EXCEPT !.at = "merge", !.nmerges = @ + 1, !.psize = length,
                           !.q = Ahead[W], !.qsize = W]
  BY DEF NextRuns
<1>3. PICK D, S : InPass(table, sort, D, S)
  BY <1>1 DEF Sorting
<1>4. /\ D \in Seq(Elements) /\ S \in Seq(Elements) /\ IsInjective(D) /\ IsInjective(S)
      /\ Range(D) \cap Range(S) = {} /\ Range(D) \cup Range(S) = Range(sort.before)
      /\ sort.p = First(S) /\ W \in Nat \ {0} /\ Chain(table.next, S) /\ table.next \in [Elements -> Link]
  <2>1. /\ D \in Seq(Elements) /\ S \in Seq(Elements) /\ IsInjective(D) /\ IsInjective(S)
        /\ Range(D) \cap Range(S) = {} /\ Range(D) \cup Range(S) = Range(sort.before)
    BY <1>3, EmptyPiece DEF InPass, Pieces, Apart3
  <2>2. sort.p = First(S) /\ W # 0 /\ Chain(table.next, S)
    BY <1>3 DEF InPass, Linked
  <2>3. W \in Nat /\ table.next \in [Elements -> Link]
    BY <1>1 DEF Sorts, Tables
  <2> QED
    BY <2>1, <2>2, <2>3
<1> DEFINE L == Len(S)
           n == IF W <= L THEN W ELSE L
<1>5. L \in Nat /\ L # 0 /\ \A k \in 1 .. L : S[k] \in Elements
  <2>1. L # 0
    BY <1>1, <1>4 DEF First
  <2> QED
    BY <2>1, <1>4
<1>6. n \in 0 .. L /\ n <= W /\ (n < L => n = W) /\ n # 0
  BY <1>4, <1>5
<1>7. \A k \in 0 .. W : Ahead[k] = IF k < L THEN S[k + 1] ELSE NULL
  BY <1>4, WalkChain, PointerTypes
<1> HIDE DEF Ahead, W, L
<1>8. length = n
  <2>1. \A k \in 0 .. W - 1 : Ahead[k] # NULL <=> k < L
    <3> TAKE k \in 0 .. W - 1
    <3>1. k \in 0 .. W
      BY <1>4
    <3>2. k < L => k + 1 \in 1 .. L
      BY <1>5
    <3> QED
      BY <3>1, <3>2, <1>5, <1>7, PointerTypes
  <2>2. {k \in 0 .. W - 1 : Ahead[k] # NULL} = 0 .. n - 1
    BY <2>1, <1>4, <1>5
  <2>3. Cardinality(0 .. n - 1) = n
    <3>1. 0 \in Int /\ n - 1 \in Int /\ n \in Nat /\ (0 > n - 1 <=> n = 0)
      BY <1>5, <1>6
    <3> HIDE DEF n
    <3>2. (n - 1) - 0 + 1 = n
      BY <3>1
    <3> QED
      BY <3>1, <3>2, FS_Interval
  <2> QED
    BY <2>2, <2>3
<1> HIDE DEF n, length
<1>9. PICK P, R : /\ P \in Seq(Elements) /\ Len(P) = n /\ \A i \in 1 .. n : P[i] = S[i]
                  /\ R \in Seq(Elements) /\ Len(R) = Len(S) - n
                  /\ \A i \in 1 .. Len(S) - n : R[i] = S[n + i]
                  /\ IsInjective(P) /\ IsInjective(R) /\ Range(P) \cap Range(R) = {}
                  /\ Range(P) \cup Range(R) = Range(S)
                  /\ Leads(table.next, P) /\ Chain(table.next, R)
  <2>1. n \in 0 .. Len(S)
    BY <1>6 DEF L
  <2> QED
    BY <2>1, <1>4, SplitHolds
<1>10. Ahead[W] = First(R)
  <2>1. Ahead[W] = IF W < L THEN S[W + 1] ELSE NULL
    BY <1>4, <1>7
  <2>2. CASE W < L
    <3>1. n = W /\ Len(R) # 0 /\ 1 \in 1 .. Len(S) - n
      BY <2>2, <1>4, <1>5, <1>9 DEF n, L
    <3> QED
      BY <3>1, <2>1, <2>2, <1>9 DEF First
  <2>3. CASE ~ (W < L)
    <3>1. n = L /\ Len(R) = 0
      BY <2>3, <1>4, <1>5, <1>9 DEF n, L
    <3> QED
      BY <3>1, <2>1, <2>3 DEF First
  <2> QED
    BY <2>2, <2>3
<1>11. /\ u.at = "merge" /\ u.nmerges = sort.nmerges + 1 /\ u.psize = n /\ u.q = First(R) /\ u.qsize = W
       /\ u.insize = W /\ u.before = sort.before /\ u.list = sort.list /\ u.tail = sort.tail
       /\ u.p = sort.p
  BY <1>1, <1>8, <1>10 DEF Sorts, W
<1>12. u \in Sorts
  <2>1. First(R) \in Link
    <3>1. Len(R) # 0 => R[1] \in Elements
      BY <1>9
    <3> QED
      BY <3>1, PointerTypes DEF First
  <2>2. length \in Nat /\ W \in Nat /\ sort.nmerges + 1 \in Nat /\ Ahead[W] \in Link
    <3>1. n \in Nat
      BY <1>5, <1>6
    <3>2. sort.nmerges \in Nat
      BY <1>1 DEF Sorts
    <3> QED
      BY <3>1, <3>2, <2>1, <1>4, <1>8, <1>10
  <2> QED
    BY <2>2, <1>1 DEF Sorts
<1> DEFINE a == Len(D)
<1>13. InMerge(table, u, D, P, R, a)
  <2> HIDE DEF u
  <2>1. Pieces(u.before, D, P, R)
    BY <1>4, <1>9, <1>11 DEF Pieces, Apart3
  <2>2. Linked(table, u, D, P, R)
    BY <1>3, <1>9, <1>11 DEF InPass, Linked
  <2>3. Runs(sort.before, S, RunEnds(0, W)) /\ Runs(sort.before, D, RunEnds(0, 2 * W))
    BY <1>3 DEF InPass, W
  <2>4. /\ Runs(sort.before, P, {}) /\ Runs(sort.before, R, RunEnds(W, W))
        /\ \A x \in Range(P), y \in Range(R) : Earlier(sort.before, x, y)
    <3>1. n \in 0 .. Len(S)
      BY <1>6 DEF L
    <3>2. n < Len(S) => n = W
      BY <1>6 DEF L
    <3>3. n <= W /\ W \in Nat \ {0}
      BY <1>4, <1>6
    <3>4. P \in Seq(Elements) /\ Len(P) = n /\ \A i \in 1 .. n : P[i] = S[i]
      BY <1>9
    <3>5. R \in Seq(Elements) /\ Len(R) = Len(S) - n /\ \A i \in 1 .. Len(S) - n : R[i] = S[n + i]
      BY <1>9
    <3>6. S \in Seq(Elements) /\ Runs(sort.before, S, RunEnds(0, W))
      BY <2>3, <1>4
    <3> QED
      BY <3>1, <3>2, <3>3, <3>4, <3>5, <3>6, RunsSplit
  <2>5. \A i \in 1 .. a : \A x \in Range(P) \cup Range(R) : Earlier(sort.before, D[i], x)
    <3>1. \A x \in Range(D), y \in Range(S) : Earlier(sort.before, x, y)
      BY <1>3 DEF InPass
    <3>2. \A i \in 1 .. a : D[i] \in Range(D)
      BY <1>4, RangeMembers
    <3> QED
      BY <3>1, <3>2, <1>9
  <2>6. a + 1 .. Len(D) = {}
    BY <1>4
  <2>7. Merged(u, D, P, R, a)
    BY <2>3, <2>4, <2>5, <2>6, <1>11 DEF Merged
  <2>8. Len(P) # 0 => u.p = P[1]
    <3>1. Len(P) # 0 => 1 \in 1 .. n
      BY <1>9, <1>6, <1>5
    <3> QED
      BY <3>1, <1>4, <1>5, <1>9, <1>11 DEF First, L
  <2>9. a \in RunEnds(0, 2 * W) /\ a <= Len(D)
    <3>1. Len(S) # 0 => Len(D) \in RunEnds(0, 2 * W)
      BY <1>3 DEF InPass, W
    <3>2. Len(D) \in Nat
      BY <1>4
    <3> QED
      BY <3>1, <3>2, <1>5 DEF L
  <2>10. /\ Len(D) + u.psize + u.qsize <= a + 2 * W
         /\ Len(R) # 0 => Len(D) + u.psize + u.qsize = a + 2 * W
    <3>1. Len(D) \in Nat /\ n \in Nat /\ n <= W /\ W \in Nat
      BY <1>4, <1>6
    <3>2. Len(R) # 0 => n = W
      BY <1>5, <1>6, <1>9 DEF L
    <3> QED
      BY <3>1, <3>2, <1>11
  <2>11. u.nmerges # 0 /\ (u.nmerges = 1 => a = 0)
    <3>1. sort.nmerges \in Nat
      BY <1>1 DEF Sorts
    <3>2. sort.nmerges = 0 => a = 0
      BY <1>3 DEF InPass
    <3> QED
      BY <3>1, <3>2, <1>11
  <2> QED
    BY <2>1, <2>2, <2>7, <2>8, <2>9, <2>10, <2>11, <1>4, <1>9, <1>11 DEF InMerge
<1>14. Sorting(table, u)
  <2> HIDE DEF u
  <2> QED
    BY <1>11, <1>12, <1>13 DEF Sorting
<1>15. sort' = u
  BY <1>2 DEF u, length, Ahead, W
<1> HIDE DEF u
<1> QED
  BY <1>1, <1>11, <1>14, <1>15

\* Two runs are merged when the one at p is used up and q has no more of its own.
LEMMA RunsMergedHolds ==
    ASSUME table \in Tables, Sorting(table, sort), RunsMerged
    PROVE  table' = table /\ sort'.at = "pass" /\ sort'.before = sort.before /\ Sorting(table', sort')
<1> DEFINE W == sort.insize
           u == [sort EXCEPT !.at = "pass", !.p = sort.q]
<1>1. /\ sort.at = "merge" /\ ~ (sort.psize > 0 \/ QLeft) /\ table' = table /\ sort' = u /\ sort \in Sorts
  BY DEF RunsMerged, Sorting
<1>2. PICK D, P, S, a : InMerge(table, sort, D, P, S, a)
  BY <1>1 DEF Sorting
<1>3. W \in Nat \ {0} /\ sort.psize \in Nat /\ sort.qsize \in Nat /\ sort.nmerges \in Nat /\ sort.q \in Link
  <2>1. W # 0
    BY <1>2 DEF InMerge
  <2> QED
    BY <2>1, <1>1 DEF Sorts
<1>4. /\ D \in Seq(Elements) /\ P \in Seq(Elements) /\ S \in Seq(Elements)
      /\ Len(D) \in Nat /\ Len(P) \in Nat /\ Len(S) \in Nat
      /\ \A n \in 1 .. Len(D) : D[n] \in Range(D)
      /\ \A x \in Range(D) : \E n \in 1 .. Len(D) : D[n] = x
      /\ \A n \in 1 .. Len(S) : S[n] \in Elements
      /\ \A x \in Range(S) : \E n \in 1 .. Len(S) : S[n] = x
  <2>1. D \in Seq(Elements) /\ P \in Seq(Elements) /\ S \in Seq(Elements)
    BY <1>2 DEF InMerge, Pieces
  <2> QED
    BY <2>1, RangeMembers
<1>5. P = <<>>
  <2>1. Len(P) = 0
    BY <1>1, <1>2, <1>3 DEF InMerge
  <2> QED
    BY <2>1, <1>4
<1>6. Len(S) # 0 => sort.qsize = 0
  <2>1. Len(S) # 0 => sort.q # NULL
    <3>1. Len(S) # 0 => S[1] \in Elements
      BY <1>4
    <3> QED
      BY <3>1, <1>2, PointerTypes DEF InMerge, First
  <2> QED
    BY <2>1, <1>1, <1>3 DEF QLeft
<1>7. /\ u.at = "pass" /\ u.p = sort.q /\ u.before = sort.before /\ u.insize = W
      /\ u.list = sort.list /\ u.tail = sort.tail /\ u.nmerges = sort.nmerges /\ u \in Sorts
  BY <1>1, <1>3 DEF Sorts
<1> HIDE DEF u, W
<1>8. InPass(table, u, D, S)
  <2>1. Pieces(u.before, D, <<>>, S) /\ Linked(table, u, D, <<>>, S)
    BY <1>2, <1>5, <1>7 DEF InMerge, Linked
  <2>2. u.p = First(S) /\ u.insize # 0
    BY <1>2, <1>3, <1>7 DEF InMerge
  <2>3. /\ Runs(sort.before, D, RunEnds(0, 2 * W)) /\ Runs(sort.before, S, RunEnds(sort.qsize, W))
        /\ \A i \in 1 .. a : \A x \in Range(S) : Earlier(sort.before, D[i], x)
        /\ \A i \in a + 1 .. Len(D) : \A j \in 1 .. Len(S) : Follows(sort, D[i], S[j], j)
    BY <1>2 DEF InMerge, Merged, W
  <2>4. Runs(sort.before, S, RunEnds(0, W))
    <3>1. CASE Len(S) = 0
      BY <3>1 DEF Runs
    <3>2. CASE Len(S) # 0
      BY <3>2, <2>3, <1>6
    <3> QED
      BY <3>1, <3>2
  <2>5. a \in Nat /\ a \in RunEnds(0, 2 * W) /\ a <= Len(D)
    <3>1. a \in RunEnds(0, 2 * W) /\ a <= Len(D)
      BY <1>2 DEF InMerge, W
    <3>2. 2 * W \in Nat \ {0}
      BY <1>3
    <3> QED
      BY <3>1, <3>2, NextEnd
  <2>6. \A x \in Range(D), y \in Range(S) : Earlier(sort.before, x, y)
    <3> SUFFICES ASSUME NEW x \in Range(D), NEW y \in Range(S) PROVE Earlier(sort.before, x, y)
      OBVIOUS
    <3>1. PICK i \in 1 .. Len(D) : D[i] = x
      BY <1>4
    <3>2. PICK j \in 1 .. Len(S) : S[j] = y
      BY <1>4
    <3>3. CASE i <= a
      <4>1. i \in 1 .. a
        BY <3>3, <2>5
      <4> QED
        BY <4>1, <3>1, <2>3
    <3>4. CASE ~ (i <= a)
      <4>1. i \in a + 1 .. Len(D)
        BY <3>4, <2>5, <1>4
      <4>2. ~ (j <= sort.qsize)
        <5>1. Len(S) # 0
          BY <1>4
        <5> QED
          BY <5>1, <1>6
      <4>3. Follows(sort, D[i], S[j], j)
        BY <4>1, <2>3
      <4> QED
        BY <4>2, <4>3, <3>1, <3>2 DEF Follows
    <3> QED
      BY <3>3, <3>4
  <2>7. sort.psize = 0
    BY <1>1, <1>3
  <2>8. Len(S) # 0 => Len(D) \in RunEnds(0, 2 * W)
    <3> SUFFICES ASSUME Len(S) # 0 PROVE Len(D) \in RunEnds(0, 2 * W)
      OBVIOUS
    <3>1. Len(D) + sort.psize + sort.qsize = a + 2 * W
      BY <1>2 DEF InMerge, W
    <3>2. Len(D) = a + 2 * W
      BY <3>1, <2>5, <2>7, <1>3, <1>4, <1>6
    <3>3. 2 * W \in Nat \ {0}
      BY <1>3
    <3> QED
      BY <3>2, <3>3, <2>5, NextEnd
  <2>9. Len(D) <= a + 2 * W
    <3>1. Len(D) + sort.psize + sort.qsize <= a + 2 * W
      BY <1>2 DEF InMerge, W
    <3> QED
      BY <3>1, <2>5, <2>7, <1>3, <1>4
  <2>10. sort.nmerges # 0 /\ (sort.nmerges = 1 => a = 0)
    BY <1>2 DEF InMerge
  <2>11. sort.nmerges = 1 => Len(D) <= 2 * W
    BY <2>9, <2>10, <1>3
  <2> QED
    BY <2>1, <2>2, <2>3, <2>4, <2>6, <2>8, <2>10, <2>11, <1>7 DEF InPass
<1> QED
  BY <1>1, <1>7, <1>8 DEF Sorting

\* e is the first of P or S; Q and R are what it leaves of them.
Takes(t, D, P, S, e, Q, R) ==
    /\ e \in Elements /\ e \in Range(P) \cup Range(S)
    /\ Q \in Seq(Elements) /\ R \in Seq(Elements) /\ IsInjective(Q) /\ IsInjective(R)
    /\ e \notin Range(Q) /\ e \notin Range(R)
    /\ Range(Q) \subseteq Range(P) /\ Range(R) \subseteq Range(S)
    /\ Range(Q) \cup Range(R) \cup {e} = Range(P) \cup Range(S)
    /\ Leads(t.next, Q) /\ Chain(t.next, R)

\* What one merge does to the variables of HASH_SRT.
TakenTo(s, u, e, Q, R) ==
    /\ u.insize = s.insize /\ u.nmerges = s.nmerges /\ u.before = s.before
    /\ u.list = IF s.tail = NULL THEN e ELSE s.list
    /\ u.tail = e
    /\ u.psize = Len(Q) /\ u.q = First(R) /\ (Len(Q) # 0 => u.p = Q[1])
    /\ u.psize \in Nat /\ u.qsize \in Nat /\ u.psize + u.qsize + 1 = s.psize + s.qsize

\* The order of e with respect to all others.
Fits(s, u, D, a, e, Q, R) ==
    /\ Runs(u.before, Q, {}) /\ Runs(u.before, R, RunEnds(u.qsize, u.insize))
    /\ \A i \in a + 1 .. Len(D) : StablyBefore(u.before, D[i], e)
    /\ \A x \in Range(Q) : StablyBefore(u.before, e, x)
    /\ \A j \in 1 .. Len(R) : Follows(u, e, R[j], j)
    /\ \A i \in a + 1 .. Len(D) : \A j \in 1 .. Len(R) : Follows(u, D[i], R[j], j)

\* Linking e behind D keeps the invariant, if it fits there.
LEMMA TakenHolds ==
    ASSUME NEW t \in Tables, NEW s \in Sorts, NEW D, NEW P, NEW S, NEW a, InMerge(t, s, D, P, S, a),
           NEW e, NEW Q, NEW R, Takes(t, D, P, S, e, Q, R),
           NEW u, TakenTo(s, u, e, Q, R), Fits(s, u, D, a, e, Q, R),
           NEW r, LinkedTo(r, t, s, e)
    PROVE  InMerge(r, u, Append(D, e), Q, R, a)
<1> DEFINE W == s.insize
           E == Append(D, e)
<1>1. /\ D \in Seq(Elements) /\ IsInjective(D) /\ Len(D) \in Nat /\ Apart3(D, P, S)
      /\ Range(D) \cup Range(P) \cup Range(S) = Range(s.before)
      /\ W \in Nat \ {0} /\ s.psize \in Nat /\ s.qsize \in Nat
      /\ Linked(t, s, D, P, S)
  <2>1. D \in Seq(Elements) /\ IsInjective(D) /\ Apart3(D, P, S)
        /\ Range(D) \cup Range(P) \cup Range(S) = Range(s.before)
    BY DEF InMerge, Pieces
  <2>2. W # 0 /\ Linked(t, s, D, P, S)
    BY DEF InMerge
  <2>3. W \in Nat /\ s.psize \in Nat /\ s.qsize \in Nat
    BY DEF Sorts
  <2> QED
    BY <2>1, <2>2, <2>3
<1>2. /\ e \in Elements /\ e \in Range(P) \cup Range(S)
      /\ Q \in Seq(Elements) /\ R \in Seq(Elements) /\ IsInjective(Q) /\ IsInjective(R)
      /\ e \notin Range(Q) /\ e \notin Range(R)
      /\ Range(Q) \subseteq Range(P) /\ Range(R) \subseteq Range(S)
      /\ Range(Q) \cup Range(R) \cup {e} = Range(P) \cup Range(S)
      /\ Leads(t.next, Q) /\ Chain(t.next, R)
  BY DEF Takes
<1>3. /\ u.insize = W /\ u.nmerges = s.nmerges /\ u.before = s.before
      /\ u.list = IF s.tail = NULL THEN e ELSE s.list
      /\ u.tail = e
      /\ u.psize = Len(Q) /\ u.q = First(R) /\ (Len(Q) # 0 => u.p = Q[1])
      /\ u.psize \in Nat /\ u.qsize \in Nat /\ u.psize + u.qsize + 1 = s.psize + s.qsize
  BY DEF TakenTo
<1>4. e \notin Range(D) /\ Apart3(D, Q, R)
  BY <1>1, <1>2 DEF Apart3
<1>5. /\ Linked(r, u, E, Q, R) /\ E \in Seq(Elements) /\ IsInjective(E)
      /\ Range(E) = Range(D) \cup {e} /\ Apart3(E, Q, R)
  <2>1. D \in Seq(Elements) /\ Linked(t, s, D, P, S) /\ IsInjective(D)
    BY <1>1
  <2>2. Q \in Seq(Elements) /\ R \in Seq(Elements) /\ Leads(t.next, Q) /\ Chain(t.next, R)
    BY <1>2
  <2>3. e \in Elements /\ e \notin Range(D) /\ e \notin Range(Q) /\ e \notin Range(R) /\ Apart3(D, Q, R)
    BY <1>2, <1>4
  <2>4. u.list = (IF s.tail = NULL THEN e ELSE s.list) /\ u.tail = e
    BY <1>3
  <2> HIDE DEF E, W
  <2>5. /\ Linked(r, u, Append(D, e), Q, R)
        /\ Append(D, e) \in Seq(Elements) /\ IsInjective(Append(D, e))
        /\ Range(Append(D, e)) = Range(D) \cup {e} /\ Apart3(Append(D, e), Q, R)
    BY <2>1, <2>2, <2>3, <2>4, LinkedStep
  <2> QED
    BY <2>5 DEF E
<1>6. Len(E) = Len(D) + 1 /\ E[Len(D) + 1] = e /\ \A n \in 1 .. Len(D) : E[n] = D[n]
  BY <1>1, <1>2, AppendProperties
<1> HIDE DEF E, W
<1>7. /\ a \in RunEnds(0, 2 * W) /\ a <= Len(D) /\ a \in Nat
      /\ Len(D) + s.psize + s.qsize <= a + 2 * W
      /\ Len(S) # 0 => Len(D) + s.psize + s.qsize = a + 2 * W
  <2>1. /\ a \in RunEnds(0, 2 * W) /\ a <= Len(D)
        /\ Len(D) + s.psize + s.qsize <= a + 2 * W
        /\ Len(S) # 0 => Len(D) + s.psize + s.qsize = a + 2 * W
    BY DEF InMerge, W
  <2>2. 2 * W \in Nat \ {0}
    BY <1>1
  <2> QED
    BY <2>1, <2>2, NextEnd
<1>0. /\ Len(D) < a + 2 * W /\ (Len(D) + 1) + u.psize + u.qsize <= a + 2 * W
      /\ Len(D) + s.psize + s.qsize = a + 2 * W => (Len(D) + 1) + u.psize + u.qsize = a + 2 * W
  <2> DEFINE d == Len(D)
             V == 2 * W
             p == s.psize
             q == s.qsize
             m == u.psize
             n == u.qsize
  <2>1. d \in Nat /\ a \in Nat /\ V \in Nat
    BY <1>1, <1>7
  <2>2. p \in Nat /\ q \in Nat
    BY <1>1
  <2>3. m \in Nat /\ n \in Nat
    BY <1>3
  <2>4. m + n + 1 = p + q
    BY <1>3
  <2>5. d + p + q <= a + V
    BY <1>7
  <2> HIDE DEF d, V, p, q, m, n
  <2>6. /\ d < a + V /\ (d + 1) + m + n <= a + V
        /\ d + p + q = a + V => (d + 1) + m + n = a + V
    BY <2>1, <2>2, <2>3, <2>4, <2>5
  <2> QED
    BY <2>6 DEF d, V, p, q, m, n
<1>8. /\ Runs(s.before, D, RunEnds(0, 2 * W))
      /\ \A x \in Range(P), y \in Range(S) : Earlier(s.before, x, y)
      /\ \A i \in 1 .. a : \A x \in Range(P) \cup Range(S) : Earlier(s.before, D[i], x)
      /\ \A i \in a + 1 .. Len(D) : \A x \in Range(P) : StablyBefore(s.before, D[i], x)
  BY DEF InMerge, Merged, W
<1>9. /\ Runs(s.before, Q, {}) /\ Runs(s.before, R, RunEnds(u.qsize, W))
      /\ \A i \in a + 1 .. Len(D) : StablyBefore(s.before, D[i], e)
      /\ \A x \in Range(Q) : StablyBefore(s.before, e, x)
      /\ \A j \in 1 .. Len(R) : Follows(u, e, R[j], j)
      /\ \A i \in a + 1 .. Len(D) : \A j \in 1 .. Len(R) : Follows(u, D[i], R[j], j)
  BY <1>3 DEF Fits
<1>10. Runs(s.before, E, RunEnds(0, 2 * W))
  <2>1. 2 * W \in Nat \ {0}
    BY <1>1
  <2>2. Len(D) < a + 2 * W
    BY <1>0
  <2>3. \A i \in 1 .. a : Earlier(s.before, D[i], e)
    BY <1>2, <1>8
  <2>4. \A i \in a + 1 .. Len(D) : StablyBefore(s.before, D[i], e)
    BY <1>9
  <2>5. a \in RunEnds(0, 2 * W) /\ a <= Len(D) /\ Runs(s.before, D, RunEnds(0, 2 * W))
    BY <1>7, <1>8
  <2> QED
    BY <2>1, <2>2, <2>3, <2>4, <2>5, <1>1, <1>2, RunsAppend DEF E
<1>11. ASSUME NEW i \in a + 1 .. Len(E) PROVE i = Len(D) + 1 \/ i \in a + 1 .. Len(D)
  BY <1>1, <1>6, <1>7
<1>12. \A i \in a + 1 .. Len(D) : E[i] = D[i]
  BY <1>1, <1>6, <1>7
<1>13. Merged(u, E, Q, R, a)
  <2>1. \A i \in 1 .. a : \A x \in Range(Q) \cup Range(R) : Earlier(s.before, E[i], x)
    <3>1. \A i \in 1 .. a : E[i] = D[i]
      BY <1>1, <1>6, <1>7
    <3> QED
      BY <3>1, <1>2, <1>8
  <2>2. \A i \in a + 1 .. Len(E) : \A x \in Range(Q) : StablyBefore(s.before, E[i], x)
    BY <1>2, <1>6, <1>8, <1>9, <1>11, <1>12
  <2>3. \A i \in a + 1 .. Len(E) : \A j \in 1 .. Len(R) : Follows(u, E[i], R[j], j)
    BY <1>6, <1>9, <1>11, <1>12
  <2>4. \A x \in Range(Q), y \in Range(R) : Earlier(s.before, x, y)
    BY <1>2, <1>8
  <2> QED
    BY <2>1, <2>2, <2>3, <2>4, <1>3, <1>9, <1>10 DEF Merged
<1>14. Pieces(u.before, E, Q, R)
  <2>1. Range(E) \cup Range(Q) \cup Range(R) = Range(u.before)
    BY <1>1, <1>2, <1>3, <1>5
  <2> QED
    BY <2>1, <1>2, <1>5 DEF Pieces
<1>15. /\ Len(E) + u.psize + u.qsize <= a + 2 * W
       /\ Len(R) # 0 => Len(E) + u.psize + u.qsize = a + 2 * W
  <2>1. 2 * W \in Nat
    BY <1>1
  <2>2. Len(R) # 0 => Len(S) # 0
    <3>1. Len(R) # 0 => 1 \in 1 .. Len(R)
      BY <1>2
    <3>2. Len(R) # 0 => R[1] \in Range(S)
      BY <3>1, <1>2, RangeMembers
    <3>3. S \in Seq(Elements)
      BY DEF InMerge, Pieces
    <3>4. \A x \in Range(S) : \E n \in 1 .. Len(S) : S[n] = x
      BY <3>3, RangeMembers
    <3>5. Len(S) = 0 => 1 .. Len(S) = {}
      OBVIOUS
    <3> QED
      BY <3>2, <3>4, <3>5
  <2> QED
    BY <2>2, <1>0, <1>6, <1>7
<1>16. a <= Len(E) /\ u.nmerges # 0 /\ (u.nmerges = 1 => a = 0)
  <2>1. s.nmerges # 0 /\ (s.nmerges = 1 => a = 0)
    BY DEF InMerge
  <2> QED
    BY <2>1, <1>1, <1>3, <1>6, <1>7
<1>17. u.insize # 0 /\ a \in RunEnds(0, 2 * u.insize)
  BY <1>1, <1>3, <1>7
<1> QED
  BY <1>3, <1>5, <1>13, <1>14, <1>15, <1>16, <1>17 DEF InMerge, E

\* The ranks within a sorted run.
LEMMA RunRanks ==
    ASSUME NEW before, NEW s \in Seq(Elements), NEW q \in Nat, NEW W \in Nat \ {0},
           Runs(before, s, {}) \/ Runs(before, s, RunEnds(q, W)),
           NEW j \in 1 .. Len(s), Runs(before, s, {}) \/ j <= q
    PROVE  Rank[s[1]] <= Rank[s[j]]
<1>1. 1 \in 1 .. Len(s) /\ j \in Nat /\ s[1] \in Elements /\ s[j] \in Elements
  OBVIOUS
<1>2. Rank[s[1]] \in Nat /\ Rank[s[j]] \in Nat
  BY <1>1, HashAssumption
<1>3. CASE j = 1
  BY <1>2, <1>3
<1>4. CASE j # 1
  <2>1. 1 < j
    BY <1>1, <1>4
  <2>2. StablyBefore(before, s[1], s[j])
    <3>1. CASE Runs(before, s, {})
      BY <3>1, <2>1, <1>1 DEF Runs, Apart
    <3>2. CASE Runs(before, s, RunEnds(q, W)) /\ j <= q
      <4>1. ~Apart(RunEnds(q, W), 1, j)
        BY <3>2, <1>1, FirstRun
      <4> QED
        BY <4>1, <3>2, <2>1, <1>1 DEF Runs
    <3> QED
      BY <3>1, <3>2
  <2> QED
    BY <2>2, <1>2 DEF StablyBefore
<1> QED
  BY <1>3, <1>4

\* What remains the same, and the new end of what is linked.
Linking(s, u, e) ==
    /\ u.insize = s.insize /\ u.nmerges = s.nmerges /\ u.before = s.before
    /\ u.list = IF s.tail = NULL THEN e ELSE s.list
    /\ u.tail = e

\* What InMerge says of the pieces, one by one.
LEMMA InMergeParts ==
    ASSUME NEW t, NEW s \in Sorts, NEW D, NEW P, NEW S, NEW a, InMerge(t, s, D, P, S, a)
    PROVE  /\ D \in Seq(Elements) /\ P \in Seq(Elements) /\ S \in Seq(Elements)
           /\ IsInjective(P) /\ IsInjective(S) /\ Range(P) \cap Range(S) = {}
           /\ Len(D) \in Nat /\ Len(P) \in Nat /\ Len(S) \in Nat
           /\ Leads(t.next, P) /\ Chain(t.next, S)
           /\ s.insize \in Nat \ {0} /\ s.psize = Len(P) /\ s.qsize \in Nat
           /\ s.q = First(S) /\ (Len(P) # 0 => s.p = P[1])
           /\ Runs(s.before, P, {}) /\ Runs(s.before, S, RunEnds(s.qsize, s.insize))
           /\ \A x \in Range(P), y \in Range(S) : Earlier(s.before, x, y)
           /\ \A i \in a + 1 .. Len(D) : \A x \in Range(P) : StablyBefore(s.before, D[i], x)
           /\ \A i \in a + 1 .. Len(D) : \A j \in 1 .. Len(S) : Follows(s, D[i], S[j], j)
<1>1. /\ D \in Seq(Elements) /\ P \in Seq(Elements) /\ S \in Seq(Elements)
      /\ IsInjective(P) /\ IsInjective(S) /\ Range(P) \cap Range(S) = {}
  BY DEF InMerge, Pieces, Apart3
<1>2. Len(D) \in Nat /\ Len(P) \in Nat /\ Len(S) \in Nat
  BY <1>1
<1>3. Leads(t.next, P) /\ Chain(t.next, S)
  BY DEF InMerge, Linked
<1>4. s.insize \in Nat \ {0} /\ s.qsize \in Nat
  <2>1. s.insize # 0
    BY DEF InMerge
  <2> QED
    BY <2>1 DEF Sorts
<1>5. s.psize = Len(P) /\ s.q = First(S) /\ (Len(P) # 0 => s.p = P[1])
  BY DEF InMerge
<1>6. /\ Runs(s.before, P, {}) /\ Runs(s.before, S, RunEnds(s.qsize, s.insize))
      /\ \A x \in Range(P), y \in Range(S) : Earlier(s.before, x, y)
      /\ \A i \in a + 1 .. Len(D) : \A x \in Range(P) : StablyBefore(s.before, D[i], x)
      /\ \A i \in a + 1 .. Len(D) : \A j \in 1 .. Len(S) : Follows(s, D[i], S[j], j)
  BY DEF InMerge, Merged
<1> QED
  BY <1>1, <1>2, <1>3, <1>4, <1>5, <1>6

\* The first of the run at p fits: what q has left is not smaller, and was behind it.
LEMMA TakePHolds ==
    ASSUME NEW t, NEW s \in Sorts, NEW D, NEW P, NEW S, NEW a, InMerge(t, s, D, P, S, a),
           s.psize > 0, s.qsize > 0 /\ s.q # NULL => Rank[s.p] <= Rank[s.q],
           NEW u, Linking(s, u, s.p),
           u.p = t.next[s.p], u.psize = s.psize - 1, u.q = s.q, u.qsize = s.qsize
    PROVE  LET Q == RemoveAt(P, 1)
           IN Takes(t, D, P, S, s.p, Q, S) /\ TakenTo(s, u, s.p, Q, S) /\ Fits(s, u, D, a, s.p, Q, S)
<1> DEFINE e == s.p
           Q == RemoveAt(P, 1)
           B == s.before
<1>1. /\ D \in Seq(Elements) /\ P \in Seq(Elements) /\ S \in Seq(Elements)
      /\ IsInjective(P) /\ IsInjective(S) /\ Range(P) \cap Range(S) = {}
      /\ Len(D) \in Nat /\ Len(P) \in Nat /\ Len(S) \in Nat
      /\ Leads(t.next, P) /\ Chain(t.next, S)
      /\ s.insize \in Nat \ {0} /\ s.psize = Len(P) /\ s.qsize \in Nat
      /\ s.q = First(S) /\ (Len(P) # 0 => s.p = P[1])
  BY InMergeParts
<1>2. /\ Runs(B, P, {}) /\ Runs(B, S, RunEnds(s.qsize, s.insize))
      /\ \A x \in Range(P), y \in Range(S) : Earlier(B, x, y)
      /\ \A i \in a + 1 .. Len(D) : \A x \in Range(P) : StablyBefore(B, D[i], x)
      /\ \A i \in a + 1 .. Len(D) : \A j \in 1 .. Len(S) : Follows(s, D[i], S[j], j)
  BY InMergeParts
<1>3. Len(P) # 0 /\ e = P[1]
  BY <1>1
<1>4. /\ Q \in Seq(Elements) /\ Len(Q) = Len(P) - 1 /\ Len(Q) \in Nat
      /\ IsInjective(Q) /\ Range(Q) = Range(P) \ {P[1]}
      /\ P[1] \in Elements /\ P[1] \in Range(P)
  BY <1>1, <1>3, RestHolds
<1>5. Leads(t.next, Q) /\ (Len(P) # 1 => t.next[P[1]] = Q[1])
  BY <1>1, <1>3, RestLinks
<1>6. Runs(B, Q, {}) /\ \A x \in Range(Q) : StablyBefore(B, P[1], x)
  BY <1>1, <1>2, <1>3, SortedRest
<1> HIDE DEF Q
<1>7. /\ u.insize = s.insize /\ u.nmerges = s.nmerges /\ u.before = B
      /\ u.list = (IF s.tail = NULL THEN e ELSE s.list) /\ u.tail = e
  BY DEF Linking
<1>8. Takes(t, D, P, S, e, Q, S)
  <2>1. e \notin Range(S) /\ e \notin Range(Q) /\ Range(Q) \cup Range(S) \cup {e} = Range(P) \cup Range(S)
    BY <1>1, <1>3, <1>4
  <2> QED
    BY <2>1, <1>1, <1>3, <1>4, <1>5 DEF Takes
<1>9. TakenTo(s, u, e, Q, S)
  <2>1. u.psize = Len(Q) /\ u.psize \in Nat /\ u.qsize \in Nat /\ u.psize + u.qsize + 1 = s.psize + s.qsize
    BY <1>1, <1>4
  <2>2. Len(Q) # 0 => u.p = Q[1]
    BY <1>1, <1>3, <1>4, <1>5
  <2> QED
    BY <2>1, <2>2, <1>1, <1>7 DEF TakenTo
<1>10. ASSUME NEW j \in 1 .. Len(S) PROVE Follows(u, e, S[j], j)
  <2>1. S[j] \in Range(S) /\ S[j] \in Elements /\ S[1] \in Elements /\ j \in Nat
    BY <1>1, RangeMembers
  <2>2. Earlier(B, e, S[j])
    BY <2>1, <1>2, <1>3, <1>4
  <2>3. CASE j <= s.qsize
    <3>1. s.qsize > 0 /\ s.q = S[1] /\ s.q # NULL
      BY <2>1, <2>3, <1>1, PointerTypes DEF First
    <3>2. Rank[e] <= Rank[S[1]]
      BY <3>1
    <3>3. Rank[S[1]] <= Rank[S[j]]
      BY <2>3, <1>1, <1>2, RunRanks
    <3>4. Rank[e] \in Nat /\ Rank[S[1]] \in Nat /\ Rank[S[j]] \in Nat
      BY <2>1, <1>3, <1>4, HashAssumption
    <3>5. StablyBefore(B, e, S[j])
      BY <2>2, <3>2, <3>3, <3>4 DEF StablyBefore
    <3> QED
      BY <3>5, <2>3, <1>7 DEF Follows
  <2>4. CASE ~ (j <= s.qsize)
    BY <2>2, <2>4, <1>7 DEF Follows
  <2> QED
    BY <2>3, <2>4
<1>11. Fits(s, u, D, a, e, Q, S)
  <2>1. \A i \in a + 1 .. Len(D) : \A j \in 1 .. Len(S) : Follows(u, D[i], S[j], j)
    BY <1>2, <1>7 DEF Follows
  <2>2. \A i \in a + 1 .. Len(D) : StablyBefore(B, D[i], e)
    BY <1>2, <1>3, <1>4
  <2> QED
    BY <2>1, <2>2, <1>2, <1>3, <1>6, <1>7, <1>10 DEF Fits
<1> QED
  BY <1>8, <1>9, <1>11 DEF Q

\* The first of the run at q fits: it is smaller than all that p has left.
LEMMA TakeQHolds ==
    ASSUME NEW t, NEW s \in Sorts, NEW D, NEW P, NEW S, NEW a, InMerge(t, s, D, P, S, a),
           s.qsize > 0, s.q # NULL, s.psize > 0 => ~ (Rank[s.p] <= Rank[s.q]),
           NEW u, Linking(s, u, s.q),
           u.p = s.p, u.psize = s.psize, u.q = t.next[s.q], u.qsize = s.qsize - 1
    PROVE  LET R == RemoveAt(S, 1)
           IN Takes(t, D, P, S, s.q, P, R) /\ TakenTo(s, u, s.q, P, R) /\ Fits(s, u, D, a, s.q, P, R)
<1> DEFINE e == s.q
           R == RemoveAt(S, 1)
           B == s.before
<1>1. /\ D \in Seq(Elements) /\ P \in Seq(Elements) /\ S \in Seq(Elements)
      /\ IsInjective(P) /\ IsInjective(S) /\ Range(P) \cap Range(S) = {}
      /\ Len(D) \in Nat /\ Len(P) \in Nat /\ Len(S) \in Nat
      /\ Leads(t.next, P) /\ Chain(t.next, S)
      /\ s.insize \in Nat \ {0} /\ s.psize = Len(P) /\ s.qsize \in Nat
      /\ s.q = First(S) /\ (Len(P) # 0 => s.p = P[1])
  BY InMergeParts
<1>2. /\ Runs(B, P, {}) /\ Runs(B, S, RunEnds(s.qsize, s.insize))
      /\ \A x \in Range(P), y \in Range(S) : Earlier(B, x, y)
      /\ \A i \in a + 1 .. Len(D) : \A x \in Range(P) : StablyBefore(B, D[i], x)
      /\ \A i \in a + 1 .. Len(D) : \A j \in 1 .. Len(S) : Follows(s, D[i], S[j], j)
  BY InMergeParts
<1>3. Len(S) # 0 /\ e = S[1] /\ s.qsize \in Nat \ {0} /\ 1 \in 1 .. Len(S)
  <2>1. Len(S) # 0 /\ e = S[1]
    BY <1>1 DEF First
  <2> QED
    BY <2>1, <1>1
<1>4. /\ R \in Seq(Elements) /\ Len(R) = Len(S) - 1 /\ Len(R) \in Nat
      /\ \A n \in 1 .. Len(R) : R[n] = S[n + 1] /\ n + 1 \in 1 .. Len(S)
      /\ IsInjective(R) /\ Range(R) = Range(S) \ {S[1]}
      /\ S[1] \in Elements /\ S[1] \in Range(S)
  BY <1>1, <1>3, RestHolds
<1>5. Chain(t.next, R) /\ t.next[S[1]] = First(R)
  BY <1>1, <1>3, RestLinks
<1>6. /\ Runs(B, R, RunEnds(s.qsize - 1, s.insize))
      /\ \A j \in 1 .. Len(R) : IF j <= s.qsize - 1 THEN StablyBefore(B, S[1], R[j])
                                ELSE Earlier(B, S[1], R[j])
  BY <1>1, <1>2, <1>3, RunsRest
<1> HIDE DEF R
<1>7. /\ u.insize = s.insize /\ u.nmerges = s.nmerges /\ u.before = B
      /\ u.list = (IF s.tail = NULL THEN e ELSE s.list) /\ u.tail = e
  BY DEF Linking
<1>8. Takes(t, D, P, S, e, P, R)
  <2>1. e \notin Range(P) /\ e \notin Range(R) /\ Range(P) \cup Range(R) \cup {e} = Range(P) \cup Range(S)
    BY <1>1, <1>3, <1>4
  <2> QED
    BY <2>1, <1>1, <1>3, <1>4, <1>5 DEF Takes
<1>9. TakenTo(s, u, e, P, R)
  <2>1. /\ u.psize = Len(P) /\ u.psize \in Nat /\ u.qsize \in Nat
        /\ u.psize + u.qsize + 1 = s.psize + s.qsize
    BY <1>1, <1>3
  <2>2. Len(P) # 0 => u.p = P[1]
    BY <1>1
  <2>3. u.q = First(R)
    BY <1>3, <1>5
  <2> QED
    BY <2>1, <2>2, <2>3, <1>7 DEF TakenTo
<1>10. ASSUME NEW x \in Range(P) PROVE StablyBefore(B, e, x)
  <2>1. PICK j \in 1 .. Len(P) : P[j] = x
    BY <1>1, RangeMembers
  <2>2. Len(P) # 0 /\ P[1] \in Elements /\ x \in Elements
    BY <2>1, <1>1
  <2>3. Rank[e] \in Nat /\ Rank[P[1]] \in Nat /\ Rank[x] \in Nat
    BY <2>2, <1>3, <1>4, HashAssumption
  <2>4. ~ (Rank[P[1]] <= Rank[e])
    BY <2>2, <1>1
  <2>5. Rank[P[1]] <= Rank[P[j]]
    BY <1>1, <1>2, RunRanks
  <2> QED
    BY <2>1, <2>3, <2>4, <2>5 DEF StablyBefore
<1>11. ASSUME NEW i \in a + 1 .. Len(D), NEW j \in 1 .. Len(R) PROVE Follows(u, D[i], R[j], j)
  <2>1. j + 1 \in 1 .. Len(S) /\ R[j] = S[j + 1] /\ (j + 1 <= s.qsize <=> j <= s.qsize - 1)
    BY <1>1, <1>4
  <2>2. Follows(s, D[i], S[j + 1], j + 1)
    BY <2>1, <1>2
  <2> QED
    BY <2>1, <2>2, <1>7 DEF Follows
<1>12. Fits(s, u, D, a, e, P, R)
  <2>1. \A j \in 1 .. Len(R) : Follows(u, e, R[j], j)
    BY <1>3, <1>6, <1>7 DEF Follows
  <2>2. \A i \in a + 1 .. Len(D) : StablyBefore(B, D[i], e)
    <3> SUFFICES ASSUME NEW i \in a + 1 .. Len(D) PROVE StablyBefore(B, D[i], e)
      OBVIOUS
    <3>1. Follows(s, D[i], S[1], 1) /\ 1 <= s.qsize
      BY <1>2, <1>3
    <3> QED
      BY <3>1, <1>3 DEF Follows
  <2> QED
    BY <2>1, <2>2, <1>2, <1>6, <1>7, <1>10, <1>11 DEF Fits
<1> QED
  BY <1>8, <1>9, <1>12 DEF R

\* Taking one element from either run keeps the invariant.
LEMMA MergeHolds ==
    ASSUME table \in Tables, Sorting(table, sort), Merge
    PROVE  /\ table' \in Tables /\ SameBuckets(table', table)
           /\ sort'.at = "merge" /\ sort'.before = sort.before /\ Sorting(table', sort')
<1> DEFINE e == IF TakeP THEN sort.p ELSE sort.q
           taken == IF TakeP THEN [sort EXCEPT !.p = table.next[e], !.psize = @ - 1]
                             ELSE [sort EXCEPT !.q = table.next[e], !.qsize = @ - 1]
           u == [taken EXCEPT !.list = IF sort.tail = NULL THEN e ELSE @, !.tail = e]
           r == [table EXCEPT !.next = [x \in Elements |-> IF x = sort.tail THEN e ELSE @[x]],
                              !.prev[e] = sort.tail]
<1>1. sort.at = "merge" /\ (sort.psize > 0 \/ QLeft) /\ sort' = u /\ table' = r
  BY DEF Merge
<1>2. sort \in Sorts
  BY DEF Sorting
<1>3. PICK D, P, S, a : InMerge(table, sort, D, P, S, a)
  BY <1>1 DEF Sorting
<1>4. /\ P \in Seq(Elements) /\ S \in Seq(Elements) /\ sort.psize = Len(P) /\ sort.q = First(S)
      /\ (Len(P) # 0 => sort.p = P[1]) /\ sort.psize \in Nat /\ sort.qsize \in Nat
  <2>1. /\ P \in Seq(Elements) /\ S \in Seq(Elements) /\ sort.psize = Len(P) /\ sort.q = First(S)
        /\ (Len(P) # 0 => sort.p = P[1])
    BY <1>2, <1>3, InMergeParts
  <2> QED
    BY <2>1, <1>2 DEF Sorts
<1>5. TakeP => sort.psize > 0 /\ (sort.qsize > 0 /\ sort.q # NULL => Rank[sort.p] <= Rank[sort.q])
  BY DEF TakeP, QLeft
<1>6. ~TakeP => /\ sort.qsize > 0 /\ sort.q # NULL
                /\ sort.psize > 0 => ~ (Rank[sort.p] <= Rank[sort.q])
  BY <1>1 DEF TakeP, QLeft
<1>7. e \in Elements
  <2>1. TakeP => P[1] \in Elements /\ Len(P) # 0
    BY <1>4, <1>5
  <2>2. Len(S) # 0 => S[1] \in Elements
    BY <1>4
  <2> QED
    BY <2>1, <2>2, <1>4, <1>6 DEF First
<1>8. table.next[e] \in Link /\ sort.tail \in Pointer /\ sort.list \in Pointer
  BY <1>2, <1>7 DEF Tables, Sorts
<1> HIDE DEF e
<1>9. /\ r.next = [x \in Elements |-> IF x = sort.tail THEN e ELSE table.next[x]]
      /\ r.prev = [table.prev EXCEPT ![e] = sort.tail]
      /\ r \in Tables /\ SameBuckets(r, table)
  <2>1. [x \in Elements |-> IF x = sort.tail THEN e ELSE table.next[x]] \in [Elements -> Link]
    BY <1>7, PointerTypes DEF Tables
  <2>2. [table.prev EXCEPT ![e] = sort.tail] \in [Elements -> Link]
    BY <1>7, <1>8, PointerTypes DEF Tables
  <2> QED
    BY <2>1, <2>2 DEF Tables, SameBuckets
<1>10. LinkedTo(r, table, sort, e)
  BY <1>9 DEF LinkedTo
<1>11. CASE TakeP
  <2> DEFINE v == [sort EXCEPT !.p = table.next[e], !.psize = sort.psize - 1,
                               !.list = IF sort.tail = NULL THEN e ELSE sort.list, !.tail = e]
  <2>1. u = v /\ e = sort.p
    BY <1>2, <1>11 DEF Sorts, e
  <2>2. sort.psize - 1 \in Nat
    BY <1>4, <1>5, <1>11
  <2>3. v \in Sorts
    BY <2>2, <1>2, <1>7, <1>8, PointerTypes DEF Sorts
  <2>4. /\ v.at = "merge" /\ v.insize = sort.insize /\ v.nmerges = sort.nmerges
        /\ v.before = sort.before /\ v.list = (IF sort.tail = NULL THEN e ELSE sort.list)
        /\ v.tail = e /\ v.p = table.next[e] /\ v.psize = sort.psize - 1 /\ v.q = sort.q
        /\ v.qsize = sort.qsize
    BY <1>1, <1>2 DEF Sorts
  <2> HIDE DEF u, v, r
  <2>5. Linking(sort, v, sort.p)
    BY <2>1, <2>4 DEF Linking
  <2>6. v.p = table.next[sort.p]
    BY <2>1, <2>4
  <2>7. /\ Takes(table, D, P, S, sort.p, RemoveAt(P, 1), S)
        /\ TakenTo(sort, v, sort.p, RemoveAt(P, 1), S)
        /\ Fits(sort, v, D, a, sort.p, RemoveAt(P, 1), S)
    BY <2>4, <2>5, <2>6, <1>2, <1>3, <1>5, <1>11, TakePHolds
  <2>8. LinkedTo(r, table, sort, sort.p)
    BY <2>1, <1>10
  <2>9. InMerge(r, v, Append(D, sort.p), RemoveAt(P, 1), S, a)
    BY <2>7, <2>8, <1>2, <1>3, TakenHolds
  <2>10. Sorting(r, v)
    BY <2>3, <2>4, <2>9 DEF Sorting
  <2> QED
    BY <2>1, <2>4, <2>10, <1>1, <1>9
<1>12. CASE ~TakeP
  <2> DEFINE v == [sort EXCEPT !.q = table.next[e], !.qsize = sort.qsize - 1,
                               !.list = IF sort.tail = NULL THEN e ELSE sort.list, !.tail = e]
  <2>1. u = v /\ e = sort.q
    BY <1>2, <1>12 DEF Sorts, e
  <2>2. sort.qsize - 1 \in Nat
    BY <1>4, <1>6, <1>12
  <2>3. v \in Sorts
    BY <2>2, <1>2, <1>7, <1>8, PointerTypes DEF Sorts
  <2>4. /\ v.at = "merge" /\ v.insize = sort.insize /\ v.nmerges = sort.nmerges
        /\ v.before = sort.before /\ v.list = (IF sort.tail = NULL THEN e ELSE sort.list)
        /\ v.tail = e /\ v.q = table.next[e] /\ v.qsize = sort.qsize - 1 /\ v.p = sort.p
        /\ v.psize = sort.psize
    BY <1>1, <1>2 DEF Sorts
  <2> HIDE DEF u, v, r
  <2>5. Linking(sort, v, sort.q)
    BY <2>1, <2>4 DEF Linking
  <2>6. v.q = table.next[sort.q]
    BY <2>1, <2>4
  <2>7. /\ Takes(table, D, P, S, sort.q, P, RemoveAt(S, 1))
        /\ TakenTo(sort, v, sort.q, P, RemoveAt(S, 1))
        /\ Fits(sort, v, D, a, sort.q, P, RemoveAt(S, 1))
    BY <2>4, <2>5, <2>6, <1>2, <1>3, <1>6, <1>12, TakeQHolds
  <2>8. LinkedTo(r, table, sort, sort.q)
    BY <2>1, <1>10
  <2>9. InMerge(r, v, Append(D, sort.q), P, RemoveAt(S, 1), a)
    BY <2>7, <2>8, <1>2, <1>3, TakenHolds
  <2>10. Sorting(r, v)
    BY <2>3, <2>4, <2>9 DEF Sorting
  <2> QED
    BY <2>1, <2>4, <2>10, <1>1, <1>9
<1> QED
  BY <1>11, <1>12

\* The links of the application do not matter to the buckets.
LEMMA SameContents ==
    ASSUME NEW r, NEW t, SameBuckets(r, t), NEW X, Contents(t, X)
    PROVE  Contents(r, X)
  BY DEF Contents, SameBuckets, Stored, Sieved, HASH_BLOOM_TEST, ExpansionOK

\* A list that is linked up to its last element, ended there.
LEMMA EndedHolds ==
    ASSUME NEW t \in Tables, NEW D \in Seq(Elements), IsInjective(D), Leads(t.next, D),
           NEW last, last = Final(D)
    PROVE  LET r == [t EXCEPT !.next[last] = NULL]
           IN /\ r \in Tables /\ SameBuckets(r, t) /\ r.prev = t.prev
              /\ Chain(r.next, D)
<1> DEFINE L == Len(D)
           r == [t EXCEPT !.next[last] = NULL]
           links == [x \in Elements |-> IF x = last THEN NULL ELSE t.next[x]]
<1>1. /\ L \in Nat /\ \A n \in 1 .. L : D[n] \in Elements
      /\ \A m, n \in 1 .. L : D[m] = D[n] => m = n
  <2>1. \A m, n \in 1 .. L : D[m] = D[n] => m = n
    BY InjectiveMembers
  <2> QED
    BY <2>1
<1>2. t.next \in [Elements -> Link]
  BY DEF Tables
<1>3. links \in [Elements -> Link]
  BY <1>2, PointerTypes
<1>4. [t.next EXCEPT ![last] = NULL] = links
  BY <1>2
<1>5. r = [t EXCEPT !.next = links]
  BY <1>4
<1> HIDE DEF links, r
<1>6. r \in Tables /\ SameBuckets(r, t) /\ r.prev = t.prev /\ r.next = links
  BY <1>3, <1>5 DEF Tables, SameBuckets
<1>7. Chain(links, D)
  <2> SUFFICES ASSUME NEW n \in 1 .. L PROVE links[D[n]] = IF n = L THEN NULL ELSE D[n + 1]
    BY DEF Chain
  <2>1. last = D[L] /\ L \in 1 .. L
    BY <1>1 DEF Final
  <2>2. links[D[n]] = IF D[n] = last THEN NULL ELSE t.next[D[n]]
    BY <1>1 DEF links
  <2>3. n # L => t.next[D[n]] = D[n + 1]
    BY DEF Leads
  <2> QED
    BY <2>1, <2>2, <2>3, <1>1
<1> QED
  BY <1>6, <1>7 DEF r

\* The end of a pass: with one merge at most all is one run, sorted; otherwise the runs are twice
\* as long.
LEMMA PassDoneHolds ==
    ASSUME table \in Tables, Sorting(table, sort), sort.before \in Seq(Elements),
           IsInjective(sort.before), Contents(table, Range(sort.before)), PassDone
    PROVE  \/ sort' = Idle /\ \E s : Sound(table', s) /\ Ordered!StablySorted(s, sort.before)
           \/ /\ table' \in Tables /\ SameBuckets(table', table)
              /\ sort'.at = "pass" /\ sort'.before = sort.before /\ Sorting(table', sort')
<1> DEFINE W == sort.insize
           B == sort.before
           ended == [table EXCEPT !.next[sort.tail] = NULL]
<1>1. sort.at = "pass" /\ sort.p = NULL /\ sort \in Sorts
  BY DEF PassDone, Sorting
<1>2. PICK D, S : InPass(table, sort, D, S)
  BY <1>1 DEF Sorting
<1>3. /\ D \in Seq(Elements) /\ S \in Seq(Elements) /\ IsInjective(D)
      /\ Range(D) \cup Range(S) = Range(B)
      /\ sort.p = First(S) /\ sort.list = First(D) /\ sort.tail = Final(D)
      /\ Leads(table.next, D) /\ Back(table.prev, D)
  BY <1>2, EmptyPiece DEF InPass, Pieces, Linked
<1>4. S = <<>>
  <2>1. Len(S) = 0
    <3>1. Len(S) # 0 => S[1] \in Elements
      BY <1>3
    <3> QED
      BY <3>1, <1>1, <1>3, PointerTypes DEF First
  <2> QED
    BY <2>1, <1>3
<1>5. Range(D) = Range(B)
  BY <1>3, <1>4, EmptyPiece
<1>6. /\ Runs(B, D, RunEnds(0, 2 * W)) /\ W \in Nat \ {0} /\ sort.nmerges \in Nat
      /\ sort.nmerges = 0 => Len(D) = 0
      /\ sort.nmerges = 1 => Len(D) <= 2 * W
  <2>1. /\ Runs(B, D, RunEnds(0, 2 * W)) /\ W # 0
        /\ sort.nmerges = 0 => Len(D) = 0
        /\ sort.nmerges = 1 => Len(D) <= 2 * W
    BY <1>2 DEF InPass
  <2> QED
    BY <2>1, <1>1 DEF Sorts
<1>7. /\ ended \in Tables /\ SameBuckets(ended, table) /\ ended.prev = table.prev
      /\ Chain(ended.next, D)
  BY <1>3, EndedHolds
<1>8. IF sort.nmerges <= 1
      THEN /\ table' = [ended EXCEPT !.tail = sort.tail, !.head = sort.list]
           /\ sort' = Idle
      ELSE /\ table' = ended
           /\ sort' = Pass(sort.list, 2 * W, B)
  BY DEF PassDone
<1>9. First(D) \in Pointer /\ Final(D) \in Pointer /\ Len(D) \in Nat
  <2>1. Len(D) # 0 => 1 \in 1 .. Len(D) /\ Len(D) \in 1 .. Len(D)
    BY <1>3
  <2>2. Len(D) # 0 => D[1] \in Elements /\ D[Len(D)] \in Elements
    BY <2>1, <1>3
  <2> QED
    BY <2>2, <1>3, PointerTypes DEF First, Final
<1> HIDE DEF ended, W
<1>10. CASE sort.nmerges <= 1
  <2>1. table' = [ended EXCEPT !.tail = sort.tail, !.head = sort.list] /\ sort' = Idle
    BY <1>8, <1>10
  <2>2. /\ table' \in Tables /\ table'.head = First(D) /\ table'.tail = Final(D)
        /\ table'.next = ended.next /\ table'.prev = table.prev /\ SameBuckets(table', table)
    BY <2>1, <1>3, <1>7, <1>9 DEF Tables, SameBuckets
  <2>3. Listed(table', D)
    <3>1. Len(D) # 0 => Final(D) = D[Len(D)]
      BY DEF Final
    <3> QED
      BY <3>1, <2>2, <1>3, <1>7 DEF Listed, Back
  <2>4. Contents(table', Range(D))
    BY <2>2, <1>5, SameContents
  <2>5. Len(D) <= 0 + 2 * W /\ 2 * W \in Nat \ {0}
    BY <1>6, <1>9, <1>10
  <2>6. ASSUME NEW i \in 1 .. Len(D), NEW j \in 1 .. Len(D), i < j
        PROVE  StablyBefore(B, D[i], D[j])
    <3>1. i \in Nat /\ j \in Nat /\ 0 < i /\ j <= 0 + 2 * W
      BY <2>5, <1>9
    <3>2. ~Apart(RunEnds(0, 2 * W), i, j)
      BY <3>1, <2>5, NextEnd, NoEndWithin
    <3> QED
      BY <3>2, <2>6, <1>6 DEF Runs
  <2>7. Ordered!StablySorted(D, B)
    <3>1. Len(D) = Len(B)
      BY <1>3, <1>5, SameLength
    <3>2. Ordered!Range(D) = Ordered!Range(B)
      BY <1>5, OrderedOperators
    <3>3. DOMAIN D = 1 .. Len(D)
      BY <1>3
    <3> QED
      BY <3>1, <3>2, <3>3, <2>6 DEF Ordered!StablySorted, StablyBefore, Earlier
  <2>8. Sound(table', D)
    BY <2>2, <2>3, <2>4 DEF Sound
  <2> QED
    BY <2>1, <2>7, <2>8
<1>11. CASE ~ (sort.nmerges <= 1)
  <2> DEFINE u == Pass(First(D), 2 * W, B)
  <2>1. table' = ended /\ sort' = u
    BY <1>3, <1>8, <1>11
  <2>2. /\ u.at = "pass" /\ u.insize = 2 * W /\ u.nmerges = 0 /\ u.list = NULL /\ u.tail = NULL
        /\ u.p = First(D) /\ u.before = B
    BY DEF Pass
  <2>3. 2 * W \in Nat \ {0}
    BY <1>6
  <2>4. u \in Sorts
    BY <2>3, <1>9, PointerTypes DEF Pass, Sorts
  <2> HIDE DEF u
  <2>5. Pieces(B, <<>>, <<>>, D)
    BY <1>3, <1>5, EmptyPiece DEF Pieces, Apart3
  <2>6. Linked(ended, u, <<>>, <<>>, D)
    BY <2>2, <1>7, EmptyPiece DEF Linked
  <2>7. 2 * (2 * W) \in Nat \ {0}
    BY <2>3
  <2>8. 0 \in RunEnds(0, 2 * (2 * W))
    BY <2>7, NextEnd
  <2>9. Runs(B, D, RunEnds(0, u.insize))
    BY <2>2, <1>6
  <2>10. InPass(ended, u, <<>>, D)
    BY <2>2, <2>3, <2>5, <2>6, <2>8, <2>9, EmptyPiece DEF InPass
  <2>11. Sorting(ended, u)
    BY <2>2, <2>4, <2>10 DEF Sorting
  <2> QED
    BY <2>1, <2>2, <2>11, <1>7
<1> QED
  BY <1>10, <1>11

-----------------------------------------------------------------------------
(* The invariant, and the steps of the abstract table.                     *)

\* The inductive invariant: at rest the table is sound for some order; while HASH_SRT runs, the
\* buckets hold what was there before and the links are as Sorting says.
IInv ==
    /\ table \in Tables /\ sort \in Sorts
    /\ sort.at = "idle" => \E s : Sound(table, s)
    /\ sort.at # "idle" => /\ sort.before \in Seq(Elements) /\ IsInjective(sort.before)
                           /\ Contents(table, Range(sort.before)) /\ Sorting(table, sort)

\* The order of a sound table is the one HASH_ITER meets.
LEMMA SoundOrder ==
    ASSUME NEW t, NEW s, Sound(t, s)
    PROVE  AppOrder(t) = s
<1>1. Listed(t, s) /\ t.next \in [Elements -> Link]
  BY DEF Sound, Tables
<1> QED
  BY <1>1, AppOrderOfList

\* The abstract order.
Order == IF sort.at = "idle" THEN AppOrder(table) ELSE sort.before

\* A call on a sound table that yields a sound one.
LEMMA CallHolds ==
    ASSUME IInv, NEW result, Call(result), NEW s, Sound(result, s)
    PROVE  IInv' /\ Order' = s
<1>1. /\ sort.at = "idle" /\ sort' = sort /\ table' = Freed(result) /\ sort \in Sorts
  BY DEF Call, IInv
<1>2. Sound(table', s)
  BY <1>1, FreedHolds
<1>3. AppOrder(table') = s /\ table' \in Tables
  BY <1>2, SoundOrder DEF Sound
<1> QED
  BY <1>1, <1>2, <1>3 DEF IInv, Order

\* At rest there is one order, the one the links have.
LEMMA AtRest ==
    ASSUME IInv, sort.at = "idle"
    PROVE  Sound(table, Order)
<1>1. PICK s : Sound(table, s)
  BY DEF IInv
<1> QED
  BY <1>1, SoundOrder DEF Order

\* HASH_FIND has found nothing.
LEMMA NewKey ==
    ASSUME NEW t, NEW s, Sound(t, s), NEW x \in Elements, HASH_FIND(t, x) = NULL
    PROVE  x \notin Range(s) /\ KeysDiffer(Range(s) \cup {x}) /\ KeyOf[x] \notin Ordered!Keys(s)
<1>1. Range(s) \in SUBSET Elements /\ (t.head = NULL <=> Range(s) = {})
  BY EmptySound
<1>2. t \in Tables /\ Contents(t, Range(s)) /\ KeysDiffer(Range(s))
  BY DEF Sound, Contents
<1>3. \A y \in Range(s) : KeyOf[y] = KeyOf[x] => HASH_FIND(t, x) = y
  BY <1>1, <1>2, FindHolds
<1>4. \A y \in Range(s) : KeyOf[y] # KeyOf[x]
  BY <1>1, <1>3, HashAssumption
<1>5. KeyOf[x] \notin Ordered!Keys(s)
  BY <1>4, OrderedOperators DEF Ordered!Keys
<1> QED
  BY <1>2, <1>4, <1>5 DEF KeysDiffer

\* Keys differ, so a key names its place.
LEMMA WithoutHolds ==
    ASSUME NEW t, NEW s, Sound(t, s), NEW p \in 1 .. Len(s)
    PROVE  Ordered!Without(s, KeyOf[s[p]]) = RemoveAt(s, p)
<1> DEFINE key == KeyOf[s[p]]
           n == CHOOSE k \in DOMAIN s : KeyOf[s[k]] = key
<1>1. s \in Seq(Elements) /\ IsInjective(s)
  BY EmptySound
<1>2. /\ \A k \in 1 .. Len(s) : s[k] \in Range(s)
      /\ \A j, k \in 1 .. Len(s) : s[j] = s[k] => j = k
      /\ DOMAIN s = 1 .. Len(s)
  BY <1>1, RangeMembers, InjectiveMembers
<1>3. KeysDiffer(Range(s))
  BY DEF Sound, Contents
<1>4. n \in 1 .. Len(s) /\ KeyOf[s[n]] = key
  BY <1>2
<1>5. n = p
  <2> HIDE DEF n
  <2> QED
    BY <1>2, <1>3, <1>4 DEF KeysDiffer
<1>6. key \in Ordered!Keys(s)
  BY <1>2, OrderedOperators DEF Ordered!Keys
<1> HIDE DEF key
<1>7. Ordered!Without(s, key) = RemoveAt(s, n)
  BY <1>6, OrderedOperators DEF Ordered!Without
<1> QED
  BY <1>5, <1>7 DEF key

\* Each call of the application is the operation of the same name of the abstract table.
LEMMA AddStep ==
    ASSUME IInv, NEW x \in Elements, Add(x)
    PROVE  IInv' /\ Ordered!Add(x)
<1>1. HASH_FIND(table, x) = NULL /\ Call(HASH_ADD(table, x)) /\ Sound(table, Order)
  BY AtRest DEF Add, Call
<1>2. /\ x \notin Range(Order) /\ KeysDiffer(Range(Order) \cup {x})
      /\ KeyOf[x] \notin Ordered!Keys(Order)
  BY <1>1, NewKey
<1>3. Sound(HASH_ADD(table, x), Append(Order, x))
  BY <1>1, <1>2, AddHolds
<1>4. IInv' /\ Order' = Append(Order, x)
  BY <1>1, <1>3, CallHolds
<1> QED
  BY <1>2, <1>4 DEF Ordered!Add, Order

LEMMA AddInorderStep ==
    ASSUME IInv, NEW x \in Elements, AddInorder(x)
    PROVE  IInv' /\ Ordered!AddInorder(x)
<1>1. HASH_FIND(table, x) = NULL /\ Call(HASH_ADD_INORDER(table, x)) /\ Sound(table, Order)
  BY AtRest DEF AddInorder, Call
<1>2. /\ x \notin Range(Order) /\ KeysDiffer(Range(Order) \cup {x})
      /\ KeyOf[x] \notin Ordered!Keys(Order)
  BY <1>1, NewKey
<1>3. Sound(HASH_ADD_INORDER(table, x), Ordered!Inserted(Order, x))
  BY <1>1, <1>2, AddInorderHolds
<1>4. IInv' /\ Order' = Ordered!Inserted(Order, x)
  BY <1>1, <1>3, CallHolds
<1> QED
  BY <1>2, <1>4 DEF Ordered!AddInorder, Order

LEMMA ReplaceStep ==
    ASSUME IInv, NEW x \in Elements, Replace(x)
    PROVE  IInv' /\ Ordered!Replace(x)
<1> DEFINE u == Ordered!Without(Order, KeyOf[x])
<1>1. Call(HASH_ADD(Evicted(table, x), x)) /\ Sound(table, Order)
  BY AtRest DEF Replace, Call, HASH_REPLACE
<1>2. Sound(Evicted(table, x), u) /\ x \notin Range(u) /\ KeysDiffer(Range(u) \cup {x})
  BY <1>1, EvictedHolds
<1> HIDE DEF u
<1>3. Sound(HASH_ADD(Evicted(table, x), x), Append(u, x))
  BY <1>2, AddHolds
<1>4. IInv' /\ Order' = Append(u, x)
  BY <1>1, <1>3, CallHolds
<1> QED
  BY <1>4 DEF Ordered!Replace, Order, u

LEMMA ReplaceInorderStep ==
    ASSUME IInv, NEW x \in Elements, ReplaceInorder(x)
    PROVE  IInv' /\ Ordered!ReplaceInorder(x)
<1> DEFINE u == Ordered!Without(Order, KeyOf[x])
<1>1. Call(HASH_ADD_INORDER(Evicted(table, x), x)) /\ Sound(table, Order)
  BY AtRest DEF ReplaceInorder, Call, HASH_REPLACE_INORDER
<1>2. Sound(Evicted(table, x), u) /\ x \notin Range(u) /\ KeysDiffer(Range(u) \cup {x})
  BY <1>1, EvictedHolds
<1> HIDE DEF u
<1>3. Sound(HASH_ADD_INORDER(Evicted(table, x), x), Ordered!Inserted(u, x))
  BY <1>2, AddInorderHolds
<1>4. IInv' /\ Order' = Ordered!Inserted(u, x)
  BY <1>1, <1>3, CallHolds
<1> QED
  BY <1>4 DEF Ordered!ReplaceInorder, Order, u

LEMMA DeleteStep ==
    ASSUME IInv, NEW x \in Elements, Delete(x)
    PROVE  IInv' /\ Ordered!Delete(x)
<1>1. /\ Call(HASH_DELETE(table, x)) /\ Sound(table, Order)
      /\ sort.at = "idle" /\ x \in Range(Order)
  BY AtRest DEF Delete, Call, InTable, Order
<1>2. Order \in Seq(Elements)
  BY <1>1, EmptySound
<1>3. PICK p \in 1 .. Len(Order) : Order[p] = x
  BY <1>1, <1>2, RangeMembers
<1>4. Sound(HASH_DELETE(table, x), RemoveAt(Order, p))
  BY <1>1, <1>3, DeleteHolds
<1>5. RemoveAt(Order, p) = Ordered!Without(Order, KeyOf[x])
  BY <1>1, <1>3, WithoutHolds
<1>6. IInv' /\ Order' = Ordered!Without(Order, KeyOf[x])
  BY <1>1, <1>4, <1>5, CallHolds
<1>7. x \in Ordered!Range(Order)
  BY <1>1, OrderedOperators
<1> QED
  BY <1>6, <1>7 DEF Ordered!Delete, Order

LEMMA ClearStep ==
    ASSUME IInv, Clear
    PROVE  IInv' /\ Ordered!Clear
<1>1. Call(HASH_CLEAR(table)) /\ Sound(HASH_CLEAR(table), <<>>)
  BY ClearedSound DEF Clear, IInv
<1>2. IInv' /\ Order' = <<>>
  BY <1>1, CallHolds
<1> QED
  BY <1>2 DEF Ordered!Clear, Order

-----------------------------------------------------------------------------
(* The theorems.                                                           *)

\* The values between two sorts.
LEMMA IdleHolds == Idle \in Sorts /\ Idle.at = "idle"
<1>1. <<>> \in Seq(Elements) /\ 0 \in Nat
  OBVIOUS
<1> QED
  BY <1>1, PointerTypes DEF Idle, Pass, Sorts

\* An empty table.
LEMMA InitHolds ==
    ASSUME Init
    PROVE  IInv /\ Order = <<>>
<1> DEFINE t == NoTable(Unused, Unused)
           none == [b \in {} |-> NoBuckets]
<1>1. table = t /\ sort = Idle
  BY DEF Init
<1>2. Unused \in [Elements -> Link]
  BY PointerTypes DEF Unused
<1>3. none \in Buckets
  <2>1. none \in [0 .. 0 - 1 -> Bucket]
    OBVIOUS
  <2> QED
    BY <2>1 DEF Buckets
<1> HIDE DEF none
<1>4. t \in Tables
  BY <1>2, <1>3, PointerTypes DEF NoTable, Tables, none
<1>5. HASH_CLEAR(t) = t
  BY DEF HASH_CLEAR, NoTable
<1> HIDE DEF t
<1>6. Sound(t, <<>>)
  BY <1>4, <1>5, ClearedSound
<1>7. AppOrder(t) = <<>>
  BY <1>6, SoundOrder
<1> QED
  BY <1>1, <1>4, <1>6, <1>7, IdleHolds DEF IInv, Order

\* HASH_SRT begins: the abstract table does not move.
LEMMA StartStep ==
    ASSUME IInv, StartSort
    PROVE  IInv' /\ Order' = Order
<1>1. /\ sort.at = "idle" /\ table' = table /\ sort' = Pass(table.head, 1, Order)
      /\ table \in Tables
  BY DEF StartSort, IInv, Order
<1>2. Sound(table, Order)
  BY <1>1, AtRest
<1>3. Order \in Seq(Elements) /\ IsInjective(Order) /\ Contents(table, Range(Order))
  BY <1>2, EmptySound DEF Sound
<1>4. Sorting(table, Pass(table.head, 1, Order))
  BY <1>2, StartHolds
<1>5. sort'.at = "pass" /\ sort'.before = Order
  BY <1>1 DEF Pass
<1>6. sort' \in Sorts
  BY <1>1, <1>4 DEF Sorting
<1>7. IInv'
  BY <1>1, <1>3, <1>4, <1>5, <1>6 DEF IInv
<1> QED
  BY <1>5, <1>7 DEF Order

\* A step within HASH_SRT.
LEMMA WithinSort ==
    ASSUME IInv, sort.at # "idle", table' \in Tables, SameBuckets(table', table),
           sort'.at # "idle", sort'.before = sort.before, Sorting(table', sort')
    PROVE  IInv' /\ Order' = Order
<1>1. /\ sort.before \in Seq(Elements) /\ IsInjective(sort.before)
      /\ Contents(table, Range(sort.before))
  BY DEF IInv
<1>2. Contents(table', Range(sort.before))
  BY <1>1, SameContents
<1>3. sort' \in Sorts
  BY DEF Sorting
<1>4. IInv'
  BY <1>1, <1>2, <1>3 DEF IInv
<1> QED
  BY <1>4 DEF Order

\* Only the last step of HASH_SRT sorts the abstract table.
LEMMA SortStep ==
    ASSUME IInv, HASH_SRT
    PROVE  IInv' /\ (Order' = Order \/ Ordered!Sort)
<1>1. CASE StartSort
  BY <1>1, StartStep
<1>2. table \in Tables /\ (sort.at # "idle" => Sorting(table, sort)) /\ SameBuckets(table, table)
  BY DEF IInv, SameBuckets
<1>3. CASE NextRuns
  <2>1. sort.at # "idle"
    BY <1>3 DEF NextRuns
  <2>2. table' = table /\ sort'.at = "merge" /\ sort'.before = sort.before /\ Sorting(table', sort')
    BY <2>1, <1>2, <1>3, NextRunsHolds
  <2> QED
    BY <2>1, <2>2, <1>2, WithinSort
<1>4. CASE Merge
  <2>1. sort.at # "idle"
    BY <1>4 DEF Merge
  <2>2. /\ table' \in Tables /\ SameBuckets(table', table)
        /\ sort'.at = "merge" /\ sort'.before = sort.before /\ Sorting(table', sort')
    BY <2>1, <1>2, <1>4, MergeHolds
  <2> QED
    BY <2>1, <2>2, WithinSort
<1>5. CASE RunsMerged
  <2>1. sort.at # "idle"
    BY <1>5 DEF RunsMerged
  <2>2. table' = table /\ sort'.at = "pass" /\ sort'.before = sort.before /\ Sorting(table', sort')
    BY <2>1, <1>2, <1>5, RunsMergedHolds
  <2> QED
    BY <2>1, <2>2, <1>2, WithinSort
<1>6. CASE PassDone
  <2>1. sort.at # "idle"
    BY <1>6 DEF PassDone
  <2>2. /\ sort.before \in Seq(Elements) /\ IsInjective(sort.before)
        /\ Contents(table, Range(sort.before))
    BY <2>1 DEF IInv
  <2>3. CASE sort' = Idle /\ \E s : Sound(table', s) /\ Ordered!StablySorted(s, sort.before)
    <3>1. PICK s : Sound(table', s) /\ Ordered!StablySorted(s, sort.before)
      BY <2>3
    <3>2. AppOrder(table') = s /\ table' \in Tables
      BY <3>1, SoundOrder DEF Sound
    <3>3. sort'.at = "idle" /\ sort' \in Sorts
      BY <2>3, IdleHolds
    <3>4. IInv'
      BY <3>1, <3>2, <3>3 DEF IInv
    <3>5. Order' = s /\ Order = sort.before
      BY <2>1, <3>2, <3>3 DEF Order
    <3> QED
      BY <3>1, <3>4, <3>5 DEF Ordered!Sort, Order
  <2>4. CASE /\ table' \in Tables /\ SameBuckets(table', table)
             /\ sort'.at = "pass" /\ sort'.before = sort.before /\ Sorting(table', sort')
    BY <2>1, <2>4, WithinSort
  <2> QED
    BY <2>1, <2>2, <2>3, <2>4, <1>2, <1>6, PassDoneHolds
<1> QED
  BY <1>1, <1>3, <1>4, <1>5, <1>6 DEF HASH_SRT

\* Every step keeps the invariant and is one of the abstract table, or none.
LEMMA StepHolds ==
    ASSUME IInv, [Next]_vars
    PROVE  IInv' /\ (Ordered!Next \/ Order' = Order)
<1>1. CASE HASH_SRT
  BY <1>1, SortStep DEF Ordered!Next
<1>2. CASE Clear
  BY <1>2, ClearStep DEF Ordered!Next
<1>3. ASSUME NEW x \in Elements, Add(x) PROVE IInv' /\ Ordered!Next
  BY <1>3, AddStep DEF Ordered!Next
<1>4. ASSUME NEW x \in Elements, AddInorder(x) PROVE IInv' /\ Ordered!Next
  BY <1>4, AddInorderStep DEF Ordered!Next
<1>5. ASSUME NEW x \in Elements, Replace(x) PROVE IInv' /\ Ordered!Next
  BY <1>5, ReplaceStep DEF Ordered!Next
<1>6. ASSUME NEW x \in Elements, ReplaceInorder(x) PROVE IInv' /\ Ordered!Next
  BY <1>6, ReplaceInorderStep DEF Ordered!Next
<1>7. ASSUME NEW x \in Elements, Delete(x) PROVE IInv' /\ Ordered!Next
  BY <1>7, DeleteStep DEF Ordered!Next
<1>8. CASE UNCHANGED vars
  BY <1>8 DEF vars, IInv, Order
<1> QED
  BY <1>1, <1>2, <1>3, <1>4, <1>5, <1>6, <1>7, <1>8 DEF Next

\* Every reachable state satisfies the inductive invariant.
LEMMA IInvInvariant == Spec => []IInv
<1>1. Init => IInv
  BY InitHolds
<1>2. IInv /\ [Next]_vars => IInv'
  BY StepHolds
<1> QED
  BY <1>1, <1>2, PTL DEF Spec

\* Handles and counters have their types at all times, also while HASH_SRT has the links in pieces
\* (uthash.h:866-950), for any elements, hash values and thresholds.
THEOREM TypeCorrect == Spec => []TypeOK
<1>1. ASSUME IInv PROVE TypeOK
  <2>1. PICK X : Contents(table, X)
    BY <1>1 DEF IInv, Sound
  <2>2. DOMAIN table.buckets = 0 .. table.num_buckets - 1
    BY <2>1 DEF Contents
  <2>3. table \in Tables /\ sort \in Sorts
    BY <1>1 DEF IInv
  <2> QED
    BY <2>2, <2>3 DEF TypeOK, Tables, Sorts, Link
<1> QED
  BY <1>1, IInvInvariant, PTL

\* What HASH_FSCK checks (uthash.h:417-471) holds whenever no macro runs: the counts of the
\* buckets and of the table are right and prev is the inverse of next, after any number of
\* doublings.
THEOREM TableIsConsistent == Spec => []FsckHolds
<1>1. ASSUME IInv PROVE FsckHolds
  <2> SUFFICES ASSUME sort.at = "idle", table.head # NULL
               PROVE  /\ \A b \in DOMAIN table.buckets :
                            table.buckets[b].count = Len(table.buckets[b].chain)
                      /\ Len(Chained(table)) = table.num_items /\ Len(Order) = table.num_items
                      /\ \A n \in DOMAIN Order :
                            table.prev[Order[n]] = IF n = 1 THEN NULL ELSE Order[n - 1]
    BY DEF FsckHolds, FSCK, Order
  <2>1. Sound(table, Order)
    BY <1>1, AtRest
  <2>2. /\ Order \in Seq(Elements) /\ IsInjective(Order) /\ Range(Order) \in SUBSET Elements
        /\ Range(Order) # {}
    BY <2>1, EmptySound
  <2>3. /\ table.num_items = Cardinality(Range(Order)) /\ Stored(table, Range(Order))
        /\ Listed(table, Order)
    BY <2>1, <2>2 DEF Sound, Contents
  <2>4. /\ Chained(table) \in Seq(Elements) /\ IsInjective(Chained(table))
        /\ Range(Chained(table)) = Range(Order)
    BY <2>2, <2>3, ChainedHolds
  <2>5. Len(Chained(table)) = table.num_items
    BY <2>3, <2>4, SameLength
  <2>6. Len(Order) = table.num_items
    BY <2>2, <2>3, SameLength
  <2>7. \A b \in DOMAIN table.buckets : table.buckets[b].count = Len(table.buckets[b].chain)
    BY <2>3 DEF Stored, HasChains
  <2>8. DOMAIN Order = 1 .. Len(Order)
    BY <2>2
  <2>9. \A n \in 1 .. Len(Order) : table.prev[Order[n]] = IF n = 1 THEN NULL ELSE Order[n - 1]
    BY <2>3 DEF Listed
  <2> QED
    BY <2>5, <2>6, <2>7, <2>8, <2>9
<1> QED
  BY <1>1, IInvInvariant, PTL

\* HASH_FIND (uthash.h:120-137) finds exactly what HASH_ITER would meet: neither a doubling of the
\* buckets nor the Bloom filter hides an element, whatever the hash function.
THEOREM LookupsAreRight == Spec => []FindsWhatIsThere
<1>1. ASSUME IInv PROVE FindsWhatIsThere
  <2> SUFFICES ASSUME sort.at = "idle", NEW x \in Elements
               PROVE  LET there == {y \in Range(Order) : KeyOf[y] = KeyOf[x]} IN
                      IF there = {} THEN HASH_FIND(table, x) = NULL ELSE HASH_FIND(table, x) \in there
    BY DEF FindsWhatIsThere, Order
  <2>1. Sound(table, Order)
    BY <1>1, AtRest
  <2>2. Range(Order) \in SUBSET Elements /\ (table.head = NULL <=> Range(Order) = {})
    BY <2>1, EmptySound
  <2>3. table \in Tables /\ Contents(table, Range(Order))
    BY <2>1 DEF Sound
  <2>4. /\ (\A y \in Range(Order) : KeyOf[y] # KeyOf[x]) => HASH_FIND(table, x) = NULL
        /\ \A y \in Range(Order) : KeyOf[y] = KeyOf[x] => HASH_FIND(table, x) = y
    BY <2>2, <2>3, FindHolds
  <2> QED
    BY <2>4
<1> QED
  BY <1>1, IInvInvariant, PTL

\* HASH_ADD_TO_BKT and HASH_EXPAND_BUCKETS (uthash.h:758-860) keep every chain within its multiple
\* of the threshold unless expansion is inhibited: the multiples that a doubling hands out add up
\* to no more than the number of buckets.
THEOREM ChainsAreShort == Spec => []ChainsStayShort
<1>1. ASSUME IInv PROVE ChainsStayShort
  <2>1. PICK X : Contents(table, X)
    BY <1>1 DEF IInv, Sound
  <2>2. DOMAIN table.buckets = 0 .. table.num_buckets - 1 /\ ExpansionOK(table)
    BY <2>1 DEF Contents
  <2> QED
    BY <2>2 DEF ChainsStayShort, ExpansionOK, ShortEnough, ShortChains
<1> QED
  BY <1>1, IInvInvariant, PTL

\* The table implements the ordered collection: each macro is the operation of that name, and the
\* steps of HASH_SRT (uthash.h:866-950) change nothing until the last one, which amounts to a
\* stable sort.
THEOREM ImplementsOrderedTable == Spec => OrderedSpec
<1>1. Init => Ordered!Init
  BY InitHolds DEF Ordered!Init, Order
<1>2. IInv /\ [Next]_vars => [Ordered!Next]_Order
  BY StepHolds
<1> QED
  BY <1>1, <1>2, IInvInvariant, PTL DEF Spec, OrderedSpec, Ordered!Spec, Order

=============================================================================
