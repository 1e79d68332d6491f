------------------------ MODULE DashboardFormsProofs ------------------------
(***************************************************************************)
(* Proofs about the dashboard's forms, for every text, note, role, key,    *)
(* bound and stored rule or segment: a dialog opens blank, every draft and *)
(* every request has its type, what a form sends can be taken, the Values  *)
(* inputs show their clauses, a changed segment can be saved, and a save   *)
(* leaves what was not touched alone.                                      *)
(***************************************************************************)
EXTENDS DashboardForms, Integers, SequenceTheorems, WellFoundedInduction, TLAPS

----------------------------------------------------------------------------
(* Induction and folds.  FoldLeft is a function on sets of indices, chosen *)
(* by its equation; that one exists is what makes it a fold.               *)

\* A set of numbers has a least one: the natural numbers are well-founded.
LEMMA NatMin == ASSUME NEW T, T \subseteq Nat, T # {} PROVE \E x \in T : \A y \in T : x <= y
<1>1. PICK R : IsWellFoundedOn(R, Nat) /\ R = OpToRel(<, Nat)
  BY NatLessThanWellFounded, Zenon
<1>2. \A x, y \in Nat : x < y => <<x, y>> \in R
  BY <1>1 DEF OpToRel
<1>3. PICK x \in T : \A y \in T : <<y, x>> \notin R
  BY <1>1, WFMin
<1>4. ASSUME NEW y \in T, y < x PROVE FALSE
  <2>1. <<y, x>> \in R
    BY <1>2, <1>4
  <2> QED
    BY <1>3, <2>1
<1> QED
  BY <1>4

\* Induction, with the set of numbers of which something holds.
LEMMA Induct == ASSUME NEW S, 0 \in S, \A n \in Nat : n \in S => n + 1 \in S PROVE Nat \subseteq S
<1> SUFFICES ASSUME Nat \ S # {} PROVE FALSE
  OBVIOUS
<1>1. PICK x \in Nat \ S : \A y \in Nat \ S : x <= y
  BY NatMin
<1>2. x # 0 /\ x - 1 \in Nat /\ x - 1 \in S
  BY <1>1
<1> QED
  BY <1>1, <1>2

\* A set of indices has a largest.
LEMMA Largest ==
  ASSUME NEW k \in Nat, NEW u \in SUBSET (1..k), u # {}
  PROVE  Max(u) \in u /\ \A y \in u : Max(u) >= y
<1> DEFINE S == {i \in Nat : \A v \in SUBSET (1..i) : v # {} => \E y \in v : \A z \in v : y >= z}
<1>1. 0 \in S
  <2>1. \A v \in SUBSET (1..0) : v = {}
    OBVIOUS
  <2> QED
    BY <2>1
<1>2. ASSUME NEW i \in Nat, i \in S PROVE i + 1 \in S
  <2>1. ASSUME NEW v \in SUBSET (1..(i + 1)), v # {} PROVE \E y \in v : \A z \in v : y >= z
    <3>1. CASE i + 1 \in v
      <4>1. \A z \in v : i + 1 >= z
        OBVIOUS
      <4> QED
        BY <3>1, <4>1
    <3>2. CASE i + 1 \notin v
      <4>1. v \in SUBSET (1..i)
        BY <3>2
      <4> QED
        BY <1>2, <2>1, <4>1
    <3> QED
      BY <3>1, <3>2
  <2>2. i + 1 \in Nat
    OBVIOUS
  <2> QED
    BY <2>1, <2>2
<1> HIDE DEF S
<1>3. k \in S
  BY <1>1, <1>2, Induct
<1>4. \E y \in u : \A z \in u : y >= z
  BY <1>3 DEF S
<1> QED
  BY <1>4, Zenon DEF Max

LEMMA LessMax ==
  ASSUME NEW k \in Nat, NEW u \in SUBSET (1..(k + 1)), u # {}
  PROVE  u \ {Max(u)} \in SUBSET (1..k) /\ Max(u) \in 1..(k + 1)
<1>1. k + 1 \in Nat
  OBVIOUS
<1>2. Max(u) \in u /\ \A y \in u : Max(u) >= y
  BY <1>1, Largest
<1>3. ASSUME NEW x \in u, x # Max(u) PROVE x \in 1..k
  <2>1. x \in 1..(k + 1) /\ Max(u) \in 1..(k + 1) /\ Max(u) >= x
    BY <1>2
  <2> QED
    BY <1>3, <2>1
<1> QED
  BY <1>2, <1>3

\* A set of indices without its largest, for the prefixes of a sequence.
LEMMA PrefixSets ==
  ASSUME NEW n \in Nat, NEW i \in 1..n
  PROVE  /\ 1..i # {} /\ 1..i \in SUBSET (1..n) /\ Max(1..i) = i
         /\ (1..i) \ {Max(1..i)} = 1..(i - 1)
<1>1. i \in 1..i /\ i \in Nat
  OBVIOUS
<1>2. Max(1..i) \in 1..i /\ Max(1..i) >= i
  BY <1>1, Largest
<1>3. Max(1..i) = i
  BY <1>2
<1>4. 1..i # {} /\ 1..i \in SUBSET (1..n)
  OBVIOUS
<1>5. (1..i) \ {i} = 1..(i - 1)
  OBVIOUS
<1> QED
  BY <1>3, <1>4, <1>5

\* What a fold is defined by exists: a function on the sets of indices, each value made from the
\* set without its largest element.
IsFold(g, T, start, n, f) ==
  /\ g \in [SUBSET (1..n) -> T]
  /\ \A u \in SUBSET (1..n) : g[u] = IF u = {} THEN start ELSE f[<<g[u \ {Max(u)}], Max(u)>>]

LEMMA FoldExists ==
  ASSUME NEW T, NEW start \in T, NEW n \in Nat, NEW f \in [T \X (1..n) -> T]
  PROVE  \E g : IsFold(g, T, start, n, f)
<1> DEFINE Step(g, u) == IF u = {} THEN start ELSE f[<<g[u \ {Max(u)}], Max(u)>>]
           Good == {k \in Nat : k <= n => \E g \in [SUBSET (1..k) -> T] :
                                            \A u \in SUBSET (1..k) : g[u] = Step(g, u)}
<1>1. 0 \in Good
  <2> DEFINE z == [u \in SUBSET (1..0) |-> start]
  <2>1. z \in [SUBSET (1..0) -> T] /\ \A u \in SUBSET (1..0) : z[u] = Step(z, u)
    OBVIOUS
  <2> HIDE DEF z, Step
  <2> QED
    BY <2>1
<1>2. ASSUME NEW k \in Nat, k \in Good PROVE k + 1 \in Good
  <2>a. k + 1 \in Nat /\ (k + 1 <= n => k <= n)
    OBVIOUS
  <2> SUFFICES ASSUME k + 1 <= n
               PROVE  \E g \in [SUBSET (1..(k + 1)) -> T] :
                        \A u \in SUBSET (1..(k + 1)) : g[u] = Step(g, u)
    BY <2>a, Zenon
  <2>1. PICK g \in [SUBSET (1..k) -> T] : \A u \in SUBSET (1..k) : g[u] = Step(g, u)
    BY <1>2, <2>a, Zenon
  <2> DEFINE h == [u \in SUBSET (1..(k + 1)) |-> Step(g, u)]
  <2>2. ASSUME NEW u \in SUBSET (1..(k + 1)), u # {}
        PROVE  u \ {Max(u)} \in SUBSET (1..k) /\ Max(u) \in 1..n
    BY <2>2, LessMax
  <2>3. h \in [SUBSET (1..(k + 1)) -> T]
    <3>1. ASSUME NEW u \in SUBSET (1..(k + 1)) PROVE Step(g, u) \in T
      <4>1. CASE u = {}
        BY <4>1
      <4>2. CASE u # {}
        <5>1. <<g[u \ {Max(u)}], Max(u)>> \in T \X (1..n)
          BY <2>2, <4>2
        <5> QED
          BY <4>2, <5>1
      <4> QED
        BY <4>1, <4>2
    <3> QED
      BY <3>1
  <2>4. ASSUME NEW v \in SUBSET (1..k) PROVE h[v] = g[v]
    <3>1. v \in SUBSET (1..(k + 1))
      OBVIOUS
    <3>2. h[v] = Step(g, v)
      BY <3>1
    <3> QED
      BY <2>1, <3>2
  <2>5. ASSUME NEW u \in SUBSET (1..(k + 1)) PROVE h[u] = Step(h, u)
    <3>1. h[u] = Step(g, u)
      OBVIOUS
    <3>2. u # {} => h[u \ {Max(u)}] = g[u \ {Max(u)}]
      BY <2>2, <2>4
    <3> HIDE DEF h
    <3> QED
      BY <3>1, <3>2
  <2> HIDE DEF h, Step
  <2> QED
    BY <2>3, <2>5
<1>3. n \in Good
  <2> HIDE DEF Good
  <2> QED
    BY <1>1, <1>2, Induct
<1>4. n <= n
  OBVIOUS
<1>5. \E g \in [SUBSET (1..n) -> T] : \A u \in SUBSET (1..n) : g[u] = Step(g, u)
  BY <1>3, <1>4, Zenon
<1> QED
  BY <1>5, Zenon DEF IsFold

\* t has the sums of the prefixes of s.
IsSum(t, s, n) == t[0] = 0 /\ \A i \in 1..n : t[i] = t[i - 1] + s[i]

LEMMA TotalSteps ==
  ASSUME NEW n \in Nat, NEW s \in [1..n -> Nat] PROVE \E t : IsSum(t, s, n) /\ Total(s) = t[n]
<1> DEFINE Step(g, u) == IF u = {} THEN 0 ELSE g[u \ {Max(u)}] + s[Max(u)]
           sum == CHOOSE g : g = [u \in SUBSET (1..n) |-> Step(g, u)]
           f == [x \in Nat \X (1..n) |-> x[1] + s[x[2]]]
<1>1. \E g : g = [u \in SUBSET (1..n) |-> Step(g, u)]
  <2>1. f \in [Nat \X (1..n) -> Nat] /\ 0 \in Nat
    OBVIOUS
  <2>2. PICK g : IsFold(g, Nat, 0, n, f)
    <3> HIDE DEF f
    <3> QED
      BY <2>1, FoldExists
  <2>3. ASSUME NEW u \in SUBSET (1..n) PROVE g[u] = Step(g, u)
    <3>1. u # {} => <<g[u \ {Max(u)}], Max(u)>> \in Nat \X (1..n)
      <4>1. u # {} => Max(u) \in u
        BY Largest
      <4> QED
        BY <2>2, <4>1 DEF IsFold
    <3>2. u # {} => f[<<g[u \ {Max(u)}], Max(u)>>] = g[u \ {Max(u)}] + s[Max(u)]
      BY <3>1
    <3> HIDE DEF f
    <3> QED
      BY <2>2, <3>2 DEF IsFold
  <2>4. g = [u \in SUBSET (1..n) |-> Step(g, u)]
    <3> HIDE DEF f, Step
    <3> QED
      BY <2>2, <2>3 DEF IsFold
  <2> QED
    BY <2>4, Zenon
<1>2. sum = [u \in SUBSET (1..n) |-> Step(sum, u)]
  BY <1>1, Zenon
<1>3. Total(s) = sum[1..n]
  BY DEF Total, FoldLeft, MapThenFoldSet
<1> HIDE DEF sum
<1> DEFINE t == [i \in 0..n |-> sum[1..i]]
<1>4. t[0] = 0
  <2>1. 1..0 = {} /\ 1..0 \in SUBSET (1..n)
    OBVIOUS
  <2> QED
    BY <1>2, <2>1
<1>5. ASSUME NEW i \in 1..n PROVE t[i] = t[i - 1] + s[i]
  <2>1. /\ 1..i # {} /\ 1..i \in SUBSET (1..n) /\ Max(1..i) = i
        /\ (1..i) \ {Max(1..i)} = 1..(i - 1)
    BY PrefixSets
  <2>2. sum[1..i] = sum[1..(i - 1)] + s[i]
    BY <1>2, <2>1
  <2> QED
    BY <2>2
<1>6. t[n] = sum[1..n]
  OBVIOUS
<1> HIDE DEF t
<1> QED
  BY <1>3, <1>4, <1>5, <1>6 DEF IsSum

\* The weights made of percentages add up to a thousand times what these add up to.
LEMMA RolloutTotal ==
  ASSUME NEW n \in Nat, NEW p \in [1..n -> Nat]
  PROVE  Total(RolloutFromPercents(p)) = 1000 * Total(p)
<1> DEFINE w == RolloutFromPercents(p)
<1>1. w \in [1..n -> Nat] /\ \A i \in 1..n : w[i] = p[i] * 1000
  BY DEF RolloutFromPercents
<1>2. PICK t : IsSum(t, p, n) /\ Total(p) = t[n]
  BY TotalSteps
<1> HIDE DEF w
<1>3. PICK r : IsSum(r, w, n) /\ Total(w) = r[n]
  BY <1>1, TotalSteps
<1> DEFINE S == {i \in Nat : i <= n => t[i] \in Nat /\ r[i] = 1000 * t[i]}
<1>4. 0 \in S
  BY <1>2, <1>3 DEF IsSum
<1>5. ASSUME NEW i \in Nat, i \in S PROVE i + 1 \in S
  <2> SUFFICES ASSUME i + 1 <= n PROVE t[i + 1] \in Nat /\ r[i + 1] = 1000 * t[i + 1]
    OBVIOUS
  <2>1. i + 1 \in 1..n /\ (i + 1) - 1 = i /\ t[i] \in Nat /\ r[i] = 1000 * t[i]
    BY <1>5
  <2>2. t[i + 1] = t[i] + p[i + 1] /\ r[i + 1] = r[i] + w[i + 1] /\ w[i + 1] = p[i + 1] * 1000
    BY <1>1, <1>2, <1>3, <2>1 DEF IsSum
  <2>3. p[i + 1] \in Nat
    BY <2>1
  <2> QED
    BY <2>1, <2>2, <2>3
<1> HIDE DEF S
<1>6. n \in S
  BY <1>4, <1>5, Induct
<1> QED
  BY <1>2, <1>3, <1>6 DEF S, w

\* CleanVars, by the prefixes of the variations: what it sends is trimmed and not empty.
LEMMA CleanSteps ==
  ASSUME NEW n \in Nat, NEW d, d.stringVars \in [1..n -> Notes]
  PROVE  CleanVars(d) \in Seq({Trim[x] : x \in Notes} \ {""})
<1> DEFINE typed == d.stringVars
           W == {Trim[x] : x \in Notes} \ {""}
           Add(vs, x) == IF Written(x) THEN Append(vs, Trim[x]) ELSE vs
           Step(g, u) == IF u = {} THEN <<>> ELSE Add(g[u \ {Max(u)}], typed[Max(u)])
           clean == CHOOSE g : g = [u \in SUBSET (1..n) |-> Step(g, u)]
           f == [x \in Seq(W) \X (1..n) |-> Add(x[1], typed[x[2]])]
<1>0. ASSUME NEW vs \in Seq(W), NEW x \in Notes PROVE Add(vs, x) \in Seq(W)
  BY AppendProperties DEF Written
<1>1. \E g : g = [u \in SUBSET (1..n) |-> Step(g, u)]
  <2>1. f \in [Seq(W) \X (1..n) -> Seq(W)] /\ <<>> \in Seq(W)
    <3>1. ASSUME NEW x \in Seq(W) \X (1..n) PROVE Add(x[1], typed[x[2]]) \in Seq(W)
      <4>1. x[1] \in Seq(W) /\ x[2] \in 1..n
        BY <3>1
      <4>2. typed[x[2]] \in Notes
        BY <4>1
      <4> HIDE DEF W, Add
      <4> QED
        BY <1>0, <4>1, <4>2
    <3> HIDE DEF W, Add
    <3> QED
      BY <3>1
  <2>2. PICK g : IsFold(g, Seq(W), <<>>, n, f)
    <3> HIDE DEF f, W
    <3> QED
      BY <2>1, FoldExists
  <2>3. ASSUME NEW u \in SUBSET (1..n) PROVE g[u] = Step(g, u)
    <3>1. u # {} => <<g[u \ {Max(u)}], Max(u)>> \in Seq(W) \X (1..n)
      <4>1. u # {} => Max(u) \in u
        BY Largest
      <4> HIDE DEF W
      <4> QED
        BY <2>2, <4>1 DEF IsFold
    <3>2. u # {} => f[<<g[u \ {Max(u)}], Max(u)>>] = Add(g[u \ {Max(u)}], typed[Max(u)])
      BY <3>1
    <3> HIDE DEF f, Add
    <3> QED
      BY <2>2, <3>2 DEF IsFold
  <2>4. g = [u \in SUBSET (1..n) |-> Step(g, u)]
    <3> HIDE DEF f, Step
    <3> QED
      BY <2>2, <2>3 DEF IsFold
  <2> QED
    BY <2>4, Zenon
<1>2. clean = [u \in SUBSET (1..n) |-> Step(clean, u)]
  BY <1>1, Zenon
<1>3. CleanVars(d) = clean[1..n]
  BY DEF CleanVars, FoldLeft, MapThenFoldSet
<1> HIDE DEF clean
<1> DEFINE S == {i \in Nat : i <= n => clean[1..i] \in Seq(W)}
<1>4. 0 \in S
  <2>1. 1..0 = {} /\ 1..0 \in SUBSET (1..n) /\ <<>> \in Seq(W)
    OBVIOUS
  <2> HIDE DEF W
  <2> QED
    BY <1>2, <2>1
<1>5. ASSUME NEW i \in Nat, i \in S PROVE i + 1 \in S
  <2>0. i + 1 \in Nat
    OBVIOUS
  <2> SUFFICES ASSUME i + 1 <= n PROVE clean[1..(i + 1)] \in Seq(W)
    BY <2>0
  <2>1. i + 1 \in 1..n /\ (i + 1) - 1 = i /\ clean[1..i] \in Seq(W) /\ typed[i + 1] \in Notes
    <3> HIDE DEF W
    <3> QED
      BY <1>5
  <2>2. clean[1..(i + 1)] = Add(clean[1..i], typed[i + 1])
    <3>1. /\ 1..(i + 1) # {} /\ 1..(i + 1) \in SUBSET (1..n) /\ Max(1..(i + 1)) = i + 1
          /\ (1..(i + 1)) \ {Max(1..(i + 1))} = 1..i
      BY <2>1, PrefixSets
    <3> HIDE DEF Add
    <3> QED
      BY <1>2, <3>1
  <2> QED
    BY <1>0, <2>1, <2>2
<1> HIDE DEF S
<1>6. n \in S
  BY <1>4, <1>5, Induct
<1>7. clean[1..n] \in Seq(W)
  <2> HIDE DEF W
  <2> QED
    BY <1>6 DEF S
<1> QED
  BY <1>3, <1>7

\* The keys without one, by the prefixes of the list: they are keys.
LEMMA WithoutSteps ==
  ASSUME NEW n \in Nat, NEW keys \in [1..n -> KeyTexts], NEW k
  PROVE  Without(keys, k) \in Seq(KeyTexts)
<1> DEFINE W == KeyTexts
           Add(vs, x) == IF x = k THEN vs ELSE Append(vs, x)
           Step(g, u) == IF u = {} THEN <<>> ELSE Add(g[u \ {Max(u)}], keys[Max(u)])
           rest == CHOOSE g : g = [u \in SUBSET (1..n) |-> Step(g, u)]
           f == [x \in Seq(W) \X (1..n) |-> Add(x[1], keys[x[2]])]
<1>0. ASSUME NEW vs \in Seq(W), NEW x \in KeyTexts PROVE Add(vs, x) \in Seq(W)
  BY AppendProperties
<1>1. \E g : g = [u \in SUBSET (1..n) |-> Step(g, u)]
  <2>1. f \in [Seq(W) \X (1..n) -> Seq(W)] /\ <<>> \in Seq(W)
    <3>1. ASSUME NEW x \in Seq(W) \X (1..n) PROVE Add(x[1], keys[x[2]]) \in Seq(W)
      <4>1. x[1] \in Seq(W) /\ x[2] \in 1..n
        BY <3>1
      <4>2. keys[x[2]] \in KeyTexts
        BY <4>1
      <4> HIDE DEF W, Add
      <4> QED
        BY <1>0, <4>1, <4>2
    <3> HIDE DEF W, Add
    <3> QED
      BY <3>1
  <2>2. PICK g : IsFold(g, Seq(W), <<>>, n, f)
    <3> HIDE DEF f, W
    <3> QED
      BY <2>1, FoldExists
  <2>3. ASSUME NEW u \in SUBSET (1..n) PROVE g[u] = Step(g, u)
    <3>1. u # {} => <<g[u \ {Max(u)}], Max(u)>> \in Seq(W) \X (1..n)
      <4>1. u # {} => Max(u) \in u
        BY Largest
      <4> HIDE DEF W
      <4> QED
        BY <2>2, <4>1 DEF IsFold
    <3>2. u # {} => f[<<g[u \ {Max(u)}], Max(u)>>] = Add(g[u \ {Max(u)}], keys[Max(u)])
      BY <3>1
    <3> HIDE DEF f, Add
    <3> QED
      BY <2>2, <3>2 DEF IsFold
  <2>4. g = [u \in SUBSET (1..n) |-> Step(g, u)]
    <3> HIDE DEF f, Step
    <3> QED
      BY <2>2, <2>3 DEF IsFold
  <2> QED
    BY <2>4, Zenon
<1>2. rest = [u \in SUBSET (1..n) |-> Step(rest, u)]
  BY <1>1, Zenon
<1>3. Without(keys, k) = rest[1..n]
  BY DEF Without, FoldLeft, MapThenFoldSet
<1> HIDE DEF rest
<1> DEFINE S == {i \in Nat : i <= n => rest[1..i] \in Seq(W)}
<1>4. 0 \in S
  <2>1. 1..0 = {} /\ 1..0 \in SUBSET (1..n) /\ <<>> \in Seq(W)
    OBVIOUS
  <2> HIDE DEF W
  <2> QED
    BY <1>2, <2>1
<1>5. ASSUME NEW i \in Nat, i \in S PROVE i + 1 \in S
  <2>0. i + 1 \in Nat
    OBVIOUS
  <2> SUFFICES ASSUME i + 1 <= n PROVE rest[1..(i + 1)] \in Seq(W)
    BY <2>0
  <2>1. i + 1 \in 1..n /\ (i + 1) - 1 = i /\ rest[1..i] \in Seq(W) /\ keys[i + 1] \in KeyTexts
    <3> HIDE DEF W
    <3> QED
      BY <1>5
  <2>2. rest[1..(i + 1)] = Add(rest[1..i], keys[i + 1])
    <3>1. /\ 1..(i + 1) # {} /\ 1..(i + 1) \in SUBSET (1..n) /\ Max(1..(i + 1)) = i + 1
          /\ (1..(i + 1)) \ {Max(1..(i + 1))} = 1..i
      BY <2>1, PrefixSets
    <3> HIDE DEF Add
    <3> QED
      BY <1>2, <3>1
  <2> QED
    BY <1>0, <2>1, <2>2
<1> HIDE DEF S
<1>6. n \in S
  BY <1>4, <1>5, Induct
<1>7. rest[1..n] \in Seq(W)
  <2> HIDE DEF W
  <2> QED
    BY <1>6 DEF S
<1> QED
  BY <1>3, <1>7

LEMMA ConcatTyped ==
  ASSUME NEW T, NEW a \in Seq(T), NEW b \in Seq(T)
  PROVE  a \o b \in Seq(T) /\ Len(a \o b) = Len(a) + Len(b)
BY ConcatProperties

\* Join, of keys of one word each: the words, in the order of their keys.
LEMMA JoinSingles ==
  ASSUME NEW n \in Nat, NEW keys \in [1..n -> KeyTexts], \A i \in 1..n : Len(Words[keys[i]]) = 1
  PROVE  Join(keys) = [i \in 1..n |-> Words[keys[i]][1]]
<1> DEFINE Step(g, u) == IF u = {} THEN <<>> ELSE g[u \ {Max(u)}] \o Words[keys[Max(u)]]
           joined == CHOOSE g : g = [u \in SUBSET (1..n) |-> Step(g, u)]
           f == [x \in Seq(STRING) \X (1..n) |-> x[1] \o Words[keys[x[2]]]]
<1>0. \A i \in 1..n : Words[keys[i]] \in Seq(STRING)
  BY TargetingAssumption
<1>1. \E g : g = [u \in SUBSET (1..n) |-> Step(g, u)]
  <2>1. f \in [Seq(STRING) \X (1..n) -> Seq(STRING)] /\ <<>> \in Seq(STRING)
    BY <1>0, ConcatProperties
  <2>2. PICK g : IsFold(g, Seq(STRING), <<>>, n, f)
    <3> HIDE DEF f
    <3> QED
      BY <2>1, FoldExists
  <2>3. ASSUME NEW u \in SUBSET (1..n) PROVE g[u] = Step(g, u)
    <3>1. u # {} => <<g[u \ {Max(u)}], Max(u)>> \in Seq(STRING) \X (1..n)
      <4>1. u # {} => Max(u) \in u
        BY Largest
      <4> QED
        BY <2>2, <4>1 DEF IsFold
    <3>2. u # {} => f[<<g[u \ {Max(u)}], Max(u)>>] = g[u \ {Max(u)}] \o Words[keys[Max(u)]]
      BY <3>1
    <3> HIDE DEF f
    <3> QED
      BY <2>2, <3>2 DEF IsFold
  <2>4. g = [u \in SUBSET (1..n) |-> Step(g, u)]
    <3> HIDE DEF f, Step
    <3> QED
      BY <2>2, <2>3 DEF IsFold
  <2> QED
    BY <2>4, Zenon
<1>2. joined = [u \in SUBSET (1..n) |-> Step(joined, u)]
  BY <1>1, Zenon
<1>3. Join(keys) = joined[1..n]
  BY DEF Join, FoldLeft, MapThenFoldSet
<1> HIDE DEF joined
<1> DEFINE Firsts(i) == [j \in 1..i |-> Words[keys[j]][1]]
           S == {i \in Nat : i <= n => joined[1..i] = Firsts(i)}
<1>4. 0 \in S
  <2>1. 1..0 = {} /\ 1..0 \in SUBSET (1..n) /\ Firsts(0) = <<>>
    OBVIOUS
  <2> QED
    BY <1>2, <2>1
<1>5. ASSUME NEW i \in Nat, i \in S PROVE i + 1 \in S
  <2>0. i + 1 \in Nat
    OBVIOUS
  <2> SUFFICES ASSUME i + 1 <= n PROVE joined[1..(i + 1)] = Firsts(i + 1)
    BY <2>0
  <2>1. i + 1 \in 1..n /\ (i + 1) - 1 = i /\ joined[1..i] = Firsts(i)
    BY <1>5
  <2>2. joined[1..(i + 1)] = Firsts(i) \o Words[keys[i + 1]]
    <3>1. /\ 1..(i + 1) # {} /\ 1..(i + 1) \in SUBSET (1..n) /\ Max(1..(i + 1)) = i + 1
          /\ (1..(i + 1)) \ {Max(1..(i + 1))} = 1..i
      BY <2>1, PrefixSets
    <3> HIDE DEF Firsts
    <3> QED
      BY <1>2, <2>1, <3>1
  <2>3. Words[keys[i + 1]] \in Seq(STRING) /\ Len(Words[keys[i + 1]]) = 1
    BY <1>0, <2>1
  <2>4. Firsts(i) \in Seq(STRING) /\ Len(Firsts(i)) = i
    <3>1. \A j \in 1..i : Words[keys[j]][1] \in STRING
      BY <1>0, <2>1
    <3> QED
      BY <3>1
  <2>5. Firsts(i) \o Words[keys[i + 1]] = Firsts(i + 1)
    <3> DEFINE both == Firsts(i) \o Words[keys[i + 1]]
    <3>1. both \in Seq(STRING) /\ Len(both) = i + 1
      <4> HIDE DEF Firsts
      <4>1. both \in Seq(STRING) /\ Len(both) = Len(Firsts(i)) + Len(Words[keys[i + 1]])
        BY <2>3, <2>4, ConcatTyped
      <4> QED
        BY <2>3, <2>4, <4>1
    <3>2. ASSUME NEW j \in 1..(i + 1) PROVE both[j] = Words[keys[j]][1]
      <4>1. both[j] = IF j <= i THEN Firsts(i)[j] ELSE Words[keys[i + 1]][j - i]
        <5> HIDE DEF Firsts
        <5> QED
          BY <2>3, <2>4, ConcatProperties
      <4>2. CASE j <= i
        BY <4>1, <4>2
      <4>3. CASE j = i + 1
        BY <4>1, <4>3
      <4> QED
        BY <4>2, <4>3
    <3> HIDE DEF both
    <3> QED
      BY <3>1, <3>2 DEF both
  <2> QED
    BY <2>2, <2>5
<1> HIDE DEF S
<1>6. n \in S
  BY <1>4, <1>5, Induct
<1> QED
  BY <1>3, <1>6 DEF S

\* join(' ') tells two lists apart when no key has a space.
LEMMA JoinTells ==
  ASSUME NEW a \in Seq(KeyTexts), NEW b \in Seq(KeyTexts), Join(a) = Join(b),
         \A k \in Range(a) \cup Range(b) : Len(Words[k]) = 1
  PROVE  a = b
<1>1. PICK n \in Nat : a \in [1..n -> KeyTexts]
  BY LenProperties
<1>2. PICK m \in Nat : b \in [1..m -> KeyTexts]
  BY LenProperties
<1>3. (\A i \in 1..n : Len(Words[a[i]]) = 1) /\ \A i \in 1..m : Len(Words[b[i]]) = 1
  BY <1>1, <1>2 DEF Range
<1>4. [i \in 1..n |-> Words[a[i]][1]] = [i \in 1..m |-> Words[b[i]][1]]
  BY <1>1, <1>2, <1>3, JoinSingles
<1>5. 1..n = 1..m /\ \A i \in 1..n : Words[a[i]][1] = Words[b[i]][1]
  BY <1>4
<1>6. ASSUME NEW i \in 1..n PROVE a[i] = b[i]
  <2>1. a[i] \in KeyTexts /\ b[i] \in KeyTexts
    BY <1>1, <1>2, <1>5
  <2>2. /\ Words[a[i]] \in Seq(STRING) /\ Len(Words[a[i]]) = 1
        /\ Words[b[i]] \in Seq(STRING) /\ Len(Words[b[i]]) = 1
    BY <1>3, <1>5, <2>1, TargetingAssumption
  <2>3. Words[a[i]] = Words[b[i]]
    BY <1>5, <2>2
  <2> QED
    BY <2>1, <2>3, TargetingAssumption
<1> QED
  BY <1>1, <1>2, <1>5, <1>6

----------------------------------------------------------------------------
(* A dialog opens blank.                                                   *)

Controlled == {"flag", "segment", "project", "environment", "sdkKey", "member", "role"}

\* A closed dialog of these forms is blank already, unless its success closed it.
ClosedBlank ==
  form \in Controlled \cup {"confirm"} /\ ~open => draft = Blank(form, shown) \/ kept

\* The confirmation has nothing to fill in; a standing form is never closed.
ConfirmBlank == form = "confirm" => draft = <<>>
StandingOpen == Protocol = "standing" /\ mounted => open

BlankInv == form \in Forms /\ ClosedBlank /\ ConfirmBlank /\ StandingOpen

\* What these forms start from does not depend on what is shown.
LEMMA BlankFixed ==
  ASSUME NEW f \in Controlled \cup {"confirm"}, NEW s, NEW t PROVE Blank(f, s) = Blank(f, t)
<1>1. Blank("flag", s) = Blank("flag", t)
  BY DEF Blank
<1>2. Blank("segment", s) = Blank("segment", t)
  BY DEF Blank
<1>3. Blank("project", s) = Blank("project", t)
  BY DEF Blank
<1>4. Blank("environment", s) = Blank("environment", t)
  BY DEF Blank
<1>5. Blank("sdkKey", s) = Blank("sdkKey", t)
  BY DEF Blank
<1>6. Blank("member", s) = Blank("member", t)
  BY DEF Blank
<1>7. Blank("role", s) = Blank("role", t)
  BY DEF Blank
<1>8. Blank("confirm", s) = Blank("confirm", t)
  BY DEF Blank
<1> QED
  BY <1>1, <1>2, <1>3, <1>4, <1>5, <1>6, <1>7, <1>8 DEF Controlled

LEMMA ConfirmIsBlank == \A s : Blank("confirm", s) = <<>>
BY DEF Blank

\* Which form follows which protocol.
LEMMA Protocols ==
  /\ form \in Controlled => Protocol = "controlled"
  /\ form = "confirm" => Protocol = "confirm"
  /\ form = "ruleEdit" => Protocol = "inline"
  /\ form \in Editors \ {"ruleEdit"} => Protocol = "standing"
  /\ Protocol \in {"self", "inline", "standing"} \/ form \in Controlled \cup {"confirm"}
<1>1. form \in Controlled => Protocol = "controlled"
  BY DEF Protocol, Controlled
<1>2. form = "confirm" => Protocol = "confirm"
  BY DEF Protocol
<1>3. form = "ruleEdit" => Protocol = "inline"
  BY DEF Protocol
<1>4. form \in Editors \ {"ruleEdit"} => Protocol = "standing"
  BY DEF Protocol, Editors
<1>5. Protocol \in {"self", "inline", "standing"} \/ form \in Controlled \cup {"confirm"}
  BY DEF Protocol, Controlled
<1> QED
  BY <1>1, <1>2, <1>3, <1>4, <1>5

\* The confirmation cannot be edited.
LEMMA NoConfirmEdits == \A d : FormOf("confirm", d).edits = {}
BY DEF FormOf, ConfirmDeleteDialog

LEMMA FormKept == [Next]_vars => form' = form /\ Protocol' = Protocol
<1>1. [Next]_vars => form' = form
  BY DEF Next, vars, OpenForm, CloseForm, Edit, Submit, Send, Succeed, Fail, Leave, ComeBack,
     AdriftAnswered, SomebodyElse, Refetch
<1>2. form' = form => Protocol' = Protocol
  BY DEF Protocol
<1> QED
  BY <1>1, <1>2

LEMMA BlankInit == Init => BlankInv
<1> SUFFICES ASSUME Init PROVE BlankInv
  OBVIOUS
<1>1. form \in Forms
  BY FormsAssumption DEF Init
<1>2. draft = Blank(form, shown) /\ (form = "confirm" => draft = <<>>)
  BY ConfirmIsBlank DEF Init
<1>3. open = (Protocol = "standing")
  BY DEF Init
<1> QED
  BY <1>1, <1>2, <1>3 DEF BlankInv, ClosedBlank, ConfirmBlank, StandingOpen

\* Every step keeps BlankInv.
LEMMA BlankStep == BlankInv /\ [Next]_vars => BlankInv'
<1> SUFFICES ASSUME BlankInv, [Next]_vars PROVE BlankInv'
  OBVIOUS
<1>0. form' = form /\ Protocol' = Protocol /\ form \in Forms
  BY FormKept DEF BlankInv
<1>a. \A s, t : form \in Controlled \cup {"confirm"} => Blank(form, s) = Blank(form, t)
  BY BlankFixed
<1>b. ASSUME NEW s, Start(s)
      PROVE  /\ form \in Controlled \cup {"confirm"} => draft' = Blank(form, shown')
             /\ form = "confirm" => draft' = <<>>
  BY <1>a, <1>b, ConfirmIsBlank DEF Start
<1>c. form \in Controlled \cup {"confirm"} => Blank(form, shown') = Blank(form, shown)
  BY <1>a
<1> USE <1>0 DEF BlankInv, ClosedBlank, ConfirmBlank, StandingOpen
<1>1. CASE UNCHANGED vars
  BY <1>1, <1>c DEF vars
<1>2. CASE OpenForm
  <2>1. CASE Protocol \in {"self", "inline"}
    BY <1>2, <2>1, <1>b DEF OpenForm
  <2>2. CASE Protocol \notin {"self", "inline"}
    BY <1>2, <2>2, <1>c DEF OpenForm, work, data
  <2> QED
    BY <2>1, <2>2
<1>3. CASE CloseForm
  <2>1. CASE Protocol \in {"controlled", "inline"}
    BY <1>3, <2>1, <1>b DEF CloseForm
  <2>2. CASE Protocol \notin {"controlled", "inline"}
    BY <1>3, <2>2, <1>c, Protocols, ConfirmIsBlank DEF CloseForm, work, data
  <2> QED
    BY <2>1, <2>2
<1>4. CASE Edit
  BY <1>4, NoConfirmEdits DEF Edit
<1>5. CASE Submit
  <2>1. form \in Controlled \cup {"confirm"} => draft' = draft
    BY <1>5 DEF Submit, Send, work, Controlled
  <2>2. /\ open' = (Protocol \in {"controlled", "standing"}) /\ kept' = kept /\ mounted' = mounted
    BY <1>5 DEF Submit, Send
  <2> QED
    BY <2>1, <2>2, <1>c, Protocols, ConfirmIsBlank
<1>6. CASE Succeed
  <2>1. CASE form \in LeavesOnSuccess
    <3>1. mounted' = FALSE /\ Start(shown)
      BY <1>6, <2>1 DEF Succeed, Unmount
    <3> QED
      BY <3>1, <1>b
  <2>2. CASE form \notin LeavesOnSuccess
    <3>1. /\ open' = (open /\ Protocol # "controlled")
          /\ kept' = (kept \/ (open /\ Protocol = "controlled"))
          /\ mounted' = mounted
      BY <1>6, <2>2 DEF Succeed
    <3>2. form \in Controlled => draft' = draft
      BY <1>6, <2>2 DEF Succeed, work, Controlled
    <3>3. form # "confirm"
      BY <2>2 DEF LeavesOnSuccess
    <3> QED
      BY <3>1, <3>2, <3>3, <1>c, Protocols
  <2> QED
    BY <2>1, <2>2
<1>7. CASE Fail
  BY <1>7, <1>c DEF Fail, work, data
<1>8. CASE Leave
  <2>1. mounted' = FALSE /\ Start(shown)
    BY <1>8 DEF Leave, Unmount
  <2> QED
    BY <2>1, <1>b
<1>9. CASE ComeBack
  BY <1>9, <1>b DEF ComeBack
<1>10. CASE AdriftAnswered
  BY <1>10, <1>c DEF AdriftAnswered, work
<1>11. CASE SomebodyElse
  BY <1>11, <1>c DEF SomebodyElse, work
<1>12. CASE Refetch
  <2>1. draft' = draft \/ Start(server)
    BY <1>12 DEF Refetch, work
  <2>2. mounted' = mounted /\ kept' = kept /\ open' = (open /\ ~(form = "ruleEdit" /\ server.gone))
    BY <1>12 DEF Refetch
  <2>3. StandingOpen'
    BY <2>2, Protocols
  <2> QED
    BY <2>1, <2>2, <2>3, <1>b, <1>c, Protocols DEF Controlled
<1> QED
  BY <1>1, <1>2, <1>3, <1>4, <1>5, <1>6, <1>7, <1>8, <1>9, <1>10, <1>11, <1>12 DEF Next

\* Only opening a dialog and coming back to its page put a closed form on screen.
LEMMA OpensBlank ==
  ASSUME BlankInv, Next, ~open, open' PROVE draft' = Blank(form, shown) \/ kept
<1>1. OpenForm \/ ComeBack
  BY DEF Next, CloseForm, Edit, Submit, Succeed, Unmount, Fail, Leave, AdriftAnswered,
     SomebodyElse, Refetch
<1>2. CASE OpenForm
  <2>1. CASE Protocol \in {"self", "inline"}
    BY <1>2, <2>1 DEF OpenForm, Start
  <2>2. CASE Protocol \notin {"self", "inline"}
    <3>1. Protocol # "standing"
      BY <1>2 DEF OpenForm, BlankInv, StandingOpen
    <3>2. form \in Controlled \cup {"confirm"}
      BY <2>2, <3>1, Protocols
    <3> QED
      BY <1>2, <2>2, <3>2 DEF OpenForm, work, BlankInv, ClosedBlank
  <2> QED
    BY <2>1, <2>2
<1>3. CASE ComeBack
  BY <1>3 DEF ComeBack, Start
<1> QED
  BY <1>1, <1>2, <1>3

\* Whatever happens to the page and to the request, a dialog that opens is blank, with the
\* default for what is shown, unless the success of its request closed it before.
THEOREM BlankCorrect == Spec => ReopensBlank
<1>1. Spec => []BlankInv
  BY BlankInit, BlankStep, PTL DEF Spec
<1>2. BlankInv /\ [Next]_vars => [~open /\ open' => draft' = Blank(form, shown) \/ kept]_vars
  BY OpensBlank DEF vars
<1> QED
  BY <1>1, <1>2, PTL DEF Spec, ReopensBlank

----------------------------------------------------------------------------
(* Types.                                                                  *)

\* The draft of each form.
IsRuleDraft(d) ==
  /\ DOMAIN d = {"rules", "texts", "serve", "variation", "percents", "seed"}
  /\ d.rules \in Seq(RuleOf) /\ Len(d.rules) = 1
  /\ d.serve \in {"variation", "rollout"} /\ d.variation \in Variation
  /\ d.percents \in [1..NVariations -> Nat]
IsSegmentDraft(d) ==
  /\ DOMAIN d = {"included", "excluded", "rules", "texts"}
  /\ d.included \in Seq(KeyTexts) /\ d.excluded \in Seq(KeyTexts) /\ d.rules \in Seq(RuleOf)

DraftOf(f) ==
  CASE f = "flag" -> [name : Texts, key : Texts, keyEdited : BOOLEAN, type : {"boolean", "string"},
                      stringVars : Seq(Notes), temporary : BOOLEAN]
    [] f = "segment" -> [name : Texts, key : Texts, keyEdited : BOOLEAN, description : Notes]
    [] f \in {"project", "environment"} -> [name : Texts, key : Texts, keyEdited : BOOLEAN]
    [] f = "sdkKey" -> [kind : {"server", "client"}, name : Notes]
    [] f \in {"member", "grant"} -> [email : Notes, role : Roles \cup {""}]
    [] f = "role" -> [name : Texts, key : Texts, keyEdited : BOOLEAN, description : Notes,
                      scope : {"project", "organization"}, selected : SUBSET Perms]
    [] f = "trigger" -> [action : {"on", "off"}, description : Notes]
    [] f = "change" -> [target : {"on", "off"}, comment : Notes]
    [] f = "schedule" -> [target : {"on", "off"}, when : {"", "past", "ahead"}, comment : Notes]
    [] f = "user" -> [email : Notes, fullName : Notes, password : Notes, superuser : BOOLEAN]
    [] f = "webhook" -> [url : Notes, description : Notes, allEvents : BOOLEAN,
                         selected : SUBSET Perms]
    [] f = "login" -> [email : Notes, password : Notes]
    [] f = "setup" -> [step : {1, 2}, email : Notes, password : Texts, fullName : Notes,
                       name : Texts, key : Texts, keyEdited : BOOLEAN]
    [] f = "confirm" -> {<<>>}
    [] f = "projectName" -> [name : Texts]

RuleForms == {"ruleNew", "ruleEdit"}
IsDraft(f, d) ==
  IF f \in RuleForms THEN IsRuleDraft(d)
  ELSE IF f = "segmentEdit" THEN IsSegmentDraft(d) ELSE d \in DraftOf(f)

\* What a request of form f carries, and what of it is kept when its page is left.
IsInput(f, x) == IF f \in Editors THEN EditorInputOK(f, x) ELSE x \in InputOf(f)
IsPayload(f, x) == /\ f \in Editors => EditorInputOK(f, x)
                   /\ f \in Puts \cup Posts => x.key \in Texts

TypeInv ==
  /\ form \in Form /\ mounted \in BOOLEAN /\ open \in BOOLEAN /\ kept \in BOOLEAN /\ moved \in BOOLEAN
  /\ IsDraft(form, draft)
  /\ req \in {"idle", "pending", "error"} /\ (sent # None <=> req = "pending")
  /\ sent = None \/ IsInput(form, sent)
  /\ IsStored(form, server) /\ IsStored(form, shown) /\ shown.version <= server.version
  /\ base \in Nat /\ base <= server.version /\ touched \subseteq DOMAIN draft
  /\ \E S : adrift \in Seq(S) /\ \A x \in S : IsPayload(form, x)
  /\ Len(adrift) <= MaxAdrift /\ edits \in Nat /\ others \in 0..MaxOthers

\* Drafts, and stored things, of one form have the same fields.
LEMMA DraftFields ==
  ASSUME NEW f \in Forms, NEW d, NEW e, IsDraft(f, d), IsDraft(f, e) PROVE DOMAIN d = DOMAIN e
<1> USE DEF IsDraft, RuleForms
<1>1. CASE f \in RuleForms
  BY <1>1 DEF IsRuleDraft
<1>2. CASE f = "segmentEdit"
  BY <1>2 DEF IsSegmentDraft
<1>3. CASE f \notin RuleForms \cup {"segmentEdit"}
  <2>0. d \in DraftOf(f) /\ e \in DraftOf(f)
    BY <1>3
  <2>1. CASE f \in {"flag", "segment"}
    BY <2>0, <2>1 DEF DraftOf
  <2>2. CASE f \in {"project", "environment"}
    BY <2>0, <2>2 DEF DraftOf
  <2>3. CASE f \in {"sdkKey", "member", "grant"}
    BY <2>0, <2>3 DEF DraftOf
  <2>4. CASE f \in {"role", "trigger"}
    BY <2>0, <2>4 DEF DraftOf
  <2>5. CASE f \in {"change", "schedule"}
    BY <2>0, <2>5 DEF DraftOf
  <2>6. CASE f \in {"user", "webhook"}
    BY <2>0, <2>6 DEF DraftOf
  <2>7. CASE f \in {"login", "setup"}
    BY <2>0, <2>7 DEF DraftOf
  <2>8. CASE f \in {"confirm", "projectName"}
    BY <2>0, <2>8 DEF DraftOf
  <2> QED
    BY <1>3, <2>1, <2>2, <2>3, <2>4, <2>5, <2>6, <2>7, <2>8 DEF Forms, Editors
<1> QED
  BY <1>1, <1>2, <1>3

LEMMA StoredFields ==
  ASSUME NEW f \in Forms, NEW s, NEW t, IsStored(f, s), IsStored(f, t) PROVE DOMAIN s = DOMAIN t
<1>1. CASE f = "ruleEdit"
  BY <1>1 DEF IsStored, IsRule
<1>2. CASE f = "segmentEdit"
  BY <1>2 DEF IsStored, IsSegment
<1>3. CASE f = "projectName"
  BY <1>3 DEF IsStored
<1>4. CASE f \in {"change", "schedule"}
  BY <1>4 DEF IsStored
<1>5. CASE f \in Puts \cup Posts
  BY <1>5 DEF IsStored, Puts, Posts
<1>6. CASE f \notin {"ruleEdit", "segmentEdit", "projectName", "change", "schedule"} \cup Puts \cup Posts
  BY <1>6 DEF IsStored
<1> QED
  BY <1>1, <1>2, <1>3, <1>4, <1>5, <1>6

\* Percentages and weights.
LEMMA Counted == NVariations \in Nat \ {0} /\ PercentInputs \subseteq Nat
BY Zenon, TargetingAssumption

LEMMA EvenTyped == EvenPercents \in [1..NVariations -> Nat]
<1> DEFINE n == NVariations
           b == 100 \div n
<1>1. n \in Nat /\ n > 0
  BY Counted
<1>2. b \in Nat /\ b * n <= 100
  BY <1>1
<1>3. b + 100 - b * n \in Nat
  BY <1>1, <1>2
<1> HIDE DEF b, n
<1>4. EvenPercents = [i \in 1..n |-> IF i = 1 THEN b + 100 - b * n ELSE b]
  BY DEF EvenPercents, b, n
<1>5. EvenPercents \in [1..n -> Nat]
  BY <1>2, <1>3, <1>4
<1> QED
  BY <1>5 DEF n

LEMMA PercentsTyped ==
  ASSUME NEW w \in [1..NVariations -> Nat] PROVE PercentsFromRollout(w) \in [1..NVariations -> Nat]
<1>1. \A k \in Nat : (k + 500) \div 1000 \in Nat
  OBVIOUS
<1> QED
  BY <1>1 DEF PercentsFromRollout

LEMMA WeightsTyped ==
  ASSUME NEW p \in [1..NVariations -> Nat] PROVE RolloutFromPercents(p) \in [1..NVariations -> Nat]
<1>1. \A k \in Nat : k * 1000 \in Nat
  OBVIOUS
<1> QED
  BY <1>1 DEF RolloutFromPercents

\* Lists: an element removed, replaced or added.
LEMMA RemoveTyped ==
  ASSUME NEW T, NEW s \in Seq(T), NEW i \in DOMAIN s
  PROVE  RemoveAt(s, i) \in Seq(T) /\ Len(RemoveAt(s, i)) = Len(s) - 1
<1>1. i \in 1..Len(s) /\ Len(s) \in Nat
  OBVIOUS
<1>2. SubSeq(s, 1, i - 1) \in Seq(T) /\ Len(SubSeq(s, 1, i - 1)) = i - 1
  BY <1>1, SubSeqProperties
<1>3. SubSeq(s, i + 1, Len(s)) \in Seq(T) /\ Len(SubSeq(s, i + 1, Len(s))) = Len(s) - i
  BY <1>1, SubSeqProperties
<1>4. RemoveAt(s, i) = SubSeq(s, 1, i - 1) \o SubSeq(s, i + 1, Len(s))
  BY DEF RemoveAt
<1>5. /\ RemoveAt(s, i) \in Seq(T)
      /\ Len(RemoveAt(s, i)) = Len(SubSeq(s, 1, i - 1)) + Len(SubSeq(s, i + 1, Len(s)))
  BY <1>2, <1>3, <1>4, ConcatTyped
<1>6. \A n \in Nat, k \in Nat : (k - 1) + (n - k) = n - 1
  OBVIOUS
<1>7. i \in Nat /\ Len(RemoveAt(s, i)) = (i - 1) + (Len(s) - i)
  BY <1>1, <1>2, <1>3, <1>5
<1> QED
  BY <1>1, <1>5, <1>6, <1>7, Zenon

LEMMA ReplaceTyped ==
  ASSUME NEW T, NEW s \in Seq(T), NEW i \in DOMAIN s, NEW x \in T PROVE ReplaceAt(s, i, x) \in Seq(T)
BY DEF ReplaceAt

\* A rule's clauses, and rules, stay of their type whatever is edited.
LEMMA ClauseFacts ==
  /\ NewClause \in Clause /\ NewClause.values = <<>> /\ DisplayValues[<<>>] = ""
  /\ NewRule \in RuleOf /\ NewRule.id = 0 /\ NewRule.clauses = <<NewClause>>
<1>1. "" \in Attributes /\ <<>> \in DOMAIN DisplayValues /\ DisplayValues[<<>>] = ""
  BY TargetingAssumption
<1>2. (CHOOSE h \in Hows : TRUE) \in Hows
  BY TargetingAssumption, Zenon
<1>3. NewClause \in Clause /\ NewClause.values = <<>>
  BY <1>1, <1>2 DEF NewClause, Clause
<1>4. <<NewClause>> \in Seq(Clause)
  BY <1>3
<1>5. NewRule \in RuleOf /\ NewRule.id = 0 /\ NewRule.clauses = <<NewClause>>
  BY <1>4 DEF NewRule, RuleOf
<1> QED
  BY <1>1, <1>3, <1>5

LEMMA ClauseEdited ==
  ASSUME NEW c \in Clause, NEW text, NEW e \in ClauseEditor(c, text) PROVE e[1] \in Clause
<1>0. \A t \in ValueTexts : ParseValues[t] \in DOMAIN DisplayValues
  BY TargetingAssumption
<1>1. \/ \E a \in Attributes : e = <<[c EXCEPT !.attribute = a], text>>
      \/ \E h \in Hows : e = <<[c EXCEPT !.how = h], text>>
      \/ \E t \in ValueTexts : e = <<[c EXCEPT !.values = ParseValues[t]], t>>
  BY DEF ClauseEditor
<1> QED
  BY <1>0, <1>1 DEF Clause

LEMMA ClausesListed ==
  ASSUME NEW clauses \in Seq(Clause), NEW cs \in ClauseLists(clauses)
  PROVE  cs \in Seq(Clause) /\ (Len(cs) < Len(clauses) \/ cs = Append(clauses, NewClause))
<1>1. (\E j \in DOMAIN clauses : cs = RemoveAt(clauses, j)) \/ cs = Append(clauses, NewClause)
  BY DEF ClauseLists
<1>2. CASE cs = Append(clauses, NewClause)
  BY <1>2, ClauseFacts, AppendProperties
<1>3. ASSUME NEW j \in DOMAIN clauses, cs = RemoveAt(clauses, j)
      PROVE  cs \in Seq(Clause) /\ Len(cs) < Len(clauses)
  <2>1. cs \in Seq(Clause) /\ Len(cs) = Len(clauses) - 1
    BY <1>3, RemoveTyped
  <2>2. Len(clauses) \in Nat
    OBVIOUS
  <2>3. \A n \in Nat : n - 1 < n
    OBVIOUS
  <2> QED
    BY <2>1, <2>2, <2>3, Zenon
<1> QED
  BY <1>1, <1>2, <1>3

LEMMA RulesListed ==
  ASSUME NEW rules \in Seq(RuleOf), NEW rs \in RuleLists(rules)
  PROVE  rs \in Seq(RuleOf) /\ (Len(rs) < Len(rules) \/ rs = Append(rules, NewRule))
<1>1. (\E i \in DOMAIN rules : rs = RemoveAt(rules, i)) \/ rs = Append(rules, NewRule)
  BY DEF RuleLists
<1>2. CASE rs = Append(rules, NewRule)
  BY <1>2, ClauseFacts, AppendProperties
<1>3. ASSUME NEW i \in DOMAIN rules, rs = RemoveAt(rules, i)
      PROVE  rs \in Seq(RuleOf) /\ Len(rs) < Len(rules)
  <2>1. rs \in Seq(RuleOf) /\ Len(rs) = Len(rules) - 1
    BY <1>3, RemoveTyped
  <2>2. Len(rules) \in Nat
    OBVIOUS
  <2>3. \A n \in Nat : n - 1 < n
    OBVIOUS
  <2> QED
    BY <2>1, <2>2, <2>3, Zenon
<1> QED
  BY <1>1, <1>2, <1>3

\* An edit of rule i: one of its clauses with its text, or the list of its clauses.
ClauseEdit(d, i, e) ==
  \E j \in DOMAIN d.rules[i].clauses :
    LET k == RuleKey(d.rules, i)
    IN \E x \in ClauseEditor(d.rules[i].clauses[j], d.texts[k][j]) :
         e = With(d, [d.rules EXCEPT ![i].clauses[j] = x[1]], [d.texts EXCEPT ![k][j] = x[2]])
ListEdit(d, i, e) ==
  \E cs \in ClauseLists(d.rules[i].clauses) :
    e = WithRules(d, [d.rules EXCEPT ![i].clauses = cs])

LEMMA RuleEditorIs ==
  ASSUME NEW d, NEW i, NEW e \in RuleEditor(d, i) PROVE ClauseEdit(d, i, e) \/ ListEdit(d, i, e)
<1>1. (\E j \in DOMAIN d.rules[i].clauses : e \in ClauseEdits(d, i, j)) \/ ListEdit(d, i, e)
  BY DEF RuleEditor, ListEdit
<1>2. ASSUME NEW j \in DOMAIN d.rules[i].clauses, e \in ClauseEdits(d, i, j) PROVE ClauseEdit(d, i, e)
  BY <1>2, Zenon DEF ClauseEdits, ClauseEdit
<1> QED
  BY <1>1, <1>2

\* The rules after an edit of one of them.
LEMMA RuleEditorTyped ==
  ASSUME NEW d, d.rules \in Seq(RuleOf), NEW i \in DOMAIN d.rules, NEW e \in RuleEditor(d, i)
  PROVE  \E rules \in Seq(RuleOf) : Len(rules) = Len(d.rules) /\ \E texts : e = With(d, rules, texts)
<1>0. d.rules[i] \in RuleOf /\ d.rules[i].clauses \in Seq(Clause)
  <2>1. d.rules[i] \in RuleOf
    OBVIOUS
  <2> QED
    BY <2>1 DEF RuleOf
<1>1. ASSUME NEW cs \in Seq(Clause)
      PROVE  /\ [d.rules EXCEPT ![i].clauses = cs] \in Seq(RuleOf)
             /\ Len([d.rules EXCEPT ![i].clauses = cs]) = Len(d.rules)
  <2>1. [d.rules[i] EXCEPT !.clauses = cs] \in RuleOf
    BY <1>0, <1>1 DEF RuleOf
  <2> QED
    BY <2>1
<1>2. CASE ClauseEdit(d, i, e)
  <2>1. PICK j \in DOMAIN d.rules[i].clauses :
          \E x \in ClauseEditor(d.rules[i].clauses[j], d.texts[RuleKey(d.rules, i)][j]) : \E texts :
            e = With(d, [d.rules EXCEPT ![i].clauses[j] = x[1]], texts)
    BY <1>2, Zenon DEF ClauseEdit
  <2>2. PICK x \in ClauseEditor(d.rules[i].clauses[j], d.texts[RuleKey(d.rules, i)][j]) :
          \E texts : e = With(d, [d.rules EXCEPT ![i].clauses[j] = x[1]], texts)
    BY <2>1
  <2>3. x[1] \in Clause
    BY <1>0, <2>1, <2>2, ClauseEdited
  <2>4. [d.rules[i].clauses EXCEPT ![j] = x[1]] \in Seq(Clause)
    BY <1>0, <2>3
  <2>5. [d.rules EXCEPT ![i].clauses[j] = x[1]]
          = [d.rules EXCEPT ![i].clauses = [d.rules[i].clauses EXCEPT ![j] = x[1]]]
    OBVIOUS
  <2> QED
    BY <1>1, <2>2, <2>4, <2>5
<1>3. CASE ListEdit(d, i, e)
  <2>1. PICK cs \in ClauseLists(d.rules[i].clauses) :
          e = WithRules(d, [d.rules EXCEPT ![i].clauses = cs])
    BY <1>3 DEF ListEdit
  <2>2. cs \in Seq(Clause)
    BY <1>0, <2>1, ClausesListed
  <2> QED
    BY <1>1, <2>1, <2>2 DEF WithRules
<1> QED
  BY <1>2, <1>3, RuleEditorIs

LEMMA RuleFormEdits ==
  ASSUME NEW d, IsRuleDraft(d), NEW b, NEW e \in RuleForm(d, b).edits PROVE IsRuleDraft(e)
<1>1. \/ e \in RuleEditor(d, 1)
      \/ e \in Put(d, "serve", {"variation", "rollout"})
      \/ e \in Put(d, "variation", Variation)
      \/ e \in RolloutEditor(d)
      \/ e \in Put(d, "seed", {0, 1})
  BY DEF RuleForm, VariationSelect, Reseed
<1>2. CASE e \in RuleEditor(d, 1)
  <2>1. d.rules \in Seq(RuleOf) /\ 1 \in DOMAIN d.rules
    BY DEF IsRuleDraft
  <2>2. PICK rules \in Seq(RuleOf) : Len(rules) = Len(d.rules) /\ \E texts : e = With(d, rules, texts)
    BY <1>2, <2>1, RuleEditorTyped
  <2> QED
    BY <2>2 DEF With, IsRuleDraft
<1>3. CASE e \in RolloutEditor(d)
  <2>1. PICK i \in DOMAIN d.percents, n \in PercentInputs :
          e = [d EXCEPT !["percents"] = ReplaceAt(d.percents, i, ClampPercent(n))]
    BY <1>3 DEF RolloutEditor, Put
  <2>2. ClampPercent(n) \in Nat
    BY Counted DEF ClampPercent
  <2>3. ReplaceAt(d.percents, i, ClampPercent(n)) \in [1..NVariations -> Nat]
    BY <2>2 DEF IsRuleDraft, ReplaceAt
  <2> QED
    BY <2>1, <2>3 DEF IsRuleDraft
<1> QED
  BY <1>1, <1>2, <1>3 DEF Put, IsRuleDraft

\* An edit of a segment: a list of keys, a rule, or the list of rules.
LEMMA SegmentRulesIs ==
  ASSUME NEW d, d.rules \in Seq(RuleOf), NEW e \in SegmentRulesEditor(d)
  PROVE  \/ \E i \in DOMAIN d.rules : e \in RuleEditor(d, i)
         \/ \E rules \in RuleLists(d.rules) : e = WithRules(d, rules)
BY DEF SegmentRulesEditor

LEMMA KeysEdited ==
  ASSUME NEW d, NEW label, d[label] \in Seq(KeyTexts), NEW e \in SegmentTargetsEditor(d, label)
  PROVE  \E keys \in Seq(KeyTexts) : e = [d EXCEPT ![label] = keys]
<1>1. \/ \E k \in KeyTexts : e = [d EXCEPT ![label] = Append(d[label], k)]
      \/ \E k : e = [d EXCEPT ![label] = Without(d[label], k)]
  BY DEF SegmentTargetsEditor, Put
<1>2. \A k \in KeyTexts : Append(d[label], k) \in Seq(KeyTexts)
  BY AppendProperties
<1>3. \A k : Without(d[label], k) \in Seq(KeyTexts)
  <2>1. PICK n \in Nat : d[label] \in [1..n -> KeyTexts]
    BY LenProperties
  <2> QED
    BY <2>1, WithoutSteps
<1> QED
  BY <1>1, <1>2, <1>3

LEMMA SegmentEdits ==
  ASSUME NEW d, IsSegmentDraft(d), NEW s, NEW b, NEW e \in SegmentEditor(d, s, b).edits
  PROVE  IsSegmentDraft(e)
<1>1. \/ e \in SegmentTargetsEditor(d, "included") \/ e \in SegmentTargetsEditor(d, "excluded")
      \/ e \in SegmentRulesEditor(d)
  BY DEF SegmentEditor
<1>2. d.rules \in Seq(RuleOf) /\ d.included \in Seq(KeyTexts) /\ d.excluded \in Seq(KeyTexts)
  BY DEF IsSegmentDraft
<1>3. ASSUME NEW label \in {"included", "excluded"}, e \in SegmentTargetsEditor(d, label)
      PROVE  IsSegmentDraft(e)
  <2>1. PICK keys \in Seq(KeyTexts) : e = [d EXCEPT ![label] = keys]
    BY <1>2, <1>3, KeysEdited
  <2> QED
    BY <2>1 DEF IsSegmentDraft
<1>4. CASE e \in SegmentRulesEditor(d)
  <2>1. \E rules \in Seq(RuleOf) : \E texts : e = With(d, rules, texts)
    BY <1>2, <1>4, SegmentRulesIs, RuleEditorTyped, RulesListed DEF WithRules
  <2> QED
    BY <2>1 DEF With, IsSegmentDraft
<1> QED
  BY <1>1, <1>3, <1>4

\* The edits of a dialog keep its draft of its type.
LEMMA SlugText == \A t \in Texts : Slug[t] \in Texts
BY FormsAssumption

LEMMA NameIn ==
  ASSUME NEW d, NEW e \in HandleNameChange(d), d.key \in Texts
  PROVE  \E t \in Texts, k \in Texts : e = [d EXCEPT !.name = t, !.key = k]
BY SlugText DEF HandleNameChange

LEMMA KeyIn ==
  ASSUME NEW d, NEW e \in HandleKeyChange(d)
  PROVE  \E k \in Texts : e = [d EXCEPT !.key = k, !.keyEdited = TRUE]
BY SlugText DEF HandleKeyChange

LEMMA StringVarsTyped == ASSUME NEW vs \in Seq(Notes) PROVE StringVars(vs) \subseteq Seq(Notes)
<1>0. NewVar \in Notes
  BY FormsAssumption DEF NewVar
<1>1. ASSUME NEW x \in StringVars(vs) PROVE x \in Seq(Notes)
  <2>1. \/ \E i \in DOMAIN vs, t \in Notes : x = ReplaceAt(vs, i, t)
        \/ \E i \in DOMAIN vs : x = RemoveAt(vs, i)
        \/ x = Append(vs, NewVar)
    BY DEF StringVars
  <2>2. \A i \in DOMAIN vs, t \in Notes : ReplaceAt(vs, i, t) \in Seq(Notes)
    BY ReplaceTyped
  <2>3. \A i \in DOMAIN vs : RemoveAt(vs, i) \in Seq(Notes)
    BY RemoveTyped
  <2>4. Append(vs, NewVar) \in Seq(Notes)
    BY <1>0, AppendProperties
  <2> QED
    BY <2>1, <2>2, <2>3, <2>4
<1> QED
  BY <1>1

LEMMA DialogEdits ==
  ASSUME NEW f \in Forms \ (RuleForms \cup {"segmentEdit"}), NEW d \in DraftOf(f),
         NEW e \in FormOf(f, d).edits
  PROVE  e \in DraftOf(f)
<1> USE DEF DraftOf
<1>1. CASE f = "flag"
  <2>0. d.key \in Texts /\ d.stringVars \in Seq(Notes)
    BY <1>1
  <2>1. \/ e \in HandleNameChange(d) \/ e \in HandleKeyChange(d)
        \/ e \in Put(d, "type", {"boolean", "string"})
        \/ e \in Put(d, "stringVars", StringVars(d.stringVars))
        \/ e \in Put(d, "temporary", BOOLEAN)
    BY <1>1 DEF FormOf, CreateFlagDialog, StringVarEdits
  <2>2. CASE e \in HandleNameChange(d)
    <3>1. PICK t \in Texts, k \in Texts : e = [d EXCEPT !.name = t, !.key = k]
      BY <2>0, <2>2, NameIn
    <3> QED
      BY <1>1, <3>1
  <2>3. CASE e \in HandleKeyChange(d)
    <3>1. PICK k \in Texts : e = [d EXCEPT !.key = k, !.keyEdited = TRUE]
      BY <2>3, KeyIn
    <3> QED
      BY <1>1, <3>1
  <2>4. CASE e \in Put(d, "stringVars", StringVars(d.stringVars))
    <3>1. PICK v \in StringVars(d.stringVars) : e = [d EXCEPT !["stringVars"] = v]
      BY <2>4 DEF Put
    <3>2. v \in Seq(Notes)
      BY <2>0, <3>1, StringVarsTyped
    <3> QED
      BY <1>1, <3>1, <3>2
  <2>5. CASE e \in Put(d, "type", {"boolean", "string"}) \/ e \in Put(d, "temporary", BOOLEAN)
    BY <1>1, <2>5 DEF Put
  <2> QED
    BY <2>1, <2>2, <2>3, <2>4, <2>5
<1>2. CASE f = "segment"
  <2>0. d.key \in Texts
    BY <1>2
  <2>1. \/ e \in HandleNameChange(d) \/ e \in HandleKeyChange(d) \/ e \in Put(d, "description", Notes)
    BY <1>2 DEF FormOf, CreateSegmentDialog
  <2>a. CASE e \in HandleNameChange(d)
    <3>1. PICK t \in Texts, k \in Texts : e = [d EXCEPT !.name = t, !.key = k]
      BY <2>0, <2>a, NameIn
    <3> QED
      BY <1>2, <3>1
  <2>b. CASE e \in HandleKeyChange(d)
    <3>1. PICK k \in Texts : e = [d EXCEPT !.key = k, !.keyEdited = TRUE]
      BY <2>b, KeyIn
    <3> QED
      BY <1>2, <3>1
  <2>c. CASE e \in Put(d, "description", Notes)
    BY <1>2, <2>c DEF Put
  <2> QED
    BY <2>1, <2>a, <2>b, <2>c
<1>3. CASE f \in {"project", "environment"}
  <2>0. d.key \in Texts
    BY <1>3
  <2>1. e \in HandleNameChange(d) \/ e \in HandleKeyChange(d)
    BY <1>3 DEF FormOf, CreateProjectDialog, CreateEnvironmentDialog
  <2>a. CASE e \in HandleNameChange(d)
    <3>1. PICK t \in Texts, k \in Texts : e = [d EXCEPT !.name = t, !.key = k]
      BY <2>0, <2>a, NameIn
    <3> QED
      BY <1>3, <3>1
  <2>b. CASE e \in HandleKeyChange(d)
    <3>1. PICK k \in Texts : e = [d EXCEPT !.key = k, !.keyEdited = TRUE]
      BY <2>b, KeyIn
    <3> QED
      BY <1>3, <3>1
  <2> QED
    BY <2>1, <2>a, <2>b
<1>4. CASE f = "sdkKey"
  BY <1>4 DEF FormOf, CreateSdkKeyDialog, Put
<1>5. CASE f \in {"member", "grant"}
  <2>1. e \in Put(d, "email", Notes) \/ e \in Put(d, "role", Roles)
    BY <1>5 DEF FormOf, AddMemberDialog, GrantProjectRoleDialog
  <2> QED
    BY <1>5, <2>1 DEF Put
<1>6. CASE f = "role"
  <2>0. d.key \in Texts /\ d.selected \in SUBSET Perms
    BY <1>6
  <2>1. \/ e \in HandleNameChange(d) \/ e \in HandleKeyChange(d) \/ e \in Put(d, "description", Notes)
        \/ e \in Put(d, "scope", {"project", "organization"}) \/ e \in Toggle(d, "selected", Perms)
    BY <1>6 DEF FormOf, CreateRoleDialog
  <2>2. CASE e \in Toggle(d, "selected", Perms)
    BY <1>6, <2>0, <2>2 DEF Toggle
  <2>a. CASE e \in HandleNameChange(d)
    <3>1. PICK t \in Texts, k \in Texts : e = [d EXCEPT !.name = t, !.key = k]
      BY <2>0, <2>a, NameIn
    <3> QED
      BY <1>6, <3>1
  <2>b. CASE e \in HandleKeyChange(d)
    <3>1. PICK k \in Texts : e = [d EXCEPT !.key = k, !.keyEdited = TRUE]
      BY <2>b, KeyIn
    <3> QED
      BY <1>6, <3>1
  <2>c. CASE e \in Put(d, "description", Notes) \/ e \in Put(d, "scope", {"project", "organization"})
    BY <1>6, <2>c DEF Put
  <2> QED
    BY <2>1, <2>2, <2>a, <2>b, <2>c
<1>7. CASE f = "trigger"
  BY <1>7 DEF FormOf, CreateTriggerDialog, Put
<1>8. CASE f = "change"
  BY <1>8 DEF FormOf, RequestChangeDialog, Put
<1>9. CASE f = "schedule"
  <2>1. \/ e \in Put(d, "target", {"on", "off"}) \/ e \in Put(d, "when", {"", "past", "ahead"})
        \/ e \in Put(d, "comment", Notes)
    BY <1>9 DEF FormOf, ScheduleChangeDialog
  <2>2. CASE e \in Put(d, "target", {"on", "off"})
    BY <1>9, <2>2 DEF Put
  <2>3. CASE e \in Put(d, "when", {"", "past", "ahead"})
    BY <1>9, <2>3 DEF Put
  <2>4. CASE e \in Put(d, "comment", Notes)
    BY <1>9, <2>4 DEF Put
  <2> QED
    BY <2>1, <2>2, <2>3, <2>4
<1>10. CASE f = "user"
  BY <1>10 DEF FormOf, CreateUserDialog, Put
<1>11. CASE f = "webhook"
  <2>0. d.selected \in SUBSET Perms
    BY <1>11
  <2>1. \/ e \in Put(d, "url", Notes) \/ e \in Put(d, "description", Notes)
        \/ e \in Put(d, "allEvents", BOOLEAN) \/ e \in Toggle(d, "selected", Perms)
    BY <1>11 DEF FormOf, CreateWebhookDialog
  <2>2. CASE e \in Toggle(d, "selected", Perms)
    BY <1>11, <2>0, <2>2 DEF Toggle
  <2> QED
    BY <1>11, <2>1, <2>2 DEF Put
<1>12. CASE f = "login"
  BY <1>12 DEF FormOf, LoginForm, Put
<1>13. CASE f = "setup"
  <2>0. d.key \in Texts
    BY <1>13
  <2>1. \/ e \in HandleNameChange(d) \/ e \in HandleKeyChange(d) \/ e \in Put(d, "fullName", Notes)
        \/ e \in Put(d, "email", Notes) \/ e \in Put(d, "password", Texts)
        \/ e \in Put(d, "step", {1}) \/ e \in Put(d, "step", {2})
    BY <1>13 DEF FormOf, SetupWizard, WizardEdits
  <2>2. CASE e \in HandleNameChange(d)
    <3>1. PICK t \in Texts, k \in Texts : e = [d EXCEPT !.name = t, !.key = k]
      BY <2>0, <2>2, NameIn
    <3> QED
      BY <1>13, <3>1
  <2>3. CASE e \in HandleKeyChange(d)
    <3>1. PICK k \in Texts : e = [d EXCEPT !.key = k, !.keyEdited = TRUE]
      BY <2>3, KeyIn
    <3> QED
      BY <1>13, <3>1
  <2>4. CASE e \notin HandleNameChange(d) \cup HandleKeyChange(d)
    <3>1. \/ \E v \in Notes : e = [d EXCEPT !["fullName"] = v]
          \/ \E v \in Notes : e = [d EXCEPT !["email"] = v]
          \/ \E v \in Texts : e = [d EXCEPT !["password"] = v]
          \/ \E v \in {1, 2} : e = [d EXCEPT !["step"] = v]
      BY <2>1, <2>4 DEF Put
    <3> QED
      BY <1>13, <3>1
  <2> QED
    BY <2>2, <2>3, <2>4
<1>14. CASE f = "confirm"
  BY <1>14 DEF FormOf, ConfirmDeleteDialog
<1>15. CASE f = "projectName"
  BY <1>15 DEF FormOf, ProjectGeneralForm, Put
<1> QED
  BY <1>1, <1>2, <1>3, <1>4, <1>5, <1>6, <1>7, <1>8, <1>9, <1>10, <1>11, <1>12, <1>13, <1>14, <1>15
  DEF Forms, Editors, RuleForms

\* What a form starts from.
LEMMA StoredKinds ==
  ASSUME NEW f, NEW s
  PROVE  /\ f = "ruleEdit" => (IsStored(f, s) <=> s.version \in Nat /\ IsRule(s))
         /\ f = "segmentEdit" => (IsStored(f, s) <=> s.version \in Nat /\ IsSegment(s))
         /\ f = "projectName" => (IsStored(f, s) <=> s.version \in Nat /\ s \in [version : Nat, name : Texts])
         /\ f \in {"change", "schedule"} =>
              (IsStored(f, s) <=> s.version \in Nat /\ s \in [version : Nat, on : BOOLEAN])
         /\ f \in Puts \cup Posts =>
              (IsStored(f, s) <=> s.version \in Nat /\ s \in [version : Nat, taken : SUBSET Texts])
<1>1. f = "ruleEdit" => (IsStored(f, s) <=> s.version \in Nat /\ IsRule(s))
  BY DEF IsStored, Puts, Posts
<1>2. f = "segmentEdit" => (IsStored(f, s) <=> s.version \in Nat /\ IsSegment(s))
  BY DEF IsStored, Puts, Posts
<1>3. f = "projectName" => (IsStored(f, s) <=> s.version \in Nat /\ s \in [version : Nat, name : Texts])
  BY DEF IsStored, Puts, Posts
<1>4. f \in {"change", "schedule"} =>
        (IsStored(f, s) <=> s.version \in Nat /\ s \in [version : Nat, on : BOOLEAN])
  BY DEF IsStored, Puts, Posts
<1>5. f \in Puts \cup Posts =>
        (IsStored(f, s) <=> s.version \in Nat /\ s \in [version : Nat, taken : SUBSET Texts])
  BY DEF IsStored, Puts, Posts
<1> QED
  BY <1>1, <1>2, <1>3, <1>4, <1>5

LEMMA RuleSeedTyped ==
  ASSUME NEW clauses \in Seq(Clause), NEW served, IsServed(served)
  PROVE  IsRuleDraft(RuleFormSeed(clauses, served))
<1> DEFINE cs == IF clauses # <<>> THEN clauses ELSE <<NewClause>>
           rules == <<[id |-> 0, clauses |-> cs]>>
<1>1. cs \in Seq(Clause)
  <2>1. NewClause \in Clause
    BY ClauseFacts
  <2>2. <<NewClause>> \in Seq(Clause)
    BY <2>1
  <2> QED
    BY <2>2
<1>2. rules \in Seq(RuleOf) /\ Len(rules) = 1
  <2> HIDE DEF cs
  <2>1. [id |-> 0, clauses |-> cs] \in RuleOf
    BY <1>1 DEF RuleOf
  <2> QED
    BY <2>1
<1>3. /\ served.mode \in {"variation", "rollout"} /\ served.variation \in Variation
      /\ served.mode = "rollout" => served.weights \in [1..NVariations -> Nat]
  <2>1. 0 \in Variation
    BY Counted DEF Variation
  <2>2. ASSUME NEW v \in Variation, served = ServeVariation(v)
        PROVE  served.mode = "variation" /\ served.variation \in Variation
    BY <2>2 DEF ServeVariation
  <2>3. ASSUME served.weights \in [1..NVariations -> Nat],
               served = ServeRollout(served.weights, served.seed)
        PROVE  served.mode = "rollout" /\ served.variation \in Variation
    BY <2>1, <2>3 DEF ServeRollout
  <2> QED
    BY <2>2, <2>3 DEF IsServed
<1>4. (IF served.mode = "rollout" THEN PercentsFromRollout(served.weights) ELSE EvenPercents)
        \in [1..NVariations -> Nat]
  BY <1>3, EvenTyped, PercentsTyped
<1> HIDE DEF cs
<1> DEFINE d == RuleFormSeed(clauses, served)
<1>5. /\ DOMAIN d = {"rules", "texts", "serve", "variation", "percents", "seed"}
      /\ d.rules = rules /\ d.serve = served.mode /\ d.variation = served.variation
      /\ d.percents = IF served.mode = "rollout" THEN PercentsFromRollout(served.weights)
                                                 ELSE EvenPercents
  BY DEF RuleFormSeed, cs
<1> HIDE DEF d, rules
<1>6. IsRuleDraft(d)
  BY <1>2, <1>3, <1>4, <1>5 DEF IsRuleDraft
<1> QED
  BY <1>6 DEF d

LEMMA BlankTyped ==
  ASSUME NEW f \in Forms, NEW s, IsStored(f, s) PROVE IsDraft(f, Blank(f, s))
<1>0. "" \in Texts /\ "" \in Notes
  BY FormsAssumption
<1> USE DEF IsDraft, RuleForms
<1>1. CASE f = "ruleNew"
  <2>1. Blank(f, s) = RuleFormSeed(<<>>, ServeVariation(0))
    BY <1>1 DEF Blank
  <2>2. <<>> \in Seq(Clause) /\ IsServed(ServeVariation(0))
    BY Counted DEF IsServed, Variation
  <2> QED
    BY <1>1, <2>1, <2>2, RuleSeedTyped
<1>2. CASE f = "ruleEdit"
  <2>1. Blank(f, s) = RuleFormSeed(s.clauses, s.served)
    BY <1>2 DEF Blank
  <2>2. s.clauses \in Seq(Clause) /\ IsServed(s.served)
    BY <1>2, StoredKinds DEF IsRule
  <2> QED
    BY <1>2, <2>1, <2>2, RuleSeedTyped
<1>3. CASE f = "segmentEdit"
  <2>1. IsSegment(s)
    BY <1>3, StoredKinds
  <2> QED
    BY <1>3, <2>1 DEF Blank, SegmentSeed, IsSegment, IsSegmentDraft
<1>4. CASE f = "projectName"
  BY <1>4, StoredKinds DEF Blank, DraftOf
<1>5. CASE f = "flag"
  <2>1. \A x \in Notes : <<x, x>> \in Seq(Notes)
    OBVIOUS
  <2> QED
    BY <1>0, <1>5, <2>1 DEF Blank, DraftOf
<1>6. CASE f = "segment"
  BY <1>0, <1>6 DEF Blank, DraftOf
<1>7. CASE f \in {"project", "environment"}
  BY <1>0, <1>7 DEF Blank, DraftOf, BlankKeyed
<1>8. CASE f = "sdkKey"
  BY <1>0, <1>8 DEF Blank, DraftOf
<1>9. CASE f \in {"member", "grant"}
  BY <1>0, <1>9 DEF Blank, DraftOf
<1>10. CASE f = "role"
  BY <1>0, <1>10 DEF Blank, DraftOf
<1>11. CASE f = "trigger"
  BY <1>0, <1>11 DEF Blank, DraftOf
<1>12. CASE f = "change"
  BY <1>0, <1>12 DEF Blank, DraftOf, Opposite
<1>13. CASE f = "schedule"
  BY <1>0, <1>13 DEF Blank, DraftOf, Opposite
<1>14. CASE f = "user"
  BY <1>0, <1>14 DEF Blank, DraftOf
<1>15. CASE f = "webhook"
  BY <1>0, <1>15 DEF Blank, DraftOf
<1>16. CASE f = "login"
  BY <1>0, <1>16 DEF Blank, DraftOf
<1>17. CASE f = "setup"
  BY <1>0, <1>17 DEF Blank, DraftOf
<1>18. CASE f = "confirm"
  BY <1>18 DEF Blank, DraftOf
<1> QED
  BY <1>1, <1>2, <1>3, <1>4, <1>5, <1>6, <1>7, <1>8, <1>9, <1>10, <1>11, <1>12, <1>13, <1>14, <1>15,
     <1>16, <1>17, <1>18 DEF Forms, Editors

LEMMA EditTyped ==
  ASSUME NEW f \in Forms, NEW d, IsDraft(f, d), NEW e \in FormOf(f, d).edits PROVE IsDraft(f, e)
<1>1. CASE f \in RuleForms
  <2>1. e \in RuleForm(d, req = "pending").edits /\ IsRuleDraft(d)
    BY <1>1 DEF FormOf, RuleForms, IsDraft
  <2> QED
    BY <1>1, <2>1, RuleFormEdits DEF IsDraft
<1>2. CASE f = "segmentEdit"
  <2>1. e \in SegmentEditor(d, shown, req = "pending").edits /\ IsSegmentDraft(d)
    BY <1>2 DEF FormOf, RuleForms, IsDraft
  <2> QED
    BY <1>2, <2>1, SegmentEdits DEF IsDraft, RuleForms
<1>3. CASE f \notin RuleForms \cup {"segmentEdit"}
  BY <1>3, DialogEdits DEF IsDraft
<1> QED
  BY <1>1, <1>2, <1>3

\* What a form sends, when it may.
LEMMA CleanTyped ==
  ASSUME NEW d, d.stringVars \in Seq(Notes) PROVE CleanVars(d) \in Seq(Variations)
<1> DEFINE good == {Trim[x] : x \in Notes} \ {""}
<1>1. PICK n \in Nat : d.stringVars \in [1..n -> Notes]
  BY LenProperties
<1>2. CleanVars(d) \in Seq(good)
  BY <1>1, CleanSteps
<1>3. good \subseteq Variations
  BY DEF Variations
<1> QED
  BY <1>2, <1>3, SeqMonotonic

LEMMA RuleInputTyped ==
  ASSUME NEW d, NEW b, IsRuleDraft(d)
  PROVE  RuleForm(d, b).input.clauses \in Seq(Clause) /\ IsServed(RuleForm(d, b).input.served)
<1>1. RuleForm(d, b).input.clauses = d.rules[1].clauses /\ d.rules[1] \in RuleOf
  BY DEF RuleForm, IsRuleDraft
<1>2. RuleForm(d, b).input.served = IF d.serve = "variation" THEN ServeVariation(d.variation)
                                 ELSE ServeRollout(RolloutFromPercents(d.percents), d.seed)
  BY DEF RuleForm
<1>3. IsServed(ServeVariation(d.variation))
  BY DEF IsServed, IsRuleDraft
<1>4. IsServed(ServeRollout(RolloutFromPercents(d.percents), d.seed))
  <2> DEFINE w == RolloutFromPercents(d.percents)
             x == ServeRollout(w, d.seed)
  <2>1. w \in [1..NVariations -> Nat]
    BY WeightsTyped DEF IsRuleDraft
  <2> HIDE DEF w
  <2>2. x.weights = w /\ x.seed = d.seed
    BY DEF ServeRollout
  <2> QED
    BY <2>1, <2>2 DEF IsServed, w
<1> QED
  BY <1>1, <1>2, <1>3, <1>4 DEF RuleOf

LEMMA EditorKinds ==
  ASSUME NEW f, NEW x
  PROVE  /\ f \in RuleForms =>
              (EditorInputOK(f, x) <=> x.clauses \in Seq(Clause) /\ IsServed(x.served))
         /\ f = "segmentEdit" =>
              (EditorInputOK(f, x) <=> /\ x.included \in Seq(KeyTexts) /\ x.excluded \in Seq(KeyTexts)
                                       /\ x.rules \in Seq(RuleOf))
         /\ f = "projectName" => (EditorInputOK(f, x) <=> x.name \in Texts)
<1>1. f \in RuleForms => (EditorInputOK(f, x) <=> x.clauses \in Seq(Clause) /\ IsServed(x.served))
  BY DEF EditorInputOK, RuleForms
<1>2. f = "segmentEdit" =>
        (EditorInputOK(f, x) <=> /\ x.included \in Seq(KeyTexts) /\ x.excluded \in Seq(KeyTexts)
                                 /\ x.rules \in Seq(RuleOf))
  BY DEF EditorInputOK
<1>3. f = "projectName" => (EditorInputOK(f, x) <=> x.name \in Texts)
  BY DEF EditorInputOK
<1> QED
  BY <1>1, <1>2, <1>3

LEMMA InputTyped ==
  ASSUME NEW f \in Forms, NEW d, IsDraft(f, d), FormOf(f, d).can
  PROVE  IsInput(f, FormOf(f, d).input) /\ FormOf(f, d).input # None
<1> DEFINE x == FormOf(f, d).input
<1> USE DEF IsInput, IsDraft, None
<1>1. CASE f \in RuleForms
  <2>1. x = RuleForm(d, req = "pending").input /\ DOMAIN x = {"clauses", "served"} /\ IsRuleDraft(d)
    BY <1>1 DEF FormOf, RuleForms, RuleForm
  <2> HIDE DEF x
  <2>2. x.clauses \in Seq(Clause) /\ IsServed(x.served)
    BY <2>1, RuleInputTyped
  <2>3. EditorInputOK(f, x) /\ f \in Editors
    BY <1>1, <2>2, EditorKinds DEF RuleForms, Editors
  <2>4. x # None
    BY <2>1
  <2> QED
    BY <2>3, <2>4 DEF x
<1>2. CASE f = "segmentEdit"
  <2>1. x = [name |-> shown.name, included |-> d.included, excluded |-> d.excluded, rules |-> d.rules]
    BY <1>2 DEF FormOf, SegmentEditor
  <2>2. IsSegmentDraft(d)
    BY <1>2 DEF RuleForms
  <2> HIDE DEF x
  <2>3. EditorInputOK(f, x) /\ f \in Editors
    BY <1>2, <2>1, <2>2, EditorKinds DEF Editors, IsSegmentDraft
  <2>4. x # None
    BY <2>1
  <2> QED
    BY <2>3, <2>4 DEF x
<1>3. CASE f = "projectName"
  <2>1. d.name \in Texts /\ x = [name |-> Trim[d.name]]
    BY <1>3 DEF FormOf, ProjectGeneralForm, DraftOf, RuleForms
  <2>2. Trim[d.name] \in Texts
    BY <2>1, FormsAssumption
  <2> QED
    BY <1>3, <2>1, <2>2 DEF Editors, EditorInputOK
<1>4. CASE f \notin Editors
  <2> DEFINE y == FormOf(f, d)
  <2>0. d \in DraftOf(f)
    BY <1>4 DEF RuleForms, Editors
  <2>a. \A t \in Notes : t \in Note /\ Trim[t] \in Note
    BY DEF Note
  <2> SUFFICES x \in InputOf(f) /\ x # None
    BY <1>4
  <2>1. CASE f = "flag"
    <3>1. d.stringVars \in Seq(Notes) /\ d.key \in Texts /\ d.name \in Texts /\ d.temporary \in BOOLEAN
      BY <2>0, <2>1 DEF DraftOf
    <3>2. CleanVars(d) \in Seq(Variations)
      BY <3>1, CleanTyped
    <3>3. <<"true", "false">> \in Seq(Variations)
      <4>1. \A a, b \in Variations : <<a, b>> \in Seq(Variations)
        OBVIOUS
      <4> QED
        BY <4>1 DEF Variations
    <3>4. x = [key |-> d.key, name |-> d.name, temporary |-> d.temporary,
               variations |-> IF d.type = "boolean" THEN <<"true", "false">> ELSE CleanVars(d)]
      BY <2>1 DEF FormOf, CreateFlagDialog
    <3>5. PICK v \in Seq(Variations) : x = [key |-> d.key, name |-> d.name, temporary |-> d.temporary,
                                            variations |-> v]
      BY <3>2, <3>3, <3>4
    <3> HIDE DEF x
    <3> QED
      BY <2>1, <3>1, <3>5 DEF InputOf, CreateFlagInput
  <2>2. CASE f = "segment"
    BY <2>0, <2>2, <2>a DEF FormOf, CreateSegmentDialog, DraftOf, InputOf, CreateSegmentInput
  <2>3. CASE f = "project"
    BY <2>0, <2>3 DEF FormOf, CreateProjectDialog, DraftOf, InputOf, CreateProjectInput
  <2>4. CASE f = "environment"
    BY <2>0, <2>4 DEF FormOf, CreateEnvironmentDialog, DraftOf, InputOf, CreateEnvironmentInput
  <2>5. CASE f = "sdkKey"
    BY <2>0, <2>5, <2>a DEF FormOf, CreateSdkKeyDialog, DraftOf, InputOf, CreateSdkKeyInput
  <2>6. CASE f \in {"member", "grant"}
    <3>1. d.email \in Notes /\ d.role \in Roles \cup {""}
      BY <2>0, <2>6 DEF DraftOf
    <3>2. x = [email |-> Trim[d.email], role |-> d.role]
      BY <2>6 DEF FormOf, AddMemberDialog, GrantProjectRoleDialog
    <3> HIDE DEF x
    <3> QED
      BY <2>6, <2>a, <3>1, <3>2 DEF InputOf, AddMemberInput
  <2>7. CASE f = "role"
    BY <2>0, <2>7, <2>a DEF FormOf, CreateRoleDialog, DraftOf, InputOf, CreateRoleInput
  <2>8. CASE f = "trigger"
    BY <2>0, <2>8, <2>a DEF FormOf, CreateTriggerDialog, DraftOf, InputOf, CreateTriggerInput
  <2>9. CASE f = "change"
    BY <2>0, <2>9, <2>a DEF FormOf, RequestChangeDialog, DraftOf, InputOf, CreateChangeInput, TurnFlag
  <2>10. CASE f = "schedule"
    BY <2>0, <2>10, <2>a DEF FormOf, ScheduleChangeDialog, DraftOf, InputOf,
       CreateScheduledChangeInput, TurnFlag
  <2>11. CASE f = "user"
    BY <2>0, <2>11, <2>a DEF FormOf, CreateUserDialog, DraftOf, InputOf, CreateUserInput
  <2>12. CASE f = "webhook"
    BY <2>0, <2>12, <2>a DEF FormOf, CreateWebhookDialog, DraftOf, InputOf, CreateWebhookInput
  <2>13. CASE f = "login"
    BY <2>0, <2>13, <2>a DEF FormOf, LoginForm, DraftOf, InputOf, LoginInput
  <2>14. CASE f = "setup"
    BY <2>0, <2>14, <2>a DEF FormOf, SetupWizard, DraftOf, InputOf, SetupInput
  <2>15. CASE f = "confirm"
    BY <2>15 DEF FormOf, ConfirmDeleteDialog, InputOf
  <2> HIDE DEF x
  <2> QED
    BY <1>4, <2>1, <2>2, <2>3, <2>4, <2>5, <2>6, <2>7, <2>8, <2>9, <2>10, <2>11, <2>12, <2>13,
       <2>14, <2>15 DEF Forms
<1> QED
  BY <1>1, <1>2, <1>3, <1>4 DEF Editors, RuleForms

LEMMA TypeInit == Init => TypeInv
<1> SUFFICES ASSUME Init PROVE TypeInv
  OBVIOUS
<1>1. form \in Form /\ form \in Forms
  BY FormsAssumption DEF Init
<1>2. server.version = 1 /\ IsStored(form, server)
  <2>1. CASE form \in DOMAIN Stored
    BY <1>1, <2>1, StoredAssumption DEF Init
  <2>2. CASE form \notin DOMAIN Stored
    <3>1. form \notin {"ruleEdit", "segmentEdit", "projectName", "change", "schedule"} \cup Puts \cup Posts
      BY <1>1, <2>2, StoredAssumption
    <3>2. server = [version |-> 1]
      BY <2>2 DEF Init
    <3> QED
      BY <3>1, <3>2 DEF IsStored
  <2> QED
    BY <2>1, <2>2
<1>3. shown = server /\ draft = Blank(form, shown)
  BY DEF Init
<1>4. IsDraft(form, draft)
  BY <1>1, <1>2, <1>3, BlankTyped
<1>5. adrift \in Seq({}) /\ Len(adrift) <= MaxAdrift /\ 0 \in 0..MaxOthers
  <2>1. MaxAdrift \in Nat /\ MaxOthers \in Nat
    BY FormsAssumption
  <2> QED
    BY <2>1 DEF Init
<1>6. \E S : adrift \in Seq(S) /\ \A x \in S : IsPayload(form, x)
  BY <1>5
<1>7. /\ mounted \in BOOLEAN /\ open \in BOOLEAN /\ kept \in BOOLEAN /\ moved \in BOOLEAN
      /\ req = "idle" /\ sent = None /\ base = 1 /\ touched = {} /\ edits = 0 /\ others = 0
  BY DEF Init
<1>8. shown.version <= server.version /\ base <= server.version /\ base \in Nat /\ edits \in Nat
  BY <1>2, <1>3, <1>7
<1> QED
  BY <1>1, <1>2, <1>3, <1>4, <1>5, <1>6, <1>7, <1>8 DEF TypeInv

Saved == {"segmentEdit", "ruleEdit"}

\* A write makes the next version of the form's kind, or keeps the version.
Grows == /\ IsStored(form, server') /\ server'.version >= server.version
         /\ form \in Saved => server'.version = server.version + 1

LEMMA HoldsGrows ==
  ASSUME form \in Forms, IsStored(form, server), NEW x, IsPayload(form, x), server' = Holds(x)
  PROVE  Grows /\ (form = "ruleEdit" => server'.clauses = x.clauses /\ server'.served = x.served)
               /\ (form = "segmentEdit" => \A part \in {"name", "included", "excluded", "rules"} :
                                             server'[part] = x[part])
<1>0. server.version \in Nat
  BY DEF IsStored
<1>a. server.version + 1 \in Nat /\ server.version + 1 >= server.version
      /\ server.version >= server.version
  BY <1>0
<1>1. CASE form = "ruleEdit"
  <2>1. server' = [version |-> server.version + 1, gone |-> FALSE, clauses |-> x.clauses,
                   served |-> x.served]
    BY <1>1 DEF Holds, Puts, Posts
  <2>2. x.clauses \in Seq(Clause) /\ IsServed(x.served)
    BY <1>1, EditorKinds DEF IsPayload, Editors, RuleForms
  <2>3. IsRule(server')
    BY <2>1, <2>2 DEF IsRule
  <2> QED
    BY <1>a, <1>1, <2>1, <2>3, StoredKinds DEF Grows
<1>2. CASE form = "segmentEdit"
  <2>1. server' = [version |-> server.version + 1, name |-> x.name, included |-> x.included,
                   excluded |-> x.excluded, rules |-> x.rules]
    BY <1>2 DEF Holds, Puts, Posts
  <2>2. x.included \in Seq(KeyTexts) /\ x.excluded \in Seq(KeyTexts) /\ x.rules \in Seq(RuleOf)
    BY <1>2, EditorKinds DEF IsPayload, Editors
  <2>3. IsSegment(server')
    BY <2>1, <2>2 DEF IsSegment
  <2> QED
    BY <1>a, <1>2, <2>1, <2>3, StoredKinds DEF Grows
<1>3. CASE form = "projectName"
  <2>1. server' = [version |-> server.version + 1, name |-> x.name]
    BY <1>3 DEF Holds, Puts, Posts
  <2>2. x.name \in Texts
    BY <1>3, EditorKinds DEF IsPayload, Editors
  <2> QED
    BY <1>a, <1>3, <2>1, <2>2, StoredKinds DEF Grows, Saved
<1>4. CASE form \in Puts \cup Posts
  <2>1. server' = [server EXCEPT !.taken = @ \cup {x.key}]
    BY <1>4 DEF Holds, Puts, Posts
  <2>2. x.key \in Texts /\ server \in [version : Nat, taken : SUBSET Texts]
    BY <1>4, StoredKinds DEF IsPayload
  <2>3. server' \in [version : Nat, taken : SUBSET Texts] /\ server'.version = server.version
    BY <2>1, <2>2
  <2>4. form \notin Saved
    BY <1>4 DEF Puts, Posts, Saved
  <2> QED
    BY <1>0, <1>a, <1>4, <2>3, <2>4, StoredKinds DEF Grows, Puts, Posts
<1>5. CASE form \notin {"ruleEdit", "segmentEdit", "projectName"} \cup Puts \cup Posts
  <2>1. server' = server
    BY <1>5 DEF Holds
  <2> QED
    BY <1>a, <1>5, <2>1 DEF Grows, Saved
<1> QED
  BY <1>1, <1>2, <1>3, <1>4, <1>5

LEMMA OthersGrow ==
  ASSUME form \in Forms, IsStored(form, server), server' \in OtherWrites PROVE Grows
<1>0. server.version \in Nat
  BY DEF IsStored
<1> DEFINE v == server.version + 1
<1>a. v \in Nat /\ v >= server.version /\ server.version >= server.version
  BY <1>0
<1>1. CASE form = "ruleEdit"
  <2>1. \/ server' = [server EXCEPT !.version = v, !.gone = TRUE]
        \/ server' = [server EXCEPT !.version = v, !.served = ServeVariation(NVariations - 1)]
    BY <1>1 DEF OtherWrites, Puts, Posts
  <2>2. IsServed(ServeVariation(NVariations - 1))
    <3>1. NVariations - 1 \in Variation
      BY Counted DEF Variation
    <3> QED
      BY <3>1 DEF IsServed
  <2>3. IsRule(server)
    BY <1>1, StoredKinds
  <2> HIDE DEF v
  <2>4. server'.version = v /\ IsRule(server')
    BY <2>1, <2>2, <2>3 DEF IsRule
  <2> QED
    BY <1>a, <1>1, <2>4, StoredKinds DEF Grows, v
<1>2. CASE form = "segmentEdit"
  <2>1. \/ server' = [server EXCEPT !.version = v, !.included = <<>>]
        \/ server' = [server EXCEPT !.version = v, !.name = "renamed"]
    BY <1>2 DEF OtherWrites, Puts, Posts
  <2>2. IsSegment(server) /\ <<>> \in Seq(KeyTexts)
    BY <1>2, StoredKinds
  <2> HIDE DEF v
  <2>3. server'.version = v /\ IsSegment(server')
    BY <2>1, <2>2 DEF IsSegment
  <2> QED
    BY <1>a, <1>2, <2>3, StoredKinds DEF Grows, v
<1>3. CASE form = "projectName"
  <2>1. PICK t \in Texts : server' = [server EXCEPT !.version = v, !.name = Trim[t]]
    BY <1>3 DEF OtherWrites, Puts, Posts
  <2>2. Trim[t] \in Texts
    BY <2>1, FormsAssumption
  <2>3. server \in [version : Nat, name : Texts]
    BY <1>3, StoredKinds
  <2>4. server' \in [version : Nat, name : Texts] /\ server'.version = v
    BY <1>a, <2>1, <2>2, <2>3
  <2> QED
    BY <1>a, <1>3, <2>4, StoredKinds DEF Grows, Saved
<1>4. CASE form \in {"change", "schedule"}
  <2>1. OtherWrites = {[version |-> v, on |-> b] : b \in BOOLEAN \ {server.on}}
    BY <1>4 DEF OtherWrites, Puts, Posts
  <2> HIDE DEF v
  <2>2. PICK b \in BOOLEAN : server' = [version |-> v, on |-> b]
    BY <2>1
  <2>3. server' \in [version : Nat, on : BOOLEAN] /\ server'.version = v
    BY <1>a, <2>2
  <2> QED
    BY <1>a, <1>4, <2>3, StoredKinds DEF Grows, Saved
<1>5. CASE form \in Puts \cup Posts
  <2>1. server' = [server EXCEPT !.taken = {Slug[t] : t \in Texts}]
    BY <1>5 DEF OtherWrites, Puts, Posts
  <2>2. {Slug[t] : t \in Texts} \in SUBSET Texts
    BY SlugText
  <2>3. server \in [version : Nat, taken : SUBSET Texts]
    BY <1>5, StoredKinds
  <2>4. server' \in [version : Nat, taken : SUBSET Texts] /\ server'.version = server.version
    BY <2>1, <2>2, <2>3
  <2> QED
    BY <1>0, <1>a, <1>5, <2>4, StoredKinds DEF Grows, Saved, Puts, Posts
<1>6. CASE form \notin {"ruleEdit", "segmentEdit", "projectName", "change", "schedule"} \cup Puts \cup Posts
  BY <1>6 DEF OtherWrites
<1> QED
  BY <1>1, <1>2, <1>3, <1>4, <1>5, <1>6

\* The parts of TypeInv, each with the steps that keep it.
DraftTyped == IsDraft(form, draft) /\ touched \subseteq DOMAIN draft /\ base \in Nat
                /\ base <= server.version /\ edits \in Nat /\ moved \in BOOLEAN
RequestTyped == /\ req \in {"idle", "pending", "error"} /\ (sent # None <=> req = "pending")
                /\ sent = None \/ IsInput(form, sent)
DataTyped == /\ IsStored(form, server) /\ IsStored(form, shown) /\ shown.version <= server.version
             /\ others \in 0..MaxOthers
AdriftTyped == /\ \E S : adrift \in Seq(S) /\ \A x \in S : IsPayload(form, x)
               /\ Len(adrift) <= MaxAdrift

LEMMA TypeParts ==
  TypeInv <=> /\ form \in Form /\ mounted \in BOOLEAN /\ open \in BOOLEAN /\ kept \in BOOLEAN
              /\ DraftTyped /\ RequestTyped /\ DataTyped /\ AdriftTyped
BY DEF TypeInv, DraftTyped, RequestTyped, DataTyped, AdriftTyped

\* The form starts afresh from what is shown, before the step or after it.
LEMMA StartTyped ==
  ASSUME form \in Forms, form' = form, NEW s, IsStored(form, s), Start(s), edits \in Nat,
         s.version <= server'.version
  PROVE  DraftTyped'
<1>1. draft' = Blank(form, s) /\ touched' = {} /\ base' = s.version /\ moved' = FALSE /\ edits' = edits
  BY DEF Start
<1>2. IsDraft(form, draft')
  BY <1>1, BlankTyped
<1>3. s.version \in Nat
  BY DEF IsStored
<1> QED
  BY <1>1, <1>2, <1>3 DEF DraftTyped

LEMMA EditKeepsTypes ==
  ASSUME form \in Forms, DraftTyped, Edit PROVE DraftTyped'
<1>1. PICK d \in FormOf(form, draft).edits :
        /\ draft' = d /\ UNCHANGED <<form, base, server>>
        /\ IF form \in Editors
           THEN /\ edits' = edits + 1 /\ touched' = touched \cup {f \in DOMAIN d : d[f] # draft[f]}
                /\ moved' = (moved \/ (form # "projectName" /\ Removed(draft, d)))
           ELSE UNCHANGED <<edits, touched, moved>>
  BY DEF Edit, data
<1>2. IsDraft(form, draft')
  BY <1>1, EditTyped DEF DraftTyped
<1>3. DOMAIN draft' = DOMAIN draft
  BY <1>2, DraftFields DEF DraftTyped
<1>4. touched' \subseteq DOMAIN draft'
  BY <1>1, <1>3 DEF DraftTyped
<1>5. edits' = edits \/ edits' = edits + 1
  BY <1>1
<1>6. edits' \in Nat
  BY <1>5 DEF DraftTyped
<1>7. moved' = moved \/ moved' = (moved \/ (form # "projectName" /\ Removed(draft, d)))
  BY <1>1
<1>8. moved' \in BOOLEAN
  BY <1>7, Zenon DEF DraftTyped
<1> QED
  BY <1>1, <1>2, <1>4, <1>6, <1>8 DEF DraftTyped

\* The add builder's reset keeps the texts of its clauses.
LEMMA SubmitKeepsTypes ==
  ASSUME form \in Forms, DraftTyped, RequestTyped, DataTyped, Submit PROVE DraftTyped' /\ RequestTyped'
<1>1. /\ UNCHANGED <<form, server, shown>> /\ req' = "pending"
      /\ sent' = FormOf(form, draft).input /\ FormOf(form, draft).can
  BY DEF Submit, Send, data
<1>2. RequestTyped'
  BY <1>1, InputTyped DEF RequestTyped, DraftTyped
<1>3. CASE form = "ruleEdit"
  <2>1. Start(shown)
    BY <1>3 DEF Submit, Send
  <2> QED
    BY <1>1, <1>2, <2>1, StartTyped DEF DataTyped, DraftTyped
<1>4. CASE form = "ruleNew"
  <2> DEFINE blank == Blank(form, shown)
  <2>1. /\ draft' = [blank EXCEPT !.texts = RuleTexts(draft.texts, blank.rules)]
        /\ touched' = {} /\ moved' = TRUE /\ UNCHANGED <<base, edits>>
    BY <1>4 DEF Submit, Send
  <2>2. IsRuleDraft(blank)
    BY <1>4, BlankTyped DEF DataTyped, IsDraft, RuleForms
  <2> HIDE DEF blank
  <2>3. IsRuleDraft(draft')
    BY <2>1, <2>2 DEF IsRuleDraft
  <2> QED
    BY <1>1, <1>2, <1>4, <2>1, <2>3 DEF DraftTyped, IsDraft, RuleForms
<1>5. CASE form \notin RuleForms
  <2>1. UNCHANGED work
    BY <1>5 DEF Submit, Send, RuleForms
  <2> QED
    BY <1>1, <1>2, <2>1 DEF DraftTyped, work
<1> QED
  BY <1>3, <1>4, <1>5 DEF RuleForms

LEMMA MattersTyped ==
  ASSUME form \in Forms, IsInput(form, sent) PROVE IsPayload(form, Matters(sent)) /\ IsPayload(form, sent)
<1>1. CASE form \in Puts \cup Posts
  <2>1. sent.key \in Texts
    <3>1. sent \in InputOf(form)
      BY <1>1 DEF IsInput, Editors, Puts, Posts
    <3> QED
      BY <1>1, <3>1 DEF InputOf, Puts, Posts, CreateFlagInput, CreateSegmentInput, CreateProjectInput,
         CreateEnvironmentInput, CreateRoleInput
  <2>2. Matters(sent) = [key |-> sent.key] /\ form \notin Editors
    BY <1>1 DEF Matters, Puts, Posts, Editors
  <2> QED
    BY <2>1, <2>2 DEF IsPayload
<1>2. CASE form \in Editors
  <2>1. Matters(sent) = sent
    BY <1>2 DEF Matters, Puts, Posts, Editors
  <2> QED
    BY <1>2, <2>1 DEF IsPayload, IsInput, Puts, Posts, Editors
<1>3. CASE form \notin Editors \cup Puts \cup Posts
  BY <1>3 DEF IsPayload
<1> QED
  BY <1>1, <1>2, <1>3

LEMMA LeaveKeepsTypes ==
  ASSUME form \in Forms, RequestTyped, AdriftTyped, Leave PROVE AdriftTyped'
<1>1. PICK S : adrift \in Seq(S) /\ \A x \in S : IsPayload(form, x)
  BY DEF AdriftTyped
<1>2. CASE req # "pending"
  BY <1>2 DEF Leave, AdriftTyped
<1>3. CASE req = "pending"
  <2> DEFINE m == Matters(sent)
  <2>1. adrift' = Append(adrift, m) /\ Len(adrift) < MaxAdrift /\ form' = form
    BY <1>3 DEF Leave
  <2>2. IsPayload(form, m)
    BY <1>3, MattersTyped DEF RequestTyped
  <2>3. MaxAdrift \in Nat
    BY FormsAssumption
  <2> HIDE DEF m
  <2>4. adrift \in Seq(S \cup {m})
    BY <1>1, SeqMonotonic
  <2>5. adrift' \in Seq(S \cup {m}) /\ Len(adrift') = Len(adrift) + 1
    BY <2>1, <2>4, AppendProperties
  <2>6. Len(adrift') <= MaxAdrift
    <3>1. Len(adrift) \in Nat
      BY <2>4
    <3> QED
      BY <2>1, <2>3, <2>5, <3>1
  <2> QED
    BY <1>1, <2>1, <2>2, <2>5, <2>6 DEF AdriftTyped
<1> QED
  BY <1>2, <1>3

LEMMA AdriftKeepsTypes ==
  ASSUME form \in Forms, DataTyped, AdriftTyped, AdriftAnswered
  PROVE  AdriftTyped' /\ DataTyped' /\ server'.version >= server.version /\ (server' = server \/ Grows)
<1>1. PICK S : adrift \in Seq(S) /\ \A x \in S : IsPayload(form, x)
  BY DEF AdriftTyped
<1>2. adrift # <<>> /\ adrift' = Tail(adrift) /\ UNCHANGED <<form, shown, others>>
  BY DEF AdriftAnswered, Write
<1>3. Head(adrift) \in S /\ adrift' \in Seq(S) /\ Len(adrift') = Len(adrift) - 1
  BY <1>1, <1>2, HeadTailProperties
<1>4. AdriftTyped'
  <2>0. MaxAdrift \in Nat
    BY FormsAssumption
  <2>1. Len(adrift) \in Nat
    BY <1>1
  <2>2. Len(adrift') <= MaxAdrift
    BY <1>3, <2>0, <2>1 DEF AdriftTyped
  <2> QED
    BY <1>1, <1>2, <1>3, <2>2 DEF AdriftTyped
<1>5. server' = server \/ server' = Holds(Head(adrift))
  BY DEF AdriftAnswered, Write
<1>6. server' = server \/ Grows
  BY <1>1, <1>3, <1>5, HoldsGrows DEF DataTyped
<1>7. server.version \in Nat /\ shown.version \in Nat
  BY DEF DataTyped, IsStored
<1>8. server'.version >= server.version
  BY <1>6, <1>7 DEF Grows
<1>9. IsStored(form, server')
  BY <1>6 DEF Grows, DataTyped
<1>10. server'.version \in Nat
  BY <1>9 DEF IsStored
<1>11. shown.version <= server'.version
  BY <1>7, <1>8, <1>10 DEF DataTyped
<1> QED
  BY <1>2, <1>4, <1>6, <1>8, <1>9, <1>11 DEF DataTyped

\* A step that leaves the draft alone while the server's version may grow.
LEMMA DraftStays ==
  ASSUME DraftTyped, DataTyped, form' = form, UNCHANGED work,
         server' = server \/ Grows
  PROVE  DraftTyped'
<1>1. server.version \in Nat /\ server'.version \in Nat /\ server'.version >= server.version
  BY DEF DataTyped, IsStored, Grows
<1>2. base' \in Nat /\ base' <= server'.version
  BY <1>1 DEF DraftTyped, work
<1> QED
  BY <1>2 DEF DraftTyped, work

LEMMA RequestStays ==
  ASSUME RequestTyped, form' = form,
         UNCHANGED request \/ (req' \in {"idle", "error"} /\ sent' = None)
  PROVE  RequestTyped'
BY DEF RequestTyped, request

LEMMA AdriftStays == ASSUME AdriftTyped, form' = form, adrift' = adrift PROVE AdriftTyped'
BY DEF AdriftTyped

\* What is stored grows, and what is shown is what it was or what is stored.
LEMMA DataStays ==
  ASSUME form \in Forms, DataTyped, form' = form, server' = server \/ Grows,
         shown' \in {shown, server, server'}, others' \in 0..MaxOthers
  PROVE  DataTyped'
<1>1. server.version \in Nat /\ shown.version \in Nat /\ IsStored(form, server')
  BY DEF DataTyped, IsStored, Grows
<1>2. server'.version \in Nat
  BY <1>1 DEF IsStored
<1>3. server'.version >= server.version
  BY <1>1 DEF Grows
<1>4. shown'.version <= server'.version
  BY <1>1, <1>2, <1>3 DEF DataTyped
<1> QED
  BY <1>1, <1>4 DEF DataTyped

\* Every step keeps TypeInv.
LEMMA TypeStep == TypeInv /\ [Next]_vars => TypeInv'
<1> SUFFICES ASSUME TypeInv, [Next]_vars PROVE TypeInv'
  OBVIOUS
<1>0. form' = form /\ form \in Forms /\ form \in Form
  BY FormKept, FormsAssumption DEF TypeInv
<1>a. DraftTyped /\ RequestTyped /\ DataTyped /\ AdriftTyped
  BY TypeParts
<1>b. mounted \in BOOLEAN /\ open \in BOOLEAN /\ kept \in BOOLEAN /\ others \in 0..MaxOthers
  BY <1>a, TypeParts DEF DataTyped
<1>c. IsStored(form, server) /\ IsStored(form, shown) /\ shown.version <= server.version /\ edits \in Nat
      /\ server.version <= server.version
  <2>1. server.version \in Nat
    BY <1>a DEF DataTyped, IsStored
  <2> QED
    BY <1>a, <2>1 DEF DataTyped, DraftTyped
<1>d. (server' = server /\ shown' = shown /\ others' = others) => DataTyped'
  BY <1>0, <1>a, <1>b, DataStays
<1>e. mounted' \in BOOLEAN /\ open' \in BOOLEAN /\ kept' \in BOOLEAN
  <2>1. mounted' \in BOOLEAN
    BY <1>b DEF Next, vars, OpenForm, CloseForm, Edit, Submit, Send, Succeed, Unmount, Fail, Leave,
       ComeBack, AdriftAnswered, SomebodyElse, Refetch
  <2>2. open' \in BOOLEAN
    <3>1. CASE UNCHANGED vars \/ OpenForm \/ CloseForm \/ Edit \/ Fail \/ AdriftAnswered \/ SomebodyElse
      BY <1>b, <3>1 DEF vars, OpenForm, CloseForm, Edit, Fail, AdriftAnswered, SomebodyElse
    <3>2. CASE Submit
      <4>1. open' = (Protocol \in {"controlled", "standing"})
        BY <3>2 DEF Submit, Send
      <4>2. (Protocol \in {"controlled", "standing"}) \in BOOLEAN
        OBVIOUS
      <4> QED
        BY <4>1, <4>2, Zenon
    <3>3. CASE Succeed
      BY <3>3, Zenon DEF Succeed, Unmount
    <3>4. CASE Leave \/ ComeBack \/ Refetch
      BY <3>4, Zenon DEF Leave, Unmount, ComeBack, Refetch
    <3> QED
      BY <3>1, <3>2, <3>3, <3>4 DEF Next
  <2>3. kept' \in BOOLEAN
    BY <1>b, Zenon DEF Next, vars, OpenForm, CloseForm, Edit, Submit, Send, Succeed, Unmount, Fail, Leave,
       ComeBack, AdriftAnswered, SomebodyElse, Refetch
  <2> QED
    BY <2>1, <2>2, <2>3
<1> SUFFICES DraftTyped' /\ RequestTyped' /\ DataTyped' /\ AdriftTyped'
  <2>1. form' \in Form
    BY <1>0
  <2> QED
    BY <1>e, <2>1 DEF TypeInv, DraftTyped, RequestTyped, DataTyped, AdriftTyped
<1> USE <1>0, <1>a
<1>f. ASSUME Start(shown), UNCHANGED server PROVE DraftTyped'
  BY <1>c, <1>f, StartTyped
<1>1. CASE UNCHANGED vars
  BY <1>1, <1>d, DraftStays, RequestStays, AdriftStays DEF vars, work, request
<1>2. CASE OpenForm
  <2>1. UNCHANGED <<server, shown, others, adrift>> /\ UNCHANGED request
    BY <1>2 DEF OpenForm, data
  <2>2. Start(shown) \/ UNCHANGED work
    BY <1>2 DEF OpenForm
  <2> QED
    BY <1>d, <1>f, <2>1, <2>2, DraftStays, RequestStays, AdriftStays
<1>3. CASE CloseForm
  <2>1. UNCHANGED <<server, shown, others, adrift>> /\ UNCHANGED request
    BY <1>3 DEF CloseForm, data
  <2>2. Start(shown) \/ UNCHANGED work
    BY <1>3 DEF CloseForm
  <2> QED
    BY <1>d, <1>f, <2>1, <2>2, DraftStays, RequestStays, AdriftStays
<1>4. CASE Edit
  <2>1. UNCHANGED <<server, shown, others, adrift>> /\ UNCHANGED request
    BY <1>4 DEF Edit, data
  <2> QED
    BY <1>4, <1>d, <2>1, EditKeepsTypes, RequestStays, AdriftStays
<1>5. CASE Submit
  <2>1. UNCHANGED <<server, shown, others, adrift>>
    BY <1>5 DEF Submit, Send, data
  <2> QED
    BY <1>5, <1>d, <2>1, SubmitKeepsTypes, AdriftStays
<1>6. CASE Succeed
  <2>1. /\ req = "pending" /\ server' = Holds(sent) /\ adrift' = adrift /\ others' = others
        /\ req' = "idle" /\ sent' = None /\ shown' \in {shown, server'}
    BY <1>6 DEF Succeed, Unmount, Write
  <2>2. Start(shown) \/ Start(shown') \/ UNCHANGED work
    BY <1>6 DEF Succeed, Unmount
  <2>3. IsInput(form, sent)
    BY <2>1 DEF RequestTyped
  <2>4. Grows
    BY <1>c, <2>1, <2>3, MattersTyped, HoldsGrows
  <2>5. DataTyped'
    BY <1>b, <2>1, <2>4, DataStays
  <2>6. shown.version <= server'.version
    <3>1. shown.version \in Nat /\ server.version \in Nat /\ server'.version \in Nat
      BY <1>c, <2>4 DEF IsStored, Grows
    <3> QED
      BY <1>c, <2>4, <3>1 DEF Grows
  <2>7. DraftTyped'
    <3>1. CASE Start(shown)
      BY <1>c, <2>6, <3>1, StartTyped
    <3>2. CASE Start(shown')
      <4>1. IsStored(form, shown') /\ shown'.version <= server'.version
        BY <2>5 DEF DataTyped
      <4> QED
        BY <1>c, <3>2, <4>1, StartTyped
    <3>3. CASE UNCHANGED work
      BY <2>4, <3>3, DraftStays
    <3> QED
      BY <2>2, <3>1, <3>2, <3>3
  <2> QED
    BY <2>1, <2>5, <2>7, RequestStays, AdriftStays
<1>7. CASE Fail
  <2>1. UNCHANGED <<server, shown, others, adrift>> /\ UNCHANGED work /\ req' = "error" /\ sent' = None
    BY <1>7 DEF Fail, data
  <2> QED
    BY <1>d, <2>1, DraftStays, RequestStays, AdriftStays
<1>8. CASE Leave
  <2>1. UNCHANGED <<server, shown, others>> /\ Start(shown) /\ req' = "idle" /\ sent' = None
    BY <1>8 DEF Leave, Unmount, data
  <2> QED
    BY <1>8, <1>d, <1>f, <2>1, RequestStays, LeaveKeepsTypes
<1>9. CASE ComeBack
  <2>1. UNCHANGED <<server, shown, others, adrift>> /\ UNCHANGED request /\ Start(shown)
    BY <1>9 DEF ComeBack, data
  <2> QED
    BY <1>d, <1>f, <2>1, RequestStays, AdriftStays
<1>10. CASE AdriftAnswered
  <2>1. UNCHANGED request /\ UNCHANGED work
    BY <1>10 DEF AdriftAnswered
  <2> QED
    BY <1>10, <2>1, AdriftKeepsTypes, DraftStays, RequestStays
<1>11. CASE SomebodyElse
  <2>1. UNCHANGED <<shown, adrift>> /\ UNCHANGED request /\ UNCHANGED work
    BY <1>11 DEF SomebodyElse
  <2>2. Grows
    BY <1>11, <1>c, OthersGrow DEF SomebodyElse
  <2>3. others' \in 0..MaxOthers
    <3>1. MaxOthers \in Nat /\ others < MaxOthers /\ others' = others + 1
      BY <1>11, FormsAssumption DEF SomebodyElse
    <3> QED
      BY <1>b, <3>1
  <2> QED
    BY <2>1, <2>2, <2>3, DataStays, DraftStays, RequestStays, AdriftStays
<1>12. CASE Refetch
  <2>1. UNCHANGED <<server, others, adrift>> /\ UNCHANGED request /\ shown' = server
    BY <1>12 DEF Refetch
  <2>2. Start(server) \/ UNCHANGED work
    BY <1>12 DEF Refetch
  <2>3. DataTyped'
    BY <1>b, <2>1, DataStays
  <2>4. DraftTyped'
    BY <1>c, <2>1, <2>2, StartTyped, DraftStays
  <2> QED
    BY <2>1, <2>3, <2>4, RequestStays, AdriftStays
<1> QED
  BY <1>1, <1>2, <1>3, <1>4, <1>5, <1>6, <1>7, <1>8, <1>9, <1>10, <1>11, <1>12 DEF Next

LEMMA TypeAlways == Spec => []TypeInv
BY TypeInit, TypeStep, PTL DEF Spec

LEMMA TypeImplies == TypeInv => TypeOK
<1> SUFFICES ASSUME TypeInv PROVE TypeOK
  OBVIOUS
<1>1. form \in Forms
  BY FormsAssumption DEF TypeInv
<1>2. IsDraft(form, Blank(form, shown))
  BY <1>1, BlankTyped DEF TypeInv
<1>3. DOMAIN draft = DOMAIN Blank(form, shown)
  BY <1>1, <1>2, DraftFields DEF TypeInv
<1>4. DOMAIN shown = DOMAIN server
  BY <1>1, StoredFields DEF TypeInv
<1>5. sent = None \/ (IF form \in Editors THEN EditorInputOK(form, sent) ELSE sent \in InputOf(form))
  BY DEF TypeInv, IsInput
<1>6. touched \subseteq DOMAIN Blank(form, shown)
  BY <1>3 DEF TypeInv
<1> QED
  BY <1>1, <1>3, <1>4, <1>5, <1>6, Zenon DEF TypeInv, TypeOK

\* For every text, note, role, bound and stored rule or segment: the draft has its form's fields,
\* what is under way has the type of its endpoint's payload, and what is shown is of the kind the
\* server holds and never newer.
THEOREM TypeCorrect == Spec => []TypeOK
BY TypeAlways, TypeImplies, PTL

----------------------------------------------------------------------------
(* What a form sends, its endpoint can take.                               *)

KeyedForms == {"flag", "segment", "project", "environment", "role", "setup"}

\* Typed, mirrored from the name or reset, a key is always a slug.
IsKeyed(d) == {"name", "key", "keyEdited"} \subseteq DOMAIN d /\ Slug[d.key] = d.key
KeySlug == form \in KeyedForms => IsKeyed(draft)

\* The wizard goes to step 2 with a valid account, and step 2 cannot change it.
IsAccount(d) == {"step", "email", "password"} \subseteq DOMAIN d /\ (d.step # 1 => AccountValid(d))
AccountKept == form = "setup" => IsAccount(draft)

InputInv == KeySlug /\ AccountKept /\ InputValid

LEMMA HandleNameKeeps == ASSUME NEW d, IsKeyed(d), NEW e \in HandleNameChange(d) PROVE IsKeyed(e)
BY FormsAssumption DEF IsKeyed, HandleNameChange

LEMMA HandleKeyKeeps == ASSUME NEW d, IsKeyed(d), NEW e \in HandleKeyChange(d) PROVE IsKeyed(e)
BY FormsAssumption DEF IsKeyed, HandleKeyChange

LEMMA PutKeeps ==
  ASSUME NEW d, IsKeyed(d), NEW field, field # "key", NEW S, NEW e \in Put(d, field, S)
  PROVE  IsKeyed(e)
BY DEF IsKeyed, Put

LEMMA ToggleKeeps ==
  ASSUME NEW d, IsKeyed(d), NEW field, field # "key", NEW S, NEW e \in Toggle(d, field, S)
  PROVE  IsKeyed(e)
BY DEF IsKeyed, Toggle

\* Every edit of a form with a key keeps the key a slug.
LEMMA KeyedEdits ==
  ASSUME NEW f \in KeyedForms, NEW d, IsKeyed(d), NEW e \in FormOf(f, d).edits PROVE IsKeyed(e)
<1> USE HandleNameKeeps, HandleKeyKeeps
<1>1. CASE f = "flag"
  BY <1>1, PutKeeps DEF FormOf, CreateFlagDialog, StringVarEdits
<1>2. CASE f = "segment"
  BY <1>2, PutKeeps DEF FormOf, CreateSegmentDialog
<1>3. CASE f = "project"
  BY <1>3 DEF FormOf, CreateProjectDialog
<1>4. CASE f = "environment"
  BY <1>4 DEF FormOf, CreateEnvironmentDialog
<1>5. CASE f = "role"
  BY <1>5, PutKeeps, ToggleKeeps DEF FormOf, CreateRoleDialog
<1>6. CASE f = "setup"
  BY <1>6, PutKeeps DEF FormOf, SetupWizard, WizardEdits
<1> QED
  BY <1>1, <1>2, <1>3, <1>4, <1>5, <1>6 DEF KeyedForms

\* The wizard's edits keep the account of step 2 valid.
LEMMA AccountEdits ==
  ASSUME NEW d, IsAccount(d), NEW e \in FormOf("setup", d).edits PROVE IsAccount(e)
<1>1. e \in WizardEdits(d)
  BY DEF FormOf, SetupWizard
<1>2. CASE d.step = 1 /\ ~(AccountValid(d) /\ e \in Put(d, "step", {2}))
  <2>1. PICK field \in {"fullName", "email", "password"} : \E v : e = [d EXCEPT ![field] = v]
    BY <1>1, <1>2 DEF WizardEdits, Put
  <2> QED
    BY <1>2, <2>1 DEF IsAccount
<1>3. CASE AccountValid(d) /\ e \in Put(d, "step", {2})
  BY <1>3 DEF IsAccount, AccountValid, Written, Put
<1>4. CASE d.step # 1
  <2>1. CASE e \in HandleNameChange(d) \cup HandleKeyChange(d)
    BY <1>4, <2>1 DEF IsAccount, AccountValid, Written, HandleNameChange, HandleKeyChange
  <2>2. CASE e \in Put(d, "step", {1})
    BY <2>2 DEF IsAccount, Put
  <2> QED
    BY <1>1, <1>4, <2>1, <2>2 DEF WizardEdits
<1> QED
  BY <1>2, <1>3, <1>4

\* A blank form has an empty key, and the wizard starts at step 1.
LEMMA BlankKeys ==
  ASSUME NEW f, NEW s
  PROVE  (f \in KeyedForms => IsKeyed(Blank(f, s))) /\ (f = "setup" => IsAccount(Blank(f, s)))
<1>1. ASSUME f \in KeyedForms PROVE IsKeyed(Blank(f, s))
  <2>1. {"name", "key", "keyEdited"} \subseteq DOMAIN Blank(f, s) /\ Blank(f, s).key = ""
    BY <1>1 DEF KeyedForms, Blank, BlankKeyed
  <2>2. Slug[""] = ""
    BY FormsAssumption
  <2> QED
    BY <2>1, <2>2 DEF IsKeyed
<1>2. f = "setup" => IsAccount(Blank(f, s))
  BY DEF Blank, IsAccount
<1> QED
  BY <1>1, <1>2

\* What the flag dialog and the rule form send when they may.
LEMMA FlagSends ==
  ASSUME NEW d, CreateFlagDialog(d).can
  PROVE  /\ CreateFlagDialog(d).input.key = d.key /\ CreateFlagDialog(d).input.name = d.name
         /\ Keyed(d) /\ Len(CreateFlagDialog(d).input.variations) >= 2
<1>1. /\ CreateFlagDialog(d).input
           = [key |-> d.key, name |-> d.name, temporary |-> d.temporary,
              variations |-> IF d.type = "boolean" THEN <<"true", "false">> ELSE CleanVars(d)]
      /\ Keyed(d) /\ (d.type = "boolean" \/ Len(CleanVars(d)) >= 2)
  BY DEF CreateFlagDialog
<1>2. Len(<<"true", "false">>) >= 2
  OBVIOUS
<1> QED
  BY <1>1, <1>2

LEMMA RuleSends ==
  ASSUME NEW d, NEW b, IsRuleDraft(d), RuleForm(d, b).can
  PROVE  /\ RuleForm(d, b).input.clauses = d.rules[1].clauses /\ d.rules[1].clauses # <<>>
         /\ \A c \in Range(d.rules[1].clauses) : c.attribute # "" /\ c.values # <<>>
         /\ RuleForm(d, b).input.served.mode = "rollout" => Total(RuleForm(d, b).input.served.weights) = FullWeight
<1>1. RuleForm(d, b).input.clauses = d.rules[1].clauses /\ RuleFormCan(d)
  BY DEF RuleForm
<1>2. d.rules[1].clauses # <<>>
  <2>1. Len(d.rules[1].clauses) > 0 /\ Len(<<>>) = 0
    BY <1>1 DEF RuleFormCan
  <2> QED
    BY <2>1
<1>3. RuleForm(d, b).input.served = IF d.serve = "variation" THEN ServeVariation(d.variation)
                                 ELSE ServeRollout(RolloutFromPercents(d.percents), d.seed)
  BY DEF RuleForm
<1>4. ASSUME RuleForm(d, b).input.served.mode = "rollout"
      PROVE  Total(RuleForm(d, b).input.served.weights) = FullWeight
  <2>1. d.serve # "variation"
    BY <1>3, <1>4 DEF ServeVariation
  <2>2. RuleForm(d, b).input.served.weights = RolloutFromPercents(d.percents)
    BY <1>3, <2>1 DEF ServeRollout
  <2>3. Total(d.percents) = 100
    BY <1>1, <2>1 DEF RuleFormCan
  <2>4. Total(RolloutFromPercents(d.percents)) = 1000 * Total(d.percents)
    BY RolloutTotal, Counted DEF IsRuleDraft
  <2> QED
    BY <2>2, <2>3, <2>4 DEF FullWeight
<1>5. \A c \in Range(d.rules[1].clauses) : c.attribute # "" /\ c.values # <<>>
  BY <1>1 DEF RuleFormCan
<1> QED
  BY <1>1, <1>2, <1>4, <1>5

\* What may be submitted is valid.
LEMMA SubmitValid == ASSUME TypeInv, InputInv, Submit PROVE InputValid'
<1>1. sent' = FormOf(form, draft).input /\ FormOf(form, draft).can /\ form' = form
  BY DEF Submit, Send
<1> USE <1>1 DEF Written
<1>2. CASE form \in KeyedForms
  <2>1. Slug[draft.key] = draft.key /\ Trim[""] = ""
    BY <1>2, FormsAssumption DEF InputInv, KeySlug, IsKeyed
  <2>2. CASE form = "flag"
    <3>1. FormOf(form, draft) = CreateFlagDialog(draft)
      BY <2>2 DEF FormOf
    <3> QED
      BY <2>1, <2>2, <3>1, FlagSends DEF InputValid, Keyed
  <2>3. CASE form = "segment"
    BY <2>1, <2>3 DEF InputValid, FormOf, CreateSegmentDialog, Keyed
  <2>4. CASE form = "project"
    BY <2>1, <2>4 DEF InputValid, FormOf, CreateProjectDialog, Keyed
  <2>5. CASE form = "environment"
    BY <2>1, <2>5 DEF InputValid, FormOf, CreateEnvironmentDialog, Keyed
  <2>6. CASE form = "role"
    BY <2>1, <2>6 DEF InputValid, FormOf, CreateRoleDialog, Keyed
  <2>7. CASE form = "setup"
    <3>1. draft.step # 1 => AccountValid(draft)
      BY <2>7 DEF InputInv, AccountKept, IsAccount
    <3>2. /\ draft.step = 2 /\ Keyed(draft)
          /\ sent'.organization_slug = draft.key /\ sent'.organization_name = draft.name
          /\ sent'.email = draft.email /\ sent'.password = draft.password
      BY <2>7 DEF FormOf, SetupWizard
    <3>3. AccountValid(draft)
      BY <3>1, <3>2
    <3> QED
      BY <2>1, <2>7, <3>2, <3>3 DEF InputValid, Keyed, AccountValid
  <2> QED
    BY <1>2, <2>2, <2>3, <2>4, <2>5, <2>6, <2>7 DEF KeyedForms
<1>3. CASE form = "webhook"
  BY <1>3, FormsAssumption DEF InputValid, FormOf, CreateWebhookDialog
<1>4. CASE form = "user"
  BY <1>4 DEF InputValid, FormOf, CreateUserDialog
<1>5. CASE form = "grant"
  BY <1>5 DEF InputValid, FormOf, GrantProjectRoleDialog
<1>6. CASE form = "member"
  BY <1>6 DEF InputValid, FormOf, AddMemberDialog
<1>7. CASE form \in {"ruleNew", "ruleEdit"}
  <2>1. FormOf(form, draft) = RuleForm(draft, req = "pending")
    BY <1>7 DEF FormOf
  <2>2. IsRuleDraft(draft)
    BY <1>7 DEF TypeInv, IsDraft, RuleForms
  <2> DEFINE b == (req = "pending")
  <2>0. sent' = RuleForm(draft, b).input /\ RuleForm(draft, b).can
    BY <2>1
  <2> HIDE DEF b
  <2>3. /\ sent'.clauses # <<>>
        /\ \A c \in Range(sent'.clauses) : c.attribute # "" /\ c.values # <<>>
        /\ sent'.served.mode = "rollout" => Total(sent'.served.weights) = FullWeight
    BY <2>0, <2>2, RuleSends
  <2> QED
    BY <1>7, <2>3 DEF InputValid
<1>8. CASE form \notin KeyedForms \cup {"webhook", "user", "grant", "member", "ruleNew", "ruleEdit"}
  BY <1>8 DEF InputValid, KeyedForms
<1> QED
  BY <1>2, <1>3, <1>4, <1>5, <1>6, <1>7, <1>8

LEMMA InputInit == Init => InputInv
<1> SUFFICES ASSUME Init PROVE InputInv
  OBVIOUS
<1>1. draft = Blank(form, shown) /\ sent = None
  BY DEF Init
<1> QED
  BY <1>1, BlankKeys DEF InputInv, KeySlug, AccountKept, InputValid

\* A step starts the form afresh, edits it, or leaves the draft of such a form alone.
LEMMA DraftSteps ==
  ASSUME [Next]_vars, form \in KeyedForms
  PROVE  \/ draft' = draft
         \/ \E s : draft' = Blank(form, s)
         \/ \E d \in FormOf(form, draft).edits : draft' = d
<1>1. form \notin {"ruleNew", "ruleEdit"}
  BY DEF KeyedForms
<1> QED
  BY <1>1 DEF Next, vars, work, OpenForm, CloseForm, Edit, Submit, Send, Succeed, Unmount, Fail,
     Leave, ComeBack, AdriftAnswered, SomebodyElse, Refetch, Start

\* Only a submission puts something into the request.
LEMMA SentSteps == ASSUME [Next]_vars PROVE sent' = sent \/ sent' = None \/ Submit
BY DEF Next, vars, request, OpenForm, CloseForm, Edit, Succeed, Unmount, Fail, Leave, ComeBack,
   AdriftAnswered, SomebodyElse, Refetch

LEMMA InputStep == TypeInv /\ InputInv /\ [Next]_vars => InputInv'
<1> SUFFICES ASSUME TypeInv, InputInv, [Next]_vars PROVE InputInv'
  OBVIOUS
<1>1. form' = form
  BY FormKept
<1>2. ASSUME form \in KeyedForms PROVE IsKeyed(draft')
  <2>1. IsKeyed(draft)
    BY <1>2 DEF InputInv, KeySlug
  <2> QED
    BY <1>2, <2>1, DraftSteps, KeyedEdits, BlankKeys
<1>3. ASSUME form = "setup" PROVE IsAccount(draft')
  <2>1. IsAccount(draft) /\ form \in KeyedForms
    BY <1>3 DEF InputInv, AccountKept, KeyedForms
  <2> QED
    BY <1>3, <2>1, DraftSteps, AccountEdits, BlankKeys
<1>4. InputValid'
  <2>1. CASE sent' = None
    BY <2>1 DEF InputValid
  <2>2. CASE sent' = sent
    BY <1>1, <2>2 DEF InputInv, InputValid, Written
  <2>3. CASE Submit
    BY <2>3, SubmitValid
  <2> QED
    BY <2>1, <2>2, <2>3, SentSteps
<1> QED
  BY <1>1, <1>2, <1>3, <1>4 DEF InputInv, KeySlug, AccountKept

\* For every text and whatever slugify() and trim() keep of it, a request that leaves a form is
\* one its endpoint can take: its key is a slug, its lists are not empty, its account is valid,
\* and the weights of a rollout add up to 100000, however many variations share them.
THEOREM InputCorrect == Spec => []InputValid
<1>1. InputInv => InputValid
  BY DEF InputInv
<1> QED
  BY <1>1, InputInit, InputStep, TypeAlways, PTL DEF Spec

----------------------------------------------------------------------------
(* The Values inputs show the clauses they edit.                           *)

TextForms == {"ruleNew", "ruleEdit", "segmentEdit"}
Matches(text, values) == ParseValues[text] = values \/ DisplayValues[values] = text
ClausesMatch(texts, clauses) == \A j \in DOMAIN clauses : Matches(texts[j], clauses[j].values)

\* There is a text for each clause of each rule, none besides, and each is the clause's own.
TextsMatch(rules, texts) ==
  /\ DOMAIN texts = {RuleKey(rules, i) : i \in DOMAIN rules}
  /\ \A i \in DOMAIN rules :
       LET own == texts[RuleKey(rules, i)]
       IN DOMAIN own = DOMAIN rules[i].clauses /\ ClausesMatch(own, rules[i].clauses)

TextInv ==
  form \in TextForms /\ ~moved /\ DistinctKeys(draft.rules) => TextsMatch(draft.rules, draft.texts)

\* The texts a list of clauses is shown with: those that stay, and the others from the values.
LEMMA ClauseTextsMatch ==
  ASSUME NEW clauses, NEW texts,
         \A j \in DOMAIN texts \cap DOMAIN clauses : Matches(texts[j], clauses[j].values)
  PROVE  /\ DOMAIN ClauseTexts(texts, clauses) = DOMAIN clauses
         /\ ClausesMatch(ClauseTexts(texts, clauses), clauses)
<1>1. ClauseTexts(texts, clauses) = [j \in DOMAIN clauses |->
        IF j \in DOMAIN texts THEN texts[j] ELSE DisplayValues[clauses[j].values]]
  BY DEF ClauseTexts
<1>2. ASSUME NEW j \in DOMAIN clauses PROVE Matches(ClauseTexts(texts, clauses)[j], clauses[j].values)
  BY <1>1 DEF Matches
<1> QED
  BY <1>1, <1>2 DEF ClausesMatch

LEMMA RuleTextsMatch ==
  ASSUME NEW rules, NEW texts, DistinctKeys(rules),
         \A i \in DOMAIN rules : RuleKey(rules, i) \in DOMAIN texts =>
           \A j \in DOMAIN texts[RuleKey(rules, i)] \cap DOMAIN rules[i].clauses :
             Matches(texts[RuleKey(rules, i)][j], rules[i].clauses[j].values)
  PROVE  TextsMatch(rules, RuleTexts(texts, rules))
<1> DEFINE at(k) == CHOOSE i \in DOMAIN rules : RuleKey(rules, i) = k
           keys == {RuleKey(rules, i) : i \in DOMAIN rules}
           old(k) == IF k \in DOMAIN texts THEN texts[k] ELSE <<>>
           new == RuleTexts(texts, rules)
<1>1. new = [k \in keys |-> ClauseTexts(old(k), rules[at(k)].clauses)]
  BY DEF RuleTexts
<1>2. ASSUME NEW i \in DOMAIN rules
      PROVE  /\ DOMAIN new[RuleKey(rules, i)] = DOMAIN rules[i].clauses
             /\ ClausesMatch(new[RuleKey(rules, i)], rules[i].clauses)
  <2> DEFINE key == RuleKey(rules, i)
  <2>1. at(key) \in DOMAIN rules /\ RuleKey(rules, at(key)) = key
    BY Zenon
  <2>2. at(key) = i
    BY <2>1 DEF DistinctKeys
  <2>3. key \in keys
    OBVIOUS
  <2> HIDE DEF at, keys, new
  <2>4. new[key] = ClauseTexts(old(key), rules[i].clauses)
    BY <1>1, <2>2, <2>3
  <2>5. \A j \in DOMAIN old(key) \cap DOMAIN rules[i].clauses :
          Matches(old(key)[j], rules[i].clauses[j].values)
    OBVIOUS
  <2> HIDE DEF old, key
  <2>6. /\ DOMAIN new[key] = DOMAIN rules[i].clauses /\ ClausesMatch(new[key], rules[i].clauses)
    BY <2>4, <2>5, ClauseTextsMatch
  <2> QED
    BY <2>6 DEF key
<1>3. DOMAIN new = keys
  BY <1>1
<1> HIDE DEF new
<1>4. TextsMatch(rules, new)
  BY <1>2, <1>3 DEF TextsMatch
<1> QED
  BY <1>4 DEF new

LEMMA FreshTextsMatch ==
  ASSUME NEW rules, DistinctKeys(rules) PROVE TextsMatch(rules, RuleTexts(<<>>, rules))
<1>1. DOMAIN <<>> = {}
  OBVIOUS
<1> QED
  BY <1>1, RuleTextsMatch

\* An edit of one clause.
LEMMA ClauseEditorMatches ==
  ASSUME NEW c \in Clause, NEW text, Matches(text, c.values), NEW x \in ClauseEditor(c, text)
  PROVE  Matches(x[2], x[1].values)
<1>1. \/ \E a \in Attributes : x = <<[c EXCEPT !.attribute = a], text>>
      \/ \E h \in Hows : x = <<[c EXCEPT !.how = h], text>>
      \/ \E t \in ValueTexts : x = <<[c EXCEPT !.values = ParseValues[t]], t>>
  BY DEF ClauseEditor
<1>2. CASE \E a \in Attributes : x = <<[c EXCEPT !.attribute = a], text>>
  BY <1>2 DEF Clause
<1>3. CASE \E h \in Hows : x = <<[c EXCEPT !.how = h], text>>
  BY <1>3 DEF Clause
<1>4. CASE \E t \in ValueTexts : x = <<[c EXCEPT !.values = ParseValues[t]], t>>
  BY <1>4 DEF Clause, Matches
<1> QED
  BY <1>1, <1>2, <1>3, <1>4

\* Rules with the ids they had have the keys they had.
LEMMA SameKeys ==
  ASSUME NEW a, NEW b, DOMAIN a \subseteq DOMAIN b, \A i \in DOMAIN a : a[i].id = b[i].id
  PROVE  /\ \A i \in DOMAIN a : RuleKey(b, i) = RuleKey(a, i)
         /\ DistinctKeys(b) => DistinctKeys(a)
<1>1. \A i \in DOMAIN a : RuleKey(b, i) = RuleKey(a, i)
  BY DEF RuleKey
<1> QED
  BY <1>1 DEF DistinctKeys

\* A draft of rules, and an edit of it whose keys are distinct.
IsRules(d) == d.rules \in Seq(RuleOf) /\ {"rules", "texts"} \subseteq DOMAIN d
TextsKept(d) == DistinctKeys(d.rules) => TextsMatch(d.rules, d.texts)

LEMMA ClausesOf ==
  ASSUME NEW d, IsRules(d), NEW i \in DOMAIN d.rules
  PROVE  d.rules[i] \in RuleOf /\ d.rules[i].clauses \in Seq(Clause)
<1>1. d.rules[i] \in RuleOf
  BY DEF IsRules
<1> QED
  BY <1>1 DEF RuleOf

LEMMA WithIs ==
  ASSUME NEW d, IsRules(d), NEW rules, NEW texts
  PROVE  With(d, rules, texts).rules = rules /\ With(d, rules, texts).texts = texts
BY DEF With, IsRules

\* One rule with other clauses.
LEMMA OtherClauses ==
  ASSUME NEW d, IsRules(d), NEW i \in DOMAIN d.rules, NEW cs, NEW rules,
         rules = [d.rules EXCEPT ![i].clauses = cs]
  PROVE  /\ DOMAIN rules = DOMAIN d.rules /\ \A j \in DOMAIN d.rules : d.rules[j].id = rules[j].id
         /\ rules[i].clauses = cs
         /\ \A j \in DOMAIN d.rules : j # i => rules[j].clauses = d.rules[j].clauses
<1>1. \A j \in DOMAIN d.rules : d.rules[j] \in RuleOf
  BY ClausesOf
<1> QED
  BY <1>1 DEF RuleOf

LEMMA ClauseEditMatches ==
  ASSUME NEW d, IsRules(d), TextsKept(d), NEW i \in DOMAIN d.rules, NEW e, ClauseEdit(d, i, e),
         DistinctKeys(e.rules)
  PROVE  TextsMatch(e.rules, e.texts)
<1> DEFINE key == RuleKey(d.rules, i)
<1>1. PICK j \in DOMAIN d.rules[i].clauses :
        \E x \in ClauseEditor(d.rules[i].clauses[j], d.texts[key][j]) :
          e = With(d, [d.rules EXCEPT ![i].clauses[j] = x[1]], [d.texts EXCEPT ![key][j] = x[2]])
  BY Zenon DEF ClauseEdit
<1>2. PICK x \in ClauseEditor(d.rules[i].clauses[j], d.texts[key][j]) :
        e = With(d, [d.rules EXCEPT ![i].clauses[j] = x[1]], [d.texts EXCEPT ![key][j] = x[2]])
  BY <1>1
<1> DEFINE cs == [d.rules[i].clauses EXCEPT ![j] = x[1]]
           own == [d.texts[key] EXCEPT ![j] = x[2]]
<1>3. e.rules = [d.rules EXCEPT ![i].clauses = cs] /\ e.texts = [d.texts EXCEPT ![key] = own]
  <2>1. /\ [d.rules EXCEPT ![i].clauses[j] = x[1]] = [d.rules EXCEPT ![i].clauses = cs]
        /\ [d.texts EXCEPT ![key][j] = x[2]] = [d.texts EXCEPT ![key] = own]
    OBVIOUS
  <2> QED
    BY <1>2, <2>1, WithIs
<1>4. d.rules[i].clauses \in Seq(Clause) /\ d.rules[i].clauses[j] \in Clause
  <2>1. d.rules[i].clauses \in Seq(Clause)
    BY ClausesOf
  <2> QED
    BY <1>1, <2>1
<1>5. DOMAIN cs = DOMAIN d.rules[i].clauses /\ DOMAIN own = DOMAIN d.texts[key]
  OBVIOUS
<1>6. \A n \in DOMAIN d.rules[i].clauses : n # j => cs[n] = d.rules[i].clauses[n]
  OBVIOUS
<1>7. \A n \in DOMAIN own : n # j => own[n] = d.texts[key][n]
  OBVIOUS
<1>8. cs[j] = x[1] /\ (j \in DOMAIN own => own[j] = x[2])
  BY <1>1
<1> HIDE DEF cs, own
<1>9. /\ DOMAIN e.rules = DOMAIN d.rules /\ \A n \in DOMAIN d.rules : d.rules[n].id = e.rules[n].id
      /\ e.rules[i].clauses = cs
      /\ \A n \in DOMAIN d.rules : n # i => e.rules[n].clauses = d.rules[n].clauses
  BY <1>3, OtherClauses
<1>10. (\A n \in DOMAIN d.rules : RuleKey(e.rules, n) = RuleKey(d.rules, n)) /\ DistinctKeys(d.rules)
  BY <1>9, SameKeys
<1>11. TextsMatch(d.rules, d.texts)
  BY <1>10 DEF TextsKept
<1>12. /\ DOMAIN d.texts[key] = DOMAIN d.rules[i].clauses /\ key \in DOMAIN d.texts
       /\ ClausesMatch(d.texts[key], d.rules[i].clauses)
  BY <1>11 DEF TextsMatch
<1>13. Matches(x[2], x[1].values)
  <2>1. Matches(d.texts[key][j], d.rules[i].clauses[j].values)
    BY <1>1, <1>12 DEF ClausesMatch
  <2> QED
    BY <1>2, <1>4, <2>1, ClauseEditorMatches
<1>14. DOMAIN own = DOMAIN cs /\ ClausesMatch(own, cs)
  <2>1. ASSUME NEW n \in DOMAIN cs PROVE Matches(own[n], cs[n].values)
    <3>1. CASE n = j
      BY <1>1, <1>5, <1>8, <1>12, <1>13, <3>1
    <3>2. CASE n # j
      BY <1>5, <1>6, <1>7, <1>12, <3>2 DEF ClausesMatch
    <3> QED
      BY <3>1, <3>2
  <2> QED
    BY <1>5, <1>12, <2>1 DEF ClausesMatch
<1>15. DOMAIN e.texts = {RuleKey(e.rules, n) : n \in DOMAIN e.rules}
  <2>1. DOMAIN e.texts = DOMAIN d.texts
    BY <1>3
  <2>2. DOMAIN d.texts = {RuleKey(d.rules, n) : n \in DOMAIN d.rules}
    BY <1>11 DEF TextsMatch
  <2> QED
    BY <1>9, <1>10, <2>1, <2>2
<1>16. ASSUME NEW n \in DOMAIN e.rules
       PROVE  /\ DOMAIN e.texts[RuleKey(e.rules, n)] = DOMAIN e.rules[n].clauses
              /\ ClausesMatch(e.texts[RuleKey(e.rules, n)], e.rules[n].clauses)
  <2>1. RuleKey(e.rules, n) = RuleKey(d.rules, n)
    BY <1>9, <1>10
  <2>2. CASE n = i
    <3>1. e.texts[key] = own
      BY <1>3, <1>12
    <3> QED
      BY <1>9, <1>14, <2>1, <2>2, <3>1
  <2>3. CASE n # i
    <3>1. RuleKey(d.rules, n) # key
      BY <1>9, <1>10, <2>3 DEF DistinctKeys
    <3>2. RuleKey(d.rules, n) \in DOMAIN d.texts
      BY <1>9, <1>11 DEF TextsMatch
    <3>3. e.texts[RuleKey(d.rules, n)] = d.texts[RuleKey(d.rules, n)]
      BY <1>3, <3>1, <3>2
    <3> QED
      BY <1>9, <1>11, <2>1, <2>3, <3>3 DEF TextsMatch
  <2> QED
    BY <2>2, <2>3
<1> QED
  BY <1>15, <1>16 DEF TextsMatch

\* A clause or a rule is added at the end, or one is removed.
LEMMA ListEditMatches ==
  ASSUME NEW d, IsRules(d), TextsKept(d), NEW i \in DOMAIN d.rules, NEW e, ListEdit(d, i, e),
         DistinctKeys(e.rules), ~Removed(d, e)
  PROVE  TextsMatch(e.rules, e.texts)
<1>1. PICK cs \in ClauseLists(d.rules[i].clauses) : e = WithRules(d, [d.rules EXCEPT ![i].clauses = cs])
  BY DEF ListEdit
<1> DEFINE rules == [d.rules EXCEPT ![i].clauses = cs]
<1>2. e.rules = rules /\ e.texts = RuleTexts(d.texts, rules)
  BY <1>1, WithIs DEF WithRules
<1>3. /\ DOMAIN rules = DOMAIN d.rules /\ \A n \in DOMAIN d.rules : d.rules[n].id = rules[n].id
      /\ rules[i].clauses = cs
      /\ \A n \in DOMAIN d.rules : n # i => rules[n].clauses = d.rules[n].clauses
  BY OtherClauses
<1> HIDE DEF rules
<1>4. d.rules[i].clauses \in Seq(Clause)
  BY ClausesOf
<1>5. cs = Append(d.rules[i].clauses, NewClause)
  <2>1. ~(Len(cs) < Len(d.rules[i].clauses))
    BY <1>2, <1>3 DEF Removed
  <2> QED
    BY <1>1, <1>4, <2>1, ClausesListed
<1>6. \A n \in DOMAIN d.rules[i].clauses : n \in DOMAIN cs /\ cs[n] = d.rules[i].clauses[n]
  BY <1>4, <1>5
<1>7. (\A n \in DOMAIN d.rules : RuleKey(rules, n) = RuleKey(d.rules, n)) /\ DistinctKeys(d.rules)
  BY <1>2, <1>3, SameKeys
<1>8. TextsMatch(d.rules, d.texts)
  BY <1>7 DEF TextsKept
<1>9. ASSUME NEW n \in DOMAIN rules,
             NEW j \in DOMAIN d.texts[RuleKey(rules, n)] \cap DOMAIN rules[n].clauses
      PROVE  Matches(d.texts[RuleKey(rules, n)][j], rules[n].clauses[j].values)
  <2>1. /\ RuleKey(rules, n) = RuleKey(d.rules, n)
        /\ DOMAIN d.texts[RuleKey(d.rules, n)] = DOMAIN d.rules[n].clauses
        /\ ClausesMatch(d.texts[RuleKey(d.rules, n)], d.rules[n].clauses)
    BY <1>3, <1>7, <1>8 DEF TextsMatch
  <2>2. j \in DOMAIN d.rules[n].clauses
    BY <2>1
  <2>3. rules[n].clauses[j] = d.rules[n].clauses[j]
    BY <1>3, <1>6, <2>2
  <2> QED
    BY <2>1, <2>2, <2>3 DEF ClausesMatch
<1> QED
  BY <1>2, <1>9, RuleTextsMatch

LEMMA RuleListMatches ==
  ASSUME NEW d, IsRules(d), TextsKept(d), NEW rules \in RuleLists(d.rules), NEW e, e = WithRules(d, rules),
         DistinctKeys(e.rules), ~Removed(d, e)
  PROVE  TextsMatch(e.rules, e.texts)
<1>1. e.rules = rules /\ e.texts = RuleTexts(d.texts, rules)
  BY WithIs DEF WithRules
<1>2. rules = Append(d.rules, NewRule)
  BY <1>1, RulesListed DEF Removed, IsRules
<1>3. \A n \in DOMAIN d.rules : n \in DOMAIN rules /\ rules[n] = d.rules[n]
  <2>1. NewRule \in RuleOf
    BY ClauseFacts
  <2>2. d.rules \in Seq(RuleOf)
    BY DEF IsRules
  <2> QED
    BY <1>2, <2>1, <2>2
<1>4. (\A n \in DOMAIN d.rules : RuleKey(rules, n) = RuleKey(d.rules, n)) /\ DistinctKeys(d.rules)
  BY <1>1, <1>3, SameKeys
<1>5. TextsMatch(d.rules, d.texts)
  BY <1>4 DEF TextsKept
<1>6. ASSUME NEW n \in DOMAIN rules, RuleKey(rules, n) \in DOMAIN d.texts PROVE n \in DOMAIN d.rules
  <2>1. PICK m \in DOMAIN d.rules : RuleKey(rules, n) = RuleKey(d.rules, m)
    BY <1>5, <1>6 DEF TextsMatch
  <2>2. m = n
    BY <1>1, <1>3, <1>4, <2>1 DEF DistinctKeys
  <2> QED
    BY <2>2
<1>7. ASSUME NEW n \in DOMAIN rules, RuleKey(rules, n) \in DOMAIN d.texts,
             NEW j \in DOMAIN d.texts[RuleKey(rules, n)] \cap DOMAIN rules[n].clauses
      PROVE  Matches(d.texts[RuleKey(rules, n)][j], rules[n].clauses[j].values)
  <2>1. n \in DOMAIN d.rules /\ rules[n] = d.rules[n] /\ RuleKey(rules, n) = RuleKey(d.rules, n)
    BY <1>3, <1>4, <1>6, <1>7
  <2> QED
    BY <1>5, <1>7, <2>1 DEF TextsMatch, ClausesMatch
<1> QED
  BY <1>1, <1>7, RuleTextsMatch

\* An edit of rules, of the form's other fields or of a segment's keys.
LEMMA RuleEditorMatches ==
  ASSUME NEW d, IsRules(d), TextsKept(d), NEW i \in DOMAIN d.rules, NEW e \in RuleEditor(d, i),
         DistinctKeys(e.rules), ~Removed(d, e)
  PROVE  TextsMatch(e.rules, e.texts)
BY RuleEditorIs, ClauseEditMatches, ListEditMatches

LEMMA OtherFieldKept ==
  ASSUME NEW d, TextsKept(d), NEW field, field \notin {"rules", "texts"}, NEW v, NEW e,
         e = [d EXCEPT ![field] = v], DistinctKeys(e.rules)
  PROVE  TextsMatch(e.rules, e.texts)
<1>1. e.rules = d.rules /\ e.texts = d.texts
  OBVIOUS
<1> QED
  BY <1>1 DEF TextsKept

LEMMA EditMatches ==
  ASSUME form \in TextForms, IsDraft(form, draft), TextsKept(draft), NEW e \in FormOf(form, draft).edits,
         DistinctKeys(e.rules), ~Removed(draft, e)
  PROVE  TextsMatch(e.rules, e.texts)
<1>1. CASE form \in RuleForms
  <2>1. IsRuleDraft(draft) /\ e \in RuleForm(draft, req = "pending").edits
    BY <1>1 DEF IsDraft, FormOf, RuleForms
  <2>2. IsRules(draft) /\ 1 \in DOMAIN draft.rules
    BY <2>1 DEF IsRuleDraft, IsRules
  <2>3. \/ e \in RuleEditor(draft, 1)
        \/ \E field \in {"serve", "variation", "percents", "seed"} : \E v : e = [draft EXCEPT ![field] = v]
    BY <2>1 DEF RuleForm, VariationSelect, Reseed, RolloutEditor, Put
  <2> QED
    BY <2>2, <2>3, RuleEditorMatches, OtherFieldKept
<1>2. CASE form = "segmentEdit"
  <2>1. IsSegmentDraft(draft) /\ e \in SegmentEditor(draft, shown, req = "pending").edits
    BY <1>2 DEF IsDraft, FormOf, RuleForms
  <2>2. IsRules(draft)
    BY <2>1 DEF IsSegmentDraft, IsRules
  <2>3. \/ e \in SegmentRulesEditor(draft)
        \/ \E field \in {"included", "excluded"} : \E v : e = [draft EXCEPT ![field] = v]
    BY <2>1 DEF SegmentEditor, SegmentTargetsEditor, Put
  <2>4. CASE e \in SegmentRulesEditor(draft)
    <3>1. \/ \E i \in DOMAIN draft.rules : e \in RuleEditor(draft, i)
          \/ \E rules \in RuleLists(draft.rules) : e = WithRules(draft, rules)
      BY <2>2, <2>4, SegmentRulesIs DEF IsRules
    <3> QED
      BY <2>2, <3>1, RuleEditorMatches, RuleListMatches
  <2> QED
    BY <2>3, <2>4, OtherFieldKept
<1> QED
  BY <1>1, <1>2 DEF TextForms, RuleForms

\* A form that starts afresh shows each clause's values.
LEMMA BlankMatches ==
  ASSUME NEW f \in TextForms, NEW s, DistinctKeys(Blank(f, s).rules)
  PROVE  TextsMatch(Blank(f, s).rules, Blank(f, s).texts)
<1>1. Blank(f, s).texts = RuleTexts(<<>>, Blank(f, s).rules)
  <2>1. CASE f = "ruleNew"
    <3>1. Blank(f, s) = RuleFormSeed(<<>>, ServeVariation(0))
      BY <2>1 DEF Blank
    <3> QED
      BY <3>1 DEF RuleFormSeed
  <2>2. CASE f = "ruleEdit"
    <3>1. Blank(f, s) = RuleFormSeed(s.clauses, s.served)
      BY <2>2 DEF Blank
    <3> QED
      BY <3>1 DEF RuleFormSeed
  <2>3. CASE f = "segmentEdit"
    <3>1. Blank(f, s) = SegmentSeed(s)
      BY <2>3 DEF Blank
    <3> QED
      BY <3>1 DEF SegmentSeed
  <2> QED
    BY <2>1, <2>2, <2>3 DEF TextForms
<1> QED
  BY <1>1, FreshTextsMatch

LEMMA TextSteps ==
  ASSUME [Next]_vars
  PROVE  \/ draft' = draft /\ moved' = moved
         \/ \E s : draft' = Blank(form, s)
         \/ Edit
         \/ moved'
<1>1. CASE UNCHANGED vars \/ OpenForm \/ CloseForm
  BY <1>1 DEF vars, work, OpenForm, CloseForm, Start
<1>2. CASE Submit
  BY <1>2 DEF work, Submit, Send, Start
<1>3. CASE Succeed
  BY <1>3 DEF work, Succeed, Unmount, Start
<1>4. CASE Fail \/ Leave \/ ComeBack \/ AdriftAnswered \/ SomebodyElse \/ Refetch
  BY <1>4 DEF work, Fail, Leave, Unmount, ComeBack, AdriftAnswered, SomebodyElse, Refetch, Start
<1> QED
  BY <1>1, <1>2, <1>3, <1>4 DEF Next

LEMMA TextInit == Init => TextInv
<1> SUFFICES ASSUME Init PROVE TextInv
  OBVIOUS
<1>1. draft = Blank(form, shown)
  BY DEF Init
<1> QED
  BY <1>1, BlankMatches DEF TextInv

LEMMA TextStep == TypeInv /\ TextInv /\ [Next]_vars => TextInv'
<1> SUFFICES ASSUME TypeInv, TextInv, [Next]_vars, form \in TextForms, ~moved', DistinctKeys(draft'.rules)
             PROVE  TextsMatch(draft'.rules, draft'.texts)
  BY FormKept DEF TextInv, DistinctKeys, RuleKey, TextsMatch, ClausesMatch, Matches
<1>1. CASE draft' = draft /\ moved' = moved
  BY <1>1 DEF TextInv
<1>2. CASE \E s : draft' = Blank(form, s)
  BY <1>2, BlankMatches
<1>3. CASE Edit
  <2>1. PICK d \in FormOf(form, draft).edits :
          draft' = d /\ moved' = (moved \/ (form # "projectName" /\ Removed(draft, d)))
    BY <1>3 DEF Edit, Editors, TextForms
  <2>2. ~moved /\ ~Removed(draft, d)
    BY <2>1 DEF TextForms
  <2>3. TextsKept(draft)
    BY <2>2 DEF TextsKept, TextInv
  <2> QED
    BY <2>1, <2>2, <2>3, EditMatches DEF TypeInv
<1> QED
  BY <1>1, <1>2, <1>3, TextSteps

LEMMA TextImplies == TextInv => TextIsClause
<1> SUFFICES ASSUME TextInv, form \in TextForms, ~moved, DistinctKeys(draft.rules),
                    NEW i \in DOMAIN draft.rules, NEW j \in DOMAIN draft.rules[i].clauses
             PROVE  Matches(draft.texts[RuleKey(draft.rules, i)][j], draft.rules[i].clauses[j].values)
  BY Zenon DEF TextIsClause, TextForms, Matches
<1> QED
  BY DEF TextInv, TextsMatch, ClausesMatch

\* For every parser and display of values, every segment whose rules have distinct keys and every
\* sequence of edits, saves and refetches: unless a clause took the place of another, each Values
\* input holds a text of the clause it edits.
THEOREM TextsCorrect == Spec => []TextIsClause
BY TypeAlways, TextInit, TextStep, TextImplies, PTL DEF Spec

----------------------------------------------------------------------------
(* A segment that was changed can be saved.                                *)

LEMMA ConcatRange ==
  ASSUME NEW T, NEW a \in Seq(T), NEW b \in Seq(T) PROVE Range(a) \cup Range(b) \subseteq Range(a \o b)
<1>1. /\ Len(a \o b) = Len(a) + Len(b) /\ Len(a) \in Nat /\ Len(b) \in Nat
      /\ DOMAIN (a \o b) = 1..(Len(a) + Len(b)) /\ DOMAIN a = 1..Len(a) /\ DOMAIN b = 1..Len(b)
  OBVIOUS
<1>2. ASSUME NEW i \in DOMAIN a PROVE a[i] \in Range(a \o b)
  <2>1. i \in DOMAIN (a \o b) /\ (a \o b)[i] = a[i]
    BY <1>1
  <2> QED
    BY <2>1 DEF Range
<1>3. ASSUME NEW i \in DOMAIN b PROVE b[i] \in Range(a \o b)
  <2>1. Len(a) + i \in DOMAIN (a \o b) /\ (a \o b)[Len(a) + i] = b[i]
    BY <1>1
  <2> QED
    BY <2>1 DEF Range
<1> QED
  BY <1>2, <1>3 DEF Range

LEMMA OneWord == \A k \in KeyTexts : Len(Words[k]) > 1 \/ Len(Words[k]) = 1
<1> SUFFICES ASSUME NEW k \in KeyTexts PROVE Len(Words[k]) > 1 \/ Len(Words[k]) = 1
  OBVIOUS
<1>1. Words[k] \in Seq(STRING) /\ Len(Words[k]) > 0
  BY TargetingAssumption
<1>2. Len(Words[k]) \in Nat
  BY <1>1
<1>3. \A n \in Nat : n > 0 => n > 1 \/ n = 1
  OBVIOUS
<1> QED
  BY <1>1, <1>2, <1>3, Zenon

LEMMA DirtyTells == TypeInv => DirtyIsDifferent
<1> SUFFICES ASSUME TypeInv, form = "segmentEdit", ~Dirty(draft, shown)
             PROVE  \/ draft.included = shown.included /\ draft.excluded = shown.excluded
                       /\ draft.rules = shown.rules
                    \/ \E k \in Range(draft.included \o draft.excluded
                                        \o shown.included \o shown.excluded) : Len(Words[k]) > 1
  BY DEF DirtyIsDifferent
<1> DEFINE a == draft.included
           b == draft.excluded
           c == shown.included
           e == shown.excluded
           all == a \o b \o c \o e
<1>1. a \in Seq(KeyTexts) /\ b \in Seq(KeyTexts)
  BY DEF TypeInv, IsDraft, RuleForms, IsSegmentDraft
<1>2. c \in Seq(KeyTexts) /\ e \in Seq(KeyTexts)
  BY StoredKinds DEF TypeInv, IsSegment
<1>3. Join(a) = Join(c) /\ Join(b) = Join(e) /\ draft.rules = shown.rules
  BY DEF Dirty
<1> HIDE DEF a, b, c, e
<1>4. a \o b \in Seq(KeyTexts) /\ a \o b \o c \in Seq(KeyTexts)
  BY <1>1, <1>2, ConcatTyped
<1>5. /\ Range(a) \cup Range(b) \subseteq Range(a \o b)
      /\ Range(a \o b) \cup Range(c) \subseteq Range(a \o b \o c)
      /\ Range(a \o b \o c) \cup Range(e) \subseteq Range(all)
  BY <1>1, <1>2, <1>4, ConcatRange
<1>6. Range(a) \cup Range(b) \cup Range(c) \cup Range(e) \subseteq Range(all)
  BY <1>5, Zenon
<1>7. Range(a) \cup Range(b) \cup Range(c) \cup Range(e) \subseteq KeyTexts
  <2>1. \A s \in Seq(KeyTexts) : Range(s) \subseteq KeyTexts
    BY DEF Range
  <2> QED
    BY <1>1, <1>2, <2>1
<1>8. ASSUME ~\E k \in Range(all) : Len(Words[k]) > 1 PROVE a = c /\ b = e
  <2>1. \A k \in Range(a) \cup Range(b) \cup Range(c) \cup Range(e) : Len(Words[k]) = 1
    BY <1>6, <1>7, <1>8, OneWord
  <2> HIDE DEF all
  <2> QED
    BY <1>1, <1>2, <1>3, <2>1, JoinTells
<1> QED
  BY <1>3, <1>8 DEF a, b, c, e

\* For any keys, with the words they are made of: when Save is disabled the lists are as they are
\* shown, unless one of their keys has a space in it.
THEOREM DirtyCorrect == Spec => []DirtyIsDifferent
BY TypeAlways, DirtyTells, PTL

----------------------------------------------------------------------------
(* A save leaves what was not touched alone.                               *)

\* The parts of an editor's draft that end up in what it sends.
ServeParts == {"serve", "variation", "percents", "seed"}
Parts(f) == IF f = "ruleEdit" THEN {"rules"} \cup ServeParts ELSE {"included", "excluded", "rules"}

\* x, of which the parts in t were touched, leaves the others as s has them.
Preserves(f, x, t, s) ==
  /\ f = "segmentEdit" =>
       \A part \in {"name", "included", "excluded", "rules"} \ t : x[part] = s[part]
  /\ f = "ruleEdit" => /\ "rules" \notin t => x.clauses = s.clauses
                       /\ t \cap ServeParts = {} => x.served = s.served \/ ~WholePercents(s.served)

\* What is shown is the server's state of that version.
DataInv == shown.version = server.version => shown = server

\* A draft made from the server's present version differs from it where it was touched only.
WorkInv ==
  /\ form = "segmentEdit" => base = shown.version
  /\ base = server.version =>
       \A part \in Parts(form) \ touched : draft[part] = Blank(form, server)[part]

\* So does the request made from it.
RequestInv ==
  req = "pending" => /\ origin.base \in Nat /\ origin.base <= server.version
                     /\ origin.base = server.version => Preserves(form, sent, origin.touched, server)

SaveInv == form \in Saved => DataInv /\ WorkInv /\ RequestInv

\* Weights that are whole percentages come back from the form as they went in.
LEMMA PercentsRound ==
  ASSUME NEW w \in [1..NVariations -> Nat], \A x \in Range(w) : x % 1000 = 0
  PROVE  RolloutFromPercents(PercentsFromRollout(w)) = w
<1>1. \A n \in Nat : n % 1000 = 0 => ((n + 500) \div 1000) * 1000 = n
  OBVIOUS
<1>2. \A i \in DOMAIN w : w[i] \in Nat /\ w[i] % 1000 = 0
  BY DEF Range
<1>3. DOMAIN PercentsFromRollout(w) = DOMAIN w
  BY DEF PercentsFromRollout
<1>4. RolloutFromPercents(PercentsFromRollout(w))
        = [i \in DOMAIN w |-> ((w[i] + 500) \div 1000) * 1000]
  BY <1>3 DEF RolloutFromPercents, PercentsFromRollout
<1>5. \A i \in DOMAIN w : ((w[i] + 500) \div 1000) * 1000 = w[i]
  BY <1>1, <1>2
<1>6. [i \in DOMAIN w |-> ((w[i] + 500) \div 1000) * 1000] = [i \in DOMAIN w |-> w[i]]
  BY <1>5
<1>7. w = [i \in DOMAIN w |-> w[i]]
  OBVIOUS
<1> QED
  BY <1>4, <1>6, <1>7

\* What the rule form sends when neither the clauses nor the served value were touched.
LEMMA RulePreserves ==
  ASSUME NEW d, NEW b, NEW s, NEW t, IsServed(s.served), IsRuleDraft(d), RuleForm(d, b).can,
         \A part \in Parts("ruleEdit") \ t : d[part] = Blank("ruleEdit", s)[part]
  PROVE  Preserves("ruleEdit", RuleForm(d, b).input, t, s)
<1>0. Blank("ruleEdit", s) = RuleFormSeed(s.clauses, s.served)
  BY DEF Blank
<1>1. ASSUME "rules" \notin t PROVE RuleForm(d, b).input.clauses = s.clauses
  <2>1. d.rules = Blank("ruleEdit", s).rules
    BY <1>1 DEF Parts
  <2>2. d.rules[1].clauses = IF s.clauses # <<>> THEN s.clauses ELSE <<NewClause>>
    BY <1>0, <2>1 DEF RuleFormSeed
  <2>3. NewClause \in Range(<<NewClause>>) /\ NewClause.attribute = ""
    <3>1. NewClause.attribute = ""
      BY DEF NewClause
    <3>2. NewClause \in Range(<<NewClause>>)
      BY DEF Range
    <3> QED
      BY <3>1, <3>2
  <2> QED
    BY <2>2, <2>3, RuleSends
<1>2. ASSUME t \cap ServeParts = {}, WholePercents(s.served)
      PROVE  RuleForm(d, b).input.served = s.served
  <2>1. /\ d.serve = s.served.mode /\ d.variation = s.served.variation /\ d.seed = s.served.seed
        /\ s.served.mode = "rollout" => d.percents = PercentsFromRollout(s.served.weights)
    BY <1>0, <1>2 DEF RuleFormSeed, Parts, ServeParts
  <2>2. RuleForm(d, b).input.served = IF d.serve = "variation" THEN ServeVariation(d.variation)
                                   ELSE ServeRollout(RolloutFromPercents(d.percents), d.seed)
    BY DEF RuleForm
  <2>3. CASE \E v \in Variation : s.served = ServeVariation(v)
    <3>1. s.served.mode = "variation" /\ s.served = ServeVariation(s.served.variation)
      BY <2>3 DEF ServeVariation
    <3> QED
      BY <2>1, <2>2, <3>1
  <2>4. CASE /\ s.served.weights \in [1..NVariations -> Nat]
             /\ s.served = ServeRollout(s.served.weights, s.served.seed)
    <3>1. s.served.mode = "rollout"
      BY <2>4 DEF ServeRollout
    <3>2. RolloutFromPercents(d.percents) = s.served.weights
      BY <1>2, <2>1, <2>4, <3>1, PercentsRound DEF WholePercents
    <3> QED
      BY <2>1, <2>2, <2>4, <3>1, <3>2
  <2> QED
    BY <2>3, <2>4 DEF IsServed
<1> QED
  BY <1>1, <1>2 DEF Preserves

\* What the segment editor sends.
LEMMA SegmentPreserves ==
  ASSUME NEW d, NEW s, NEW t, NEW b,
         \A part \in Parts("segmentEdit") \ t : d[part] = Blank("segmentEdit", s)[part]
  PROVE  Preserves("segmentEdit", SegmentEditor(d, s, b).input, t, s)
<1>1. Blank("segmentEdit", s) = SegmentSeed(s)
  BY DEF Blank
<1>2. /\ "included" \notin t => d.included = s.included
      /\ "excluded" \notin t => d.excluded = s.excluded
      /\ "rules" \notin t => d.rules = s.rules
  BY <1>1 DEF Parts, SegmentSeed
<1> QED
  BY <1>2 DEF Preserves, SegmentEditor

LEMMA SaveInit == Init => SaveInv
<1> SUFFICES ASSUME Init, form \in Saved PROVE DataInv /\ WorkInv /\ RequestInv
  BY DEF SaveInv
<1>1. form \in DOMAIN Stored
  BY StoredAssumption DEF Init, Saved
<1>2. server.version = 1 /\ shown = server /\ draft = Blank(form, shown) /\ base = 1 /\ req # "pending"
  BY <1>1, StoredAssumption DEF Init
<1> QED
  BY <1>2 DEF DataInv, WorkInv, RequestInv

\* The numbers of the versions, before a step and after it.
LEMMA Versions ==
  ASSUME TypeInv, form \in Saved
  PROVE  /\ server.version \in Nat /\ shown.version \in Nat /\ base \in Nat
         /\ shown.version <= server.version /\ base <= server.version
         /\ Grows => server'.version = server.version + 1
<1>1. IsStored(form, server) /\ IsStored(form, shown) /\ base \in Nat
      /\ shown.version <= server.version /\ base <= server.version
  BY DEF TypeInv
<1>2. server.version \in Nat /\ shown.version \in Nat
  BY <1>1 DEF IsStored
<1> QED
  BY <1>1, <1>2 DEF Grows

\* The data's part of a step: nothing, a new version, a new version shown, or a refetch.
LEMMA DataKeeps ==
  ASSUME TypeInv, form \in Saved, DataInv,
         \/ server' = server /\ shown' = shown
         \/ Grows /\ (shown' = shown \/ shown' = server')
         \/ server' = server /\ shown' = server
  PROVE  DataInv'
<1>1. CASE server' = server
  BY <1>1 DEF DataInv
<1>2. CASE Grows /\ shown' = shown
  <2>1. shown.version # server'.version
    BY <1>2, Versions
  <2> QED
    BY <1>2, <2>1 DEF DataInv
<1>3. CASE Grows /\ shown' = server'
  BY <1>3 DEF DataInv
<1> QED
  BY <1>1, <1>2, <1>3

\* The form starts afresh from what is then shown.
LEMMA StartKeeps ==
  ASSUME form' = form, DataInv', NEW s, Start(s), s = shown' PROVE WorkInv'
<1>1. draft' = Blank(form, s) /\ touched' = {} /\ base' = s.version
  BY DEF Start
<1>2. base' = server'.version => s = server'
  BY <1>1 DEF DataInv
<1> QED
  BY <1>1, <1>2 DEF WorkInv

\* A draft that stays was made from an older version, once there is a new one.
LEMMA StaysKeeps ==
  ASSUME TypeInv, form \in Saved, form' = form, WorkInv, UNCHANGED <<draft, touched, base>>,
         server' = server \/ Grows,
         form = "segmentEdit" => shown' = shown
  PROVE  WorkInv'
<1>1. CASE server' = server
  BY <1>1 DEF WorkInv
<1>2. CASE Grows
  <2>1. base # server'.version
    BY <1>2, Versions
  <2> QED
    BY <2>1 DEF WorkInv
<1> QED
  BY <1>1, <1>2

LEMMA RequestKeeps ==
  ASSUME TypeInv, form \in Saved, form' = form, RequestInv,
         server' = server \/ Grows,
         UNCHANGED request \/ req' # "pending"
  PROVE  RequestInv'
<1>1. CASE req' # "pending"
  BY <1>1 DEF RequestInv
<1>2. CASE UNCHANGED request /\ server' = server
  BY <1>2 DEF RequestInv, request
<1>3. CASE UNCHANGED request /\ Grows
  <2>1. server.version \in Nat /\ server'.version = server.version + 1
    BY <1>3 DEF Grows, TypeInv, IsStored
  <2>2. req = "pending" => origin.base \in Nat /\ origin.base <= server'.version
                           /\ origin.base # server'.version
    BY <2>1 DEF RequestInv
  <2> QED
    BY <1>3, <2>2 DEF RequestInv, request
<1> QED
  BY <1>1, <1>2, <1>3

\* The user edits: what changes is touched.
LEMMA EditKeeps == ASSUME TypeInv, form \in Saved, WorkInv, Edit PROVE WorkInv'
<1>1. PICK d \in FormOf(form, draft).edits :
        draft' = d /\ touched' = touched \cup {f \in DOMAIN d : d[f] # draft[f]}
  BY DEF Edit, Saved, Editors
<1>2. IsDraft(form, d) /\ form \in Forms
  BY <1>1, EditTyped DEF TypeInv, Saved, Forms, Editors
<1>3. Parts(form) \subseteq DOMAIN d
  BY <1>2 DEF IsDraft, IsRuleDraft, IsSegmentDraft, RuleForms, Parts, ServeParts, Saved
<1>4. \A part \in Parts(form) \ touched' : part \notin touched /\ draft'[part] = draft[part]
  BY <1>1, <1>3
<1>5. UNCHANGED <<form, base, server, shown>>
  BY DEF Edit, data
<1> QED
  BY <1>4, <1>5 DEF WorkInv

\* What is submitted.
LEMMA SubmitKeeps ==
  ASSUME TypeInv, form \in Saved, DataInv, WorkInv, RequestInv, Submit
  PROVE  DataInv' /\ WorkInv' /\ RequestInv'
<1>1. /\ UNCHANGED <<form, server, shown>>
      /\ sent' = FormOf(form, draft).input /\ FormOf(form, draft).can
      /\ origin' = [touched |-> touched, base |-> base]
  BY DEF Submit, Send, data
<1>2. DataInv'
  BY <1>1, DataKeeps
<1>3. WorkInv'
  <2>1. CASE form = "ruleEdit"
    BY <1>1, <1>2, <2>1, StartKeeps DEF Submit, Send
  <2>2. CASE form = "segmentEdit"
    <3>1. UNCHANGED <<draft, touched, base>>
      BY <2>2 DEF Submit, Send, work
    <3> QED
      BY <1>1, <3>1, StaysKeeps
  <2> QED
    BY <2>1, <2>2 DEF Saved
<1>4. ASSUME base = server.version PROVE Preserves(form, sent', touched, server)
  <2>0. \A part \in Parts(form) \ touched : draft[part] = Blank(form, server)[part]
    BY <1>4 DEF WorkInv
  <2>1. CASE form = "ruleEdit"
    <3>1. sent' = RuleForm(draft, req = "pending").input /\ RuleForm(draft, req = "pending").can
      BY <1>1, <2>1 DEF FormOf
    <3>2. IsServed(server.served) /\ IsRuleDraft(draft)
      BY <2>1, StoredKinds DEF TypeInv, IsRule, IsDraft, RuleForms
    <3> QED
      BY <2>0, <2>1, <3>1, <3>2, RulePreserves
  <2>2. CASE form = "segmentEdit"
    <3>1. sent' = SegmentEditor(draft, shown, req = "pending").input
      BY <1>1, <2>2 DEF FormOf
    <3>2. shown = server
      BY <1>4, <2>2 DEF WorkInv, DataInv
    <3> QED
      BY <2>0, <2>2, <3>1, <3>2, SegmentPreserves
  <2> QED
    BY <2>1, <2>2 DEF Saved
<1>5. origin'.base = base /\ origin'.touched = touched /\ base \in Nat /\ base <= server.version
  BY <1>1 DEF TypeInv
<1> QED
  BY <1>1, <1>2, <1>3, <1>4, <1>5 DEF RequestInv

\* Every step keeps SaveInv.
LEMMA SaveStep == TypeInv /\ SaveInv /\ [Next]_vars => SaveInv'
<1> SUFFICES ASSUME TypeInv, SaveInv, [Next]_vars, form \in Saved PROVE DataInv' /\ WorkInv' /\ RequestInv'
  BY FormKept DEF SaveInv
<1>0. form' = form /\ form \in Forms
  BY FormKept DEF Saved, Forms, Editors
<1>a. DataInv /\ WorkInv /\ RequestInv
  BY DEF SaveInv
<1> USE <1>0, <1>a
<1>b. ASSUME Start(shown), UNCHANGED <<server, shown>>, UNCHANGED request \/ req' # "pending"
      PROVE  DataInv' /\ WorkInv' /\ RequestInv'
  BY <1>b, DataKeeps, StartKeeps, RequestKeeps
<1>c. ASSUME UNCHANGED <<draft, touched, base, shown>>, server' = server \/ Grows,
             UNCHANGED request \/ req' # "pending"
      PROVE  DataInv' /\ WorkInv' /\ RequestInv'
  BY <1>c, DataKeeps, StaysKeeps, RequestKeeps
<1>1. CASE UNCHANGED vars
  BY <1>1, <1>c DEF vars, request
<1>2. CASE OpenForm
  BY <1>2, <1>b, <1>c DEF OpenForm, work, data
<1>3. CASE CloseForm
  BY <1>3, <1>b, <1>c DEF CloseForm, work, data
<1>4. CASE Edit
  <2>1. UNCHANGED <<server, shown>> /\ UNCHANGED request
    BY <1>4 DEF Edit, data
  <2> QED
    BY <1>4, <2>1, DataKeeps, EditKeeps, RequestKeeps
<1>5. CASE Submit
  BY <1>5, SubmitKeeps
<1>6. CASE Succeed
  <2>1. /\ server' = Holds(sent) /\ shown' = server' /\ req' = "idle"
        /\ IF form = "segmentEdit" THEN Start(shown') ELSE UNCHANGED <<draft, touched, base>>
        /\ req = "pending"
    BY <1>6 DEF Succeed, Write, Saved, Editors, LeavesOnSuccess, work
  <2>2. Grows
    BY <2>1, MattersTyped, HoldsGrows DEF TypeInv
  <2>3. DataInv'
    BY <2>1, <2>2, DataKeeps
  <2>4. WorkInv'
    BY <2>1, <2>2, <2>3, StartKeeps, StaysKeeps
  <2> QED
    BY <2>1, <2>2, <2>3, <2>4, RequestKeeps
<1>7. CASE Fail
  BY <1>7, <1>c DEF Fail, work, data
<1>8. CASE Leave
  BY <1>8, <1>b DEF Leave, Unmount, data
<1>9. CASE ComeBack
  BY <1>9, <1>b DEF ComeBack, data
<1>10. CASE AdriftAnswered
  <2>1. server' = server \/ Grows
    BY <1>10, TypeParts, AdriftKeepsTypes
  <2> QED
    BY <1>10, <1>c, <2>1 DEF AdriftAnswered, work
<1>11. CASE SomebodyElse
  <2>1. Grows
    BY <1>11, OthersGrow DEF SomebodyElse, TypeInv
  <2> QED
    BY <1>11, <1>c, <2>1 DEF SomebodyElse, work
<1>12. CASE Refetch
  <2>1. /\ shown' = server /\ UNCHANGED server /\ UNCHANGED request
        /\ IF form = "segmentEdit" THEN Start(server) ELSE UNCHANGED <<draft, touched, base>>
    BY <1>12 DEF Refetch, Saved, work
  <2>2. DataInv'
    BY <2>1, DataKeeps
  <2>3. WorkInv'
    BY <2>1, <2>2, StartKeeps, StaysKeeps
  <2> QED
    BY <2>1, <2>2, <2>3, RequestKeeps
<1> QED
  BY <1>1, <1>2, <1>3, <1>4, <1>5, <1>6, <1>7, <1>8, <1>9, <1>10, <1>11, <1>12 DEF Next

\* The request that succeeds was made from the server's present state.
LEMMA SavesOnlyTouched ==
  ASSUME TypeInv, SaveInv, Next, form \in Saved, req = "pending", req' = "idle", server' # server,
         origin.base = server.version
  PROVE  Preserves(form, server', origin.touched, server)
<1>1. Succeed
  BY DEF Next, OpenForm, CloseForm, Edit, Submit, Send, Fail, Leave, Unmount, ComeBack,
     AdriftAnswered, SomebodyElse, Refetch, request, data
<1>2. Preserves(form, sent, origin.touched, server)
  BY DEF SaveInv, RequestInv
<1>3. server' = Holds(sent) /\ form \in Forms
  BY <1>1 DEF Succeed, Write, Saved, Forms, Editors
<1>4. IsPayload(form, sent) /\ IsStored(form, server)
  BY <1>3, MattersTyped DEF TypeInv
<1> QED
  BY <1>2, <1>3, <1>4, HoldsGrows DEF Preserves, Saved

\* For any stored rule or segment, whatever the user edits, sends, leaves and comes back to and
\* whatever others save meanwhile, a save of a draft made from the present version changes only
\* what was touched; a rollout comes back as it was unless it had finer weights.
THEOREM SavesCorrect == Spec => SavePreserves
<1>1. Spec => []SaveInv
  BY SaveInit, SaveStep, TypeAlways, PTL DEF Spec
<1> DEFINE Saves == req = "pending" /\ req' = "idle" /\ server' # server /\ origin # None
                      /\ origin.base = server.version =>
       /\ form = "segmentEdit" =>
            \A part \in {"name", "included", "excluded", "rules"} \ origin.touched :
              server'[part] = server[part]
       /\ form = "ruleEdit" =>
            /\ "rules" \notin origin.touched => server'.clauses = server.clauses
            /\ origin.touched \cap {"serve", "variation", "percents", "seed"} = {}
                 => server'.served = server.served \/ ~WholePercents(server.served)
<1>2. TypeInv /\ SaveInv /\ [Next]_vars => [Saves]_vars
  <2> SUFFICES ASSUME TypeInv, SaveInv, Next, req = "pending", req' = "idle", server' # server,
                      origin.base = server.version, form \in Saved
               PROVE  Preserves(form, server', origin.touched, server)
    BY DEF vars, Saved, Preserves, ServeParts
  <2> QED
    BY SavesOnlyTouched
<1> QED
  BY <1>1, <1>2, TypeAlways, PTL DEF Spec, SavePreserves
=============================================================================
