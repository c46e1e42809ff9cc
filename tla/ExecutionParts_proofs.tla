----------------------- MODULE ExecutionParts_proofs -----------------------
(***************************************************************************)
(* Proofs about the parts of an execution that share no state: how the     *)
(* plan is made, for any drafts and corrections of any size, what the      *)
(* findings cover, for every contract and any pages and claims, and how    *)
(* far the pages are indexed, for any pages, passages, costs, allowance    *)
(* and embedding specs.                                                    *)
(***************************************************************************)
EXTENDS Planning, Coverage, RetrievalIndex, FiniteSetTheorems, WellFoundedInduction, TLAPS

-----------------------------------------------------------------------------
(* Recursion and induction over the numbers up to n.                       *)

LEMMA Least ==
  ASSUME NEW T \in SUBSET Nat, T # {}
  PROVE  \E x \in T : \A y \in T : x <= y
<1> DEFINE R == OpToRel(<, Nat)
<1>1. IsWellFoundedOn(R, Nat)
  BY NatLessThanWellFounded
<1>2. \A x, y \in Nat : x < y => <<x, y>> \in R
  BY DEF OpToRel
<1> HIDE DEF R
<1>3. PICK x \in T : \A y \in T : <<y, x>> \notin R
  BY <1>1, WFMin
<1>4. \A y \in T : ~(y < x)
  BY <1>2, <1>3
<1> QED
  BY <1>3, <1>4, SMT

\* A set that has 0 and, with each number, the next has them all.
LEMMA Induct ==
  ASSUME NEW n \in Nat, NEW T, 0 \in T, \A i \in 1 .. n : i - 1 \in T => i \in T
  PROVE  \A i \in 0 .. n : i \in T
<1> DEFINE U == {i \in Nat : i <= n /\ i \notin T}
<1>1. SUFFICES ASSUME U # {} PROVE FALSE
  BY SMT
<1>2. PICK k \in U : \A y \in U : k <= y
  BY <1>1, Least
<1>3. k # 0 /\ k \in 1 .. n /\ k - 1 \in Nat /\ k - 1 <= n
  BY <1>2, SMT
<1>4. k - 1 \in T
  BY <1>2, <1>3, SMT
<1> QED
  BY <1>2, <1>3, <1>4

\* A function that is defined from each number to the next exists, and stays in a
\* set that the steps do not leave.
Follows(g, x, F, n) == g[0] = x /\ \A i \in 1 .. n : g[i] = F[<<g[i - 1], i>>]

LEMMA Recursion ==
  ASSUME NEW n \in Nat, NEW S, NEW x \in S, NEW F \in [S \X (1 .. n) -> S]
  PROVE  \E g \in [0 .. n -> S] : Follows(g, x, F, n)
<1> DEFINE Upto(k) == {g \in [0 .. k -> S] : g[0] = x /\ \A i \in 1 .. k : g[i] = F[<<g[i - 1], i>>]}
           T == {k \in 0 .. n : Upto(k) # {}}
<1>1. 0 \in T
  <2>1. [i \in 0 .. 0 |-> x] \in Upto(0)
    BY SMT
  <2>2. 0 \in 0 .. n
    BY SMT
  <2> QED
    BY <2>1, <2>2
<1>2. ASSUME NEW k \in 1 .. n, k - 1 \in T PROVE k \in T
  <2>1. PICK h : h \in Upto(k - 1)
    BY <1>2
  <2> DEFINE g == [i \in 0 .. k |-> IF i = k THEN F[<<h[k - 1], k>>] ELSE h[i]]
  <2>2. k - 1 \in 0 .. (k - 1) /\ k - 1 \in 0 .. k /\ k - 1 # k /\ k \in 0 .. k /\ 0 # k /\ 0 \in 0 .. (k - 1)
    BY SMT
  <2>3. h \in [0 .. (k - 1) -> S] /\ h[0] = x /\ \A i \in 1 .. (k - 1) : h[i] = F[<<h[i - 1], i>>]
    BY <2>1
  <2>4. F[<<h[k - 1], k>>] \in S
    BY <2>2, <2>3
  <2>5. \A i \in 0 .. k : i # k => i \in 0 .. (k - 1)
    BY SMT
  <2>6. g \in [0 .. k -> S]
    BY <2>3, <2>4, <2>5
  <2>7. g[0] = x /\ g[k] = F[<<h[k - 1], k>>] /\ g[k - 1] = h[k - 1]
    BY <2>2, <2>3
  <2>8. ASSUME NEW i \in 1 .. k PROVE g[i] = F[<<g[i - 1], i>>]
    <3>1. CASE i = k
      BY <2>7, <3>1
    <3>2. CASE i # k
      <4>1. i \in 1 .. (k - 1) /\ i \in 0 .. k /\ i - 1 \in 0 .. k /\ i - 1 # k
        BY <3>2, SMT
      <4>2. g[i] = h[i] /\ g[i - 1] = h[i - 1]
        BY <3>2, <4>1
      <4> QED
        BY <2>3, <4>1, <4>2
    <3> QED
      BY <3>1, <3>2
  <2> HIDE DEF g
  <2>9. g \in Upto(k)
    BY <2>6, <2>7, <2>8
  <2> HIDE DEF Upto
  <2>10. k \in 0 .. n
    BY SMT
  <2> QED
    BY <2>9, <2>10
<1> HIDE DEF Upto
<1>3. \A k \in 0 .. n : k \in T
  <2> HIDE DEF T
  <2> QED
    BY <1>1, <1>2, Induct
<1>4. n \in T
  BY <1>3, SMT
<1>5. PICK g : g \in Upto(n)
  BY <1>4
<1> QED
  BY <1>5 DEF Upto, Follows

-----------------------------------------------------------------------------
(* The members of a sequence at some of its places.                        *)

\* The equation that defines Keep.
Keeps(seq, places, f) ==
  f = [i \in 0 .. Len(seq) |->
         IF i = 0 THEN <<>>
         ELSE IF i \in places THEN Append(f[i - 1], seq[i]) ELSE f[i - 1]]

LEMMA KeepFunction ==
  ASSUME NEW S, NEW seq \in Seq(S), NEW places
  PROVE  \E f \in [0 .. Len(seq) -> Seq(S)] :
           /\ Keep(seq, places) = f[Len(seq)]
           /\ f[0] = <<>>
           /\ \A i \in 1 .. Len(seq) :
                f[i] = IF i \in places THEN Append(f[i - 1], seq[i]) ELSE f[i - 1]
<1> DEFINE n == Len(seq)
           F == [a \in Seq(S) \X (1 .. n) |->
                   IF a[2] \in places THEN Append(a[1], seq[a[2]]) ELSE a[1]]
           f == CHOOSE g : Keeps(seq, places, g)
<1>1. n \in Nat /\ \A i \in 1 .. n : seq[i] \in S
  BY SMT
<1>2. <<>> \in Seq(S) /\ F \in [Seq(S) \X (1 .. n) -> Seq(S)]
  <2>1. ASSUME NEW a \in Seq(S) \X (1 .. n)
        PROVE  (IF a[2] \in places THEN Append(a[1], seq[a[2]]) ELSE a[1]) \in Seq(S)
    <3>1. a[1] \in Seq(S) /\ seq[a[2]] \in S
      BY <1>1
    <3> QED
      BY <3>1, SMT
  <2> QED
    BY <2>1
<1>3. \A a \in Seq(S), i \in 1 .. n :
        F[<<a, i>>] = IF i \in places THEN Append(a, seq[i]) ELSE a
  OBVIOUS
<1> HIDE DEF F
<1>4. PICK g \in [0 .. n -> Seq(S)] : g[0] = <<>> /\ \A i \in 1 .. n : g[i] = F[<<g[i - 1], i>>]
  <2>1. \E g \in [0 .. n -> Seq(S)] : Follows(g, <<>>, F, n)
    BY <1>1, <1>2, Recursion
  <2> QED
    BY <2>1 DEF Follows
<1>5. \A i \in 1 .. n : i - 1 \in 0 .. n /\ i \in 0 .. n /\ i # 0
  BY <1>1, SMT
<1>6. Keeps(seq, places, g)
  <2>1. \A i \in 0 .. n : i # 0 => i \in 1 .. n
    BY <1>1, SMT
  <2>2. \A i \in 1 .. n : g[i] = IF i \in places THEN Append(g[i - 1], seq[i]) ELSE g[i - 1]
    BY <1>3, <1>4, <1>5
  <2>3. g = [i \in 0 .. n |-> g[i]]
    BY <1>4
  <2>4. \A i \in 0 .. n : g[i] = IF i = 0 THEN <<>>
                                 ELSE IF i \in places THEN Append(g[i - 1], seq[i]) ELSE g[i - 1]
    BY <1>4, <2>1, <2>2
  <2> QED
    BY <2>3, <2>4 DEF Keeps
<1>7. Keeps(seq, places, f)
  BY <1>6
<1>8. Keep(seq, places) = f[n]
  BY DEF Keep, Keeps
<1> HIDE DEF f
<1>9. /\ DOMAIN f = 0 .. n
      /\ f[0] = <<>>
      /\ \A i \in 1 .. n : f[i] = IF i \in places THEN Append(f[i - 1], seq[i]) ELSE f[i - 1]
  <2>1. 0 \in 0 .. n
    BY <1>1, SMT
  <2> QED
    BY <1>5, <1>7, <2>1 DEF Keeps
<1>10. \A i \in 0 .. n : f[i] \in Seq(S)
  <2> DEFINE T == {i \in 0 .. n : f[i] \in Seq(S)}
  <2>1. 0 \in T
    <3>1. 0 \in 0 .. n
      BY <1>1, SMT
    <3> QED
      BY <1>2, <1>9, <3>1, Zenon
  <2>2. ASSUME NEW i \in 1 .. n, i - 1 \in T PROVE i \in T
    <3>1. f[i - 1] \in Seq(S) /\ i \in 0 .. n /\ seq[i] \in S
      BY <1>1, <1>5, <2>2, Zenon
    <3>2. f[i] = Append(f[i - 1], seq[i]) \/ f[i] = f[i - 1]
      BY <1>9
    <3>3. Append(f[i - 1], seq[i]) \in Seq(S)
      BY <3>1
    <3>4. f[i] \in Seq(S)
      BY <3>1, <3>2, <3>3, Zenon
    <3> QED
      BY <3>1, <3>4, Zenon
  <2> HIDE DEF T
  <2>3. \A i \in 0 .. n : i \in T
    BY <1>1, <2>1, <2>2, Induct
  <2> QED
    BY <2>3 DEF T
<1>11. f \in [0 .. n -> Seq(S)]
  <2>1. f = [i \in 0 .. n |-> f[i]]
    BY <1>7, <1>9 DEF Keeps
  <2> QED
    BY <1>10, <2>1
<1> QED
  BY <1>8, <1>9, <1>11

\* Where the kept members were among the first n.
Picks(kept, seq, pos, n, places) ==
  /\ pos \in [1 .. Len(kept) -> (1 .. n) \cap places]
  /\ \A m \in 1 .. Len(kept) : kept[m] = seq[pos[m]]
  /\ \A l, m \in 1 .. Len(kept) : pos[l] = pos[m] => l = m
  /\ \A i \in (1 .. n) \cap places : \E m \in 1 .. Len(kept) : pos[m] = i

LEMMA PicksMore ==
  ASSUME NEW S, NEW kept \in Seq(S), NEW seq, NEW pos, NEW k \in Nat \ {0}, NEW places,
         seq[k] \in S, Picks(kept, seq, pos, k - 1, places), k \in places
  PROVE  \E p : Picks(Append(kept, seq[k]), seq, p, k, places)
<1> DEFINE n == Len(kept)
           more == Append(kept, seq[k])
           p == [m \in 1 .. (n + 1) |-> IF m = n + 1 THEN k ELSE pos[m]]
<1>1. /\ n \in Nat /\ Len(more) = n + 1 /\ more[n + 1] = seq[k]
      /\ \A m \in 1 .. n : more[m] = kept[m]
  BY SMT
<1>2. /\ n + 1 \in 1 .. (n + 1)
      /\ \A m \in 1 .. n : m \in 1 .. (n + 1) /\ m # n + 1
      /\ \A m \in 1 .. (n + 1) : m # n + 1 => m \in 1 .. n
  BY <1>1, SMT
<1>3. p[n + 1] = k /\ \A m \in 1 .. n : p[m] = pos[m]
  BY <1>2
<1>4. \A m \in 1 .. n : pos[m] \in (1 .. (k - 1)) \cap places
  BY DEF Picks
<1>5. k \in 1 .. k /\ \A i \in 1 .. (k - 1) : i \in 1 .. k /\ i # k
  BY SMT
<1>6. p \in [1 .. (n + 1) -> (1 .. k) \cap places]
  BY <1>2, <1>4, <1>5
<1> HIDE DEF n, p, more
<1>7. \A m \in 1 .. (n + 1) : more[m] = seq[p[m]]
  BY <1>1, <1>2, <1>3 DEF Picks, n
<1>8. \A l, m \in 1 .. (n + 1) : p[l] = p[m] => l = m
  BY <1>2, <1>3, <1>4, <1>5 DEF Picks, n
<1>9. ASSUME NEW i \in (1 .. k) \cap places PROVE \E m \in 1 .. (n + 1) : p[m] = i
  <2>1. CASE i = k
    BY <1>2, <1>3, <2>1
  <2>2. CASE i # k
    <3>1. i \in (1 .. (k - 1)) \cap places
      BY <2>2, SMT
    <3>2. PICK m \in 1 .. n : pos[m] = i
      BY <3>1 DEF Picks, n
    <3> QED
      BY <1>2, <1>3, <3>2
  <2> QED
    BY <2>1, <2>2
<1>10. Picks(more, seq, p, k, places)
  BY <1>1, <1>6, <1>7, <1>8, <1>9 DEF Picks
<1> QED
  BY <1>10 DEF more

LEMMA KeepPlaces ==
  ASSUME NEW S, NEW seq \in Seq(S), NEW places
  PROVE  /\ Keep(seq, places) \in Seq(S)
         /\ \E pos : Picks(Keep(seq, places), seq, pos, Len(seq), places)
<1> DEFINE n == Len(seq)
<1>1. PICK f \in [0 .. n -> Seq(S)] :
        /\ Keep(seq, places) = f[n]
        /\ f[0] = <<>>
        /\ \A i \in 1 .. n : f[i] = IF i \in places THEN Append(f[i - 1], seq[i]) ELSE f[i - 1]
  BY KeepFunction
<1>2. n \in Nat /\ n \in 0 .. n /\ 0 \in 0 .. n
  BY SMT
<1> DEFINE T == {k \in 0 .. n : \E pos : Picks(f[k], seq, pos, k, places)}
<1>3. 0 \in T
  <2>1. Len(f[0]) = 0
    BY <1>1
  <2> DEFINE e == [m \in 1 .. 0 |-> 0]
  <2>2. (1 .. 0) = {}
    BY SMT
  <2>3. e \in [1 .. 0 -> (1 .. 0) \cap places]
    BY <2>2
  <2> HIDE DEF e
  <2>4. Picks(f[0], seq, e, 0, places)
    BY <2>1, <2>2, <2>3, SMT DEF Picks
  <2> QED
    BY <1>2, <2>4
<1>4. ASSUME NEW k \in 1 .. n, k - 1 \in T PROVE k \in T
  <2>1. /\ k \in Nat \ {0} /\ k \in 0 .. n /\ k - 1 \in 0 .. n /\ seq[k] \in S
    BY <1>2, SMT
  <2>2. PICK pos : Picks(f[k - 1], seq, pos, k - 1, places)
    BY <1>4
  <2>3. f[k - 1] \in Seq(S)
    BY <1>1, <2>1
  <2>4. CASE k \in places
    <3>1. f[k] = Append(f[k - 1], seq[k])
      BY <1>1, <2>4
    <3>2. \E p : Picks(Append(f[k - 1], seq[k]), seq, p, k, places)
      BY <2>1, <2>2, <2>3, <2>4, PicksMore
    <3> QED
      BY <2>1, <3>1, <3>2
  <2>5. CASE k \notin places
    <3>1. f[k] = f[k - 1]
      BY <1>1, <2>5
    <3>2. (1 .. k) \cap places = (1 .. (k - 1)) \cap places
      BY <2>1, <2>5, SMT
    <3>3. Picks(f[k], seq, pos, k, places)
      BY <2>2, <3>1, <3>2 DEF Picks
    <3> QED
      BY <2>1, <3>3
  <2> QED
    BY <2>4, <2>5
<1> HIDE DEF T
<1>5. \A k \in 0 .. n : k \in T
  BY <1>2, <1>3, <1>4, Induct
<1> QED
  BY <1>1, <1>2, <1>5 DEF T

LEMMA KeepAll ==
  ASSUME NEW S, NEW seq \in Seq(S), NEW places, DOMAIN seq \subseteq places
  PROVE  Keep(seq, places) = seq
<1> DEFINE n == Len(seq)
<1>1. PICK f \in [0 .. n -> Seq(S)] :
        /\ Keep(seq, places) = f[n]
        /\ f[0] = <<>>
        /\ \A i \in 1 .. n : f[i] = IF i \in places THEN Append(f[i - 1], seq[i]) ELSE f[i - 1]
  BY KeepFunction
<1>2. n \in Nat /\ n \in 0 .. n /\ 0 \in 0 .. n /\ \A i \in 1 .. n : i \in places
  BY SMT
<1> DEFINE T == {k \in 0 .. n : Len(f[k]) = k /\ \A m \in 1 .. k : f[k][m] = seq[m]}
<1>3. 0 \in T
  BY <1>1, <1>2, SMT
<1>4. ASSUME NEW k \in 1 .. n, k - 1 \in T PROVE k \in T
  <2>1. /\ k \in 0 .. n /\ k - 1 \in 0 .. n /\ seq[k] \in S
        /\ f[k - 1] \in Seq(S) /\ f[k] = Append(f[k - 1], seq[k])
    <3>1. k \in 0 .. n /\ k - 1 \in 0 .. n /\ seq[k] \in S
      BY <1>2, SMT
    <3> QED
      BY <1>1, <1>2, <3>1
  <2>2. Len(f[k - 1]) = k - 1 /\ \A m \in 1 .. (k - 1) : f[k - 1][m] = seq[m]
    BY <1>4
  <2> HIDE DEF T, n
  <2>3. Len(f[k]) = k /\ \A m \in 1 .. k : f[k][m] = seq[m]
    BY <2>1, <2>2, SMT
  <2> QED
    BY <2>1, <2>3 DEF T
<1> HIDE DEF T
<1>5. \A k \in 0 .. n : k \in T
  BY <1>2, <1>3, <1>4, Induct
<1>6. Len(f[n]) = n /\ \A m \in 1 .. n : f[n][m] = seq[m]
  BY <1>2, <1>5 DEF T
<1>7. f[n] \in Seq(S)
  BY <1>1, <1>2
<1> QED
  BY <1>1, <1>6, <1>7, SMT

-----------------------------------------------------------------------------
(* Tasks and their dependencies.                                           *)

LEMMA WithDepsKeeps ==
  ASSUME NEW t \in Task, NEW keys
  PROVE  /\ WithDeps(t, keys) \in Task
         /\ WithDeps(t, keys).key = t.key
         /\ ToSet(WithDeps(t, keys).deps) = ToSet(t.deps) \cap keys
         /\ ToSet(t.deps) \subseteq keys => WithDeps(t, keys) = t
<1> DEFINE deps == t.deps
           places == {i \in DOMAIN deps : deps[i] \in keys}
           kept == Keep(deps, places)
<1>1. deps \in Seq(Nat)
  BY DEF Task
<1>2. kept \in Seq(Nat)
  BY <1>1, KeepPlaces
<1>3. PICK pos : Picks(kept, deps, pos, Len(deps), places)
  BY <1>1, KeepPlaces
<1>4. ToSet(kept) = ToSet(deps) \cap keys
  <2>1. DOMAIN kept = 1 .. Len(kept) /\ DOMAIN deps = 1 .. Len(deps)
    BY <1>1, <1>2
  <2>2. ASSUME NEW m \in DOMAIN kept PROVE kept[m] \in ToSet(deps) \cap keys
    <3> HIDE DEF deps, kept
    <3>1. pos[m] \in places /\ kept[m] = deps[pos[m]]
      BY <1>3, <2>1 DEF Picks
    <3> QED
      BY <3>1 DEF ToSet
  <2>3. ASSUME NEW i \in DOMAIN deps, deps[i] \in keys PROVE deps[i] \in ToSet(kept)
    <3>1. i \in (1 .. Len(deps)) \cap places
      BY <2>1, <2>3
    <3> HIDE DEF places
    <3>2. PICK m \in 1 .. Len(kept) : pos[m] = i
      BY <1>3, <3>1 DEF Picks
    <3> HIDE DEF deps, kept
    <3>3. kept[m] = deps[i]
      BY <1>3, <3>2 DEF Picks
    <3> QED
      BY <2>1, <3>3 DEF ToSet
  <2> HIDE DEF deps, places, kept
  <2> QED
    BY <2>2, <2>3 DEF ToSet
<1>5. WithDeps(t, keys) = [t EXCEPT !.deps = kept]
  BY DEF WithDeps
<1>6. ToSet(deps) \subseteq keys => kept = deps
  <2>1. SUFFICES ASSUME ToSet(deps) \subseteq keys PROVE DOMAIN deps \subseteq places
    BY <1>1, KeepAll
  <2> QED
    BY <2>1 DEF ToSet
<1> HIDE DEF kept
<1>7. /\ WithDeps(t, keys) \in Task
      /\ WithDeps(t, keys).key = t.key
      /\ WithDeps(t, keys).deps = kept
  BY <1>2, <1>5 DEF Task
<1>8. kept = deps => WithDeps(t, keys) = t
  BY <1>5 DEF Task
<1> QED
  BY <1>4, <1>6, <1>7, <1>8

LEMMA NoPlaces ==
  ASSUME NEW S, NEW seq \in Seq(S), DOMAIN seq = {}
  PROVE  seq = <<>>
<1>1. Len(seq) \in Nat /\ 1 .. Len(seq) = {}
  BY SMT
<1>2. Len(seq) = 0
  BY <1>1, SMT
<1> QED
  BY <1>2, SMT

\* No key is repeated.
Distinct(ts) == \A i, j \in DOMAIN ts : ts[i].key = ts[j].key => i = j

Plans == Seq(Task) \ {<<>>}

LEMMA PlanOfTasks ==
  ASSUME NEW n \in Nat \ {0}, NEW f, \A i \in 1 .. n : f[i] \in Task
  PROVE  [i \in 1 .. n |-> f[i]] \in Plans
<1> DEFINE s == [i \in 1 .. n |-> f[i]]
<1>1. s \in Seq(Task) /\ Len(s) = n
  BY SMT
<1>2. s # <<>>
  <2>1. Len(<<>>) = 0 /\ n # 0
    BY SMT
  <2> QED
    BY <1>1, <2>1
<1> QED
  BY <1>1, <1>2 DEF Plans

LEMMA PlanFacts ==
  ASSUME NEW ts \in Plans
  PROVE  /\ ts \in Seq(Task) /\ Len(ts) \in Nat \ {0} /\ DOMAIN ts = 1 .. Len(ts)
         /\ 1 \in DOMAIN ts
         /\ \A i \in DOMAIN ts : ts[i] \in Task /\ ts[i].key \in Nat /\ ts[i].deps \in Seq(Nat)
<1>1. ts \in Seq(Task) /\ ts # <<>>
  BY DEF Plans
<1>2. Len(ts) \in Nat \ {0} /\ DOMAIN ts = 1 .. Len(ts) /\ \A i \in DOMAIN ts : ts[i] \in Task
  BY <1>1, SMT
<1>3. 1 \in 1 .. Len(ts)
  BY <1>2, SMT
<1> QED
  BY <1>1, <1>2, <1>3 DEF Task

LEMMA KeepTasks ==
  ASSUME NEW ts \in Plans, NEW places, DOMAIN ts \cap places # {}
  PROVE  /\ Keep(ts, places) \in Plans
         /\ \A m \in DOMAIN Keep(ts, places) : \E i \in DOMAIN ts \cap places : Keep(ts, places)[m] = ts[i]
         /\ \A i \in DOMAIN ts \cap places : \E m \in DOMAIN Keep(ts, places) : Keep(ts, places)[m] = ts[i]
         /\ Distinct(ts) => Distinct(Keep(ts, places))
<1> DEFINE kept == Keep(ts, places)
<1>1. kept \in Seq(Task) /\ ts \in Seq(Task)
  BY PlanFacts, KeepPlaces
<1>2. PICK pos : Picks(kept, ts, pos, Len(ts), places)
  BY PlanFacts, KeepPlaces
<1>3. DOMAIN kept = 1 .. Len(kept) /\ DOMAIN ts = 1 .. Len(ts)
  BY <1>1
<1> HIDE DEF kept
<1>4. \A m \in DOMAIN kept : pos[m] \in DOMAIN ts \cap places /\ kept[m] = ts[pos[m]]
  BY <1>2, <1>3 DEF Picks
<1>5. \A i \in DOMAIN ts \cap places : \E m \in DOMAIN kept : pos[m] = i
  BY <1>2, <1>3 DEF Picks
<1>6. \A l, m \in DOMAIN kept : pos[l] = pos[m] => l = m
  BY <1>2, <1>3 DEF Picks
<1>7. kept \in Plans
  <2>1. DOMAIN kept # {}
    BY <1>5
  <2>2. DOMAIN <<>> = {}
    BY SMT
  <2> QED
    BY <1>1, <2>1, <2>2 DEF Plans
<1>8. Distinct(ts) => Distinct(kept)
  BY <1>4, <1>6 DEF Distinct
<1>9. \A m \in DOMAIN kept : \E i \in DOMAIN ts \cap places : kept[m] = ts[i]
  BY <1>4
<1>10. \A i \in DOMAIN ts \cap places : \E m \in DOMAIN kept : kept[m] = ts[i]
  BY <1>4, <1>5
<1> QED
  BY <1>7, <1>8, <1>9, <1>10 DEF kept

LEMMA SameKeys ==
  ASSUME NEW ts \in Plans, NEW f, f = [i \in DOMAIN ts |-> f[i]],
         \A i \in DOMAIN ts : f[i] \in Task /\ f[i].key = ts[i].key
  PROVE  /\ f \in Plans /\ DOMAIN f = DOMAIN ts /\ Keys(f) = Keys(ts)
         /\ Distinct(ts) => Distinct(f)
<1>1. DOMAIN ts = 1 .. Len(ts) /\ Len(ts) \in Nat \ {0}
  BY PlanFacts
<1>2. [i \in 1 .. Len(ts) |-> f[i]] \in Plans
  BY <1>1, PlanOfTasks
<1>3. f \in Plans
  BY <1>1, <1>2
<1>4. DOMAIN f = DOMAIN ts
  OBVIOUS
<1> QED
  BY <1>3, <1>4 DEF Keys, Distinct

LEMMA CutFacts ==
  ASSUME NEW ts \in Plans, NEW n \in Nat \ {0}
  PROVE  /\ Cut(ts, n) \in Plans
         /\ \A m \in DOMAIN Cut(ts, n) : m \in DOMAIN ts /\ Cut(ts, n)[m] = ts[m]
         /\ Distinct(ts) => Distinct(Cut(ts, n))
         /\ Len(ts) <= n => Cut(ts, n) = ts
<1> DEFINE l == IF n < Len(ts) THEN n ELSE Len(ts)
           cut == Cut(ts, n)
<1>1. /\ ts \in Seq(Task) /\ Len(ts) \in Nat \ {0} /\ DOMAIN ts = 1 .. Len(ts)
      /\ \A i \in DOMAIN ts : ts[i] \in Task
  BY PlanFacts
<1>2. l \in Nat \ {0} /\ \A i \in 1 .. l : i \in DOMAIN ts
  BY <1>1, SMT
<1>3. cut = [i \in 1 .. l |-> ts[i]]
  BY DEF Cut
<1>4. Len(ts) <= n => l = Len(ts)
  <2>1. Len(ts) \in Nat /\ n \in Nat
    BY <1>1
  <2>2. Len(ts) <= n => ~(n < Len(ts))
    BY <2>1, SMT
  <2> QED
    BY <2>2
<1> HIDE DEF l, cut
<1>5. cut \in Plans
  BY <1>1, <1>2, <1>3, PlanOfTasks
<1>6. \A m \in DOMAIN cut : m \in DOMAIN ts /\ cut[m] = ts[m]
  BY <1>2, <1>3
<1>7. Distinct(ts) => Distinct(cut)
  BY <1>6 DEF Distinct
<1>8. Len(ts) <= n => cut = ts
  <2>1. ts = [i \in 1 .. Len(ts) |-> ts[i]]
    BY <1>1, SMT
  <2> QED
    BY <1>3, <1>4, <2>1
<1> QED
  BY <1>5, <1>6, <1>7, <1>8 DEF cut

-----------------------------------------------------------------------------
(* The steps of repair_plan.                                               *)

LEMMA EnsureKeysFacts ==
  ASSUME NEW ts \in Plans
  PROVE  EnsureKeys(ts) \in Plans /\ (Distinct(ts) => EnsureKeys(ts) = ts)
<1> DEFINE n == Len(ts)
           Step(done, i) == Append(done, IF ts[i].key \in Keys(done)
                                         THEN [ts[i] EXCEPT !.key = i] ELSE ts[i])
           F == [a \in Seq(Task) \X (1 .. n) |-> Step(a[1], a[2])]
           Defines(g) == g = [i \in 0 .. n |-> IF i = 0 THEN <<>> ELSE Step(g[i - 1], i)]
           f == CHOOSE g : Defines(g)
<1>1. /\ ts \in Seq(Task) /\ n \in Nat \ {0} /\ DOMAIN ts = 1 .. n
      /\ \A i \in 1 .. n : ts[i] \in Task
  BY PlanFacts
<1>2. ASSUME NEW done \in Seq(Task), NEW i \in 1 .. n
      PROVE  Step(done, i) \in Seq(Task) /\ Len(Step(done, i)) = Len(done) + 1
  <2> DEFINE t == IF ts[i].key \in Keys(done) THEN [ts[i] EXCEPT !.key = i] ELSE ts[i]
  <2>1. i \in Nat /\ ts[i] \in Task
    BY <1>1, SMT
  <2>2. t \in Task
    BY <2>1 DEF Task
  <2> HIDE DEF t
  <2>3. Append(done, t) \in Seq(Task) /\ Len(Append(done, t)) = Len(done) + 1
    BY <2>2
  <2> QED
    BY <2>3 DEF t
<1>3. /\ F \in [Seq(Task) \X (1 .. n) -> Seq(Task)]
      /\ \A done \in Seq(Task), i \in 1 .. n : F[<<done, i>>] = Step(done, i)
  <2> HIDE DEF Step
  <2>1. \A a \in Seq(Task) \X (1 .. n) : Step(a[1], a[2]) \in Seq(Task)
    BY <1>2
  <2> QED
    BY <2>1
<1>4. n \in Nat /\ 0 \in 0 .. n /\ n \in 0 .. n /\ <<>> \in Seq(Task)
      /\ \A i \in 1 .. n : i \in 0 .. n /\ i - 1 \in 0 .. n /\ i # 0
  BY <1>1, SMT
<1>5. EnsureKeys(ts) = f[n]
  BY DEF EnsureKeys
<1> HIDE DEF Step, F
<1>6. PICK g \in [0 .. n -> Seq(Task)] : Follows(g, <<>>, F, n)
  BY <1>3, <1>4, Recursion
<1>7. Defines(g)
  <2>1. \A i \in 0 .. n : i # 0 => i \in 1 .. n
    BY <1>4, SMT
  <2>2. \A i \in 1 .. n : g[i] = Step(g[i - 1], i)
    BY <1>3, <1>4, <1>6 DEF Follows
  <2>3. \A i \in 0 .. n : g[i] = IF i = 0 THEN <<>> ELSE Step(g[i - 1], i)
    BY <1>6, <2>1, <2>2 DEF Follows
  <2>4. g = [i \in 0 .. n |-> g[i]]
    BY <1>6
  <2> QED
    BY <2>3, <2>4
<1>8. Defines(f)
  BY <1>7
<1> HIDE DEF f
<1>9. f[0] = <<>> /\ \A i \in 1 .. n : f[i] = Step(f[i - 1], i)
  BY <1>4, <1>8
<1> HIDE DEF Defines
<1> DEFINE T == {i \in 0 .. n : f[i] \in Seq(Task) /\ Len(f[i]) = i}
<1>10. 0 \in T
  <2>1. Len(<<>>) = 0
    BY SMT
  <2> QED
    BY <1>4, <1>9, <2>1
<1>11. ASSUME NEW i \in 1 .. n, i - 1 \in T PROVE i \in T
  <2>1. f[i - 1] \in Seq(Task) /\ Len(f[i - 1]) = i - 1
    BY <1>11
  <2>2. f[i] \in Seq(Task) /\ Len(f[i]) = (i - 1) + 1
    BY <1>2, <1>9, <2>1
  <2> QED
    BY <1>4, <2>2, SMT
<1> HIDE DEF T
<1>12. \A i \in 0 .. n : i \in T
  BY <1>4, <1>10, <1>11, Induct
<1>13. \A i \in 0 .. n : f[i] \in Seq(Task) /\ Len(f[i]) = i
  BY <1>12 DEF T
<1>14. f[n] \in Plans
  <2>1. Len(<<>>) = 0 /\ n # 0
    BY <1>1, SMT
  <2> QED
    BY <1>4, <1>13, <2>1 DEF Plans
<1>15. ASSUME Distinct(ts) PROVE f[n] = ts
  <2> DEFINE U == {i \in 0 .. n : \A m \in 1 .. i : f[i][m] = ts[m]}
  <2>1. 0 \in U
    BY <1>4, SMT
  <2>2. ASSUME NEW i \in 1 .. n, i - 1 \in U PROVE i \in U
    <3>1. f[i - 1] \in Seq(Task) /\ Len(f[i - 1]) = i - 1 /\ ts[i] \in Task
      BY <1>1, <1>4, <1>13
    <3>2. \A m \in 1 .. (i - 1) : f[i - 1][m] = ts[m]
      BY <2>2
    <3>3. ts[i].key \notin Keys(f[i - 1])
      <4>1. DOMAIN f[i - 1] = 1 .. (i - 1)
        BY <3>1
      <4>2. \A m \in 1 .. (i - 1) : m \in 1 .. n /\ m # i
        BY <1>1, SMT
      <4>3. \A m \in 1 .. (i - 1) : ts[m].key # ts[i].key
        BY <1>1, <1>15, <4>2 DEF Distinct
      <4> QED
        BY <3>2, <4>1, <4>3 DEF Keys
    <3>4. f[i] = Append(f[i - 1], ts[i])
      BY <1>9, <3>3 DEF Step
    <3>5. ASSUME NEW m \in 1 .. i PROVE f[i][m] = ts[m]
      <4>1. CASE m = i
        BY <3>1, <3>4, <4>1, SMT
      <4>2. CASE m # i
        <5>1. m \in 1 .. (i - 1)
          BY <4>2, SMT
        <5>2. f[i][m] = f[i - 1][m]
          BY <3>1, <3>4, <5>1, SMT
        <5> QED
          BY <3>2, <5>1, <5>2
      <4> QED
        BY <4>1, <4>2
    <3> QED
      BY <1>4, <3>5
  <2> HIDE DEF U
  <2>3. \A i \in 0 .. n : i \in U
    BY <1>4, <2>1, <2>2, Induct
  <2>4. \A m \in 1 .. n : f[n][m] = ts[m]
    BY <1>4, <2>3 DEF U
  <2>5. f[n] \in Seq(Task) /\ Len(f[n]) = n
    BY <1>4, <1>13
  <2> QED
    BY <1>1, <2>4, <2>5, SMT
<1> QED
  BY <1>5, <1>14, <1>15

LEMMA DropFacts ==
  ASSUME NEW ts \in Plans
  PROVE  LET out == DropUnknownAndSelfDeps(ts)
         IN  /\ out \in Plans /\ (Distinct(ts) => Distinct(out))
             /\ KnownDeps(ts) => out = ts
<1> DEFINE out == DropUnknownAndSelfDeps(ts)
<1>1. out = [i \in DOMAIN ts |-> WithDeps(ts[i], Keys(ts) \ {ts[i].key})]
  BY DEF DropUnknownAndSelfDeps
<1>2. \A i \in DOMAIN ts : ts[i] \in Task
  BY PlanFacts
<1> HIDE DEF out
<1>3. \A i \in DOMAIN ts : out[i] \in Task /\ out[i].key = ts[i].key
  BY <1>1, <1>2, WithDepsKeeps
<1>4. out = [i \in DOMAIN ts |-> out[i]]
  BY <1>1
<1>5. out \in Plans /\ (Distinct(ts) => Distinct(out))
  BY <1>3, <1>4, SameKeys
<1>6. ASSUME KnownDeps(ts) PROVE out = ts
  <2>1. \A i \in DOMAIN ts : out[i] = ts[i]
    BY <1>1, <1>2, <1>6, WithDepsKeeps DEF KnownDeps
  <2>2. ts = [i \in DOMAIN ts |-> ts[i]]
    BY PlanFacts, SMT
  <2> QED
    BY <1>4, <2>1, <2>2
<1> QED
  BY <1>5, <1>6 DEF out

\* No objective is repeated.
DistinctGoals(ts) == \A i, j \in DOMAIN ts : ts[i].goal = ts[j].goal => i = j

LEMMA DedupeFacts ==
  ASSUME NEW ts \in Plans
  PROVE  LET out == DedupeObjectives(ts)
         IN  /\ out \in Plans /\ (Distinct(ts) => Distinct(out))
             /\ DistinctGoals(ts) => out = ts
<1> DEFINE out     == DedupeObjectives(ts)
           repeats == {i \in DOMAIN ts : \E j \in 1 .. (i - 1) : ts[j].goal = ts[i].goal}
           dropped == {ts[i].key : i \in repeats}
           unique  == Keep(ts, DOMAIN ts \ repeats)
<1>1. out = [i \in DOMAIN unique |-> WithDeps(unique[i], Nat \ dropped)]
  BY DEF DedupeObjectives
<1>2. /\ ts \in Seq(Task) /\ DOMAIN ts = 1 .. Len(ts) /\ Len(ts) \in Nat /\ 1 \in DOMAIN ts
      /\ \A i \in DOMAIN ts : ts[i] \in Task /\ ts[i].deps \in Seq(Nat)
  BY PlanFacts
<1>3. 1 \in DOMAIN ts \cap (DOMAIN ts \ repeats)
  <2>1. 1 .. (1 - 1) = {}
    BY SMT
  <2>2. 1 \notin repeats
    BY <2>1
  <2> HIDE DEF repeats
  <2> QED
    BY <1>2, <2>2
<1>4. unique \in Plans /\ (Distinct(ts) => Distinct(unique))
  <2> HIDE DEF repeats
  <2> QED
    BY <1>3, KeepTasks
<1>5. ASSUME DistinctGoals(ts) PROVE out = ts
  <2>1. repeats = {}
    <3> SUFFICES ASSUME NEW i \in DOMAIN ts, NEW j \in 1 .. (i - 1), ts[j].goal = ts[i].goal
                 PROVE  FALSE
      OBVIOUS
    <3>1. j \in DOMAIN ts /\ j # i
      BY <1>2, SMT
    <3> QED
      BY <1>5, <3>1 DEF DistinctGoals
  <2>2. dropped = {}
    BY <2>1
  <2>3. unique = ts
    BY <1>2, <2>1, KeepAll
  <2>4. \A i \in DOMAIN ts : WithDeps(ts[i], Nat) = ts[i]
    <3> SUFFICES ASSUME NEW i \in DOMAIN ts PROVE ToSet(ts[i].deps) \subseteq Nat
      BY <1>2, WithDepsKeeps
    <3>1. ts[i].deps \in Seq(Nat)
      BY <1>2
    <3>2. \A m \in DOMAIN ts[i].deps : ts[i].deps[m] \in Nat
      BY <3>1, SMT
    <3> QED
      BY <3>2 DEF ToSet
  <2> HIDE DEF out, unique, dropped
  <2>5. out = [i \in DOMAIN ts |-> WithDeps(ts[i], Nat)]
    BY <1>1, <2>2, <2>3
  <2>6. ts = [i \in DOMAIN ts |-> ts[i]]
    BY <1>2, SMT
  <2> QED
    BY <2>4, <2>5, <2>6
<1> HIDE DEF out, unique, dropped
<1>6. \A i \in DOMAIN unique : unique[i] \in Task
  BY <1>4, PlanFacts
<1>7. \A i \in DOMAIN unique : out[i] \in Task /\ out[i].key = unique[i].key
  BY <1>1, <1>6, WithDepsKeeps
<1>8. out = [i \in DOMAIN unique |-> out[i]]
  BY <1>1
<1>9. out \in Plans /\ (Distinct(unique) => Distinct(out))
  BY <1>4, <1>7, <1>8, SameKeys
<1> QED
  BY <1>4, <1>5, <1>9 DEF out

\* The order by priority, then key, then place has no ties: as many tasks come
\* before one as have an earlier place in it.
LEMMA BeforeOrders ==
  ASSUME NEW ts \in Plans
  PROVE  /\ \A i \in DOMAIN ts : ~Before(ts, i, i)
         /\ \A i, j \in DOMAIN ts : i = j \/ Before(ts, i, j) \/ Before(ts, j, i)
         /\ \A i, j, k \in DOMAIN ts : Before(ts, i, j) /\ Before(ts, j, k) => Before(ts, i, k)
<1>1. \A i \in DOMAIN ts : ts[i].priority \in Nat /\ ts[i].key \in Nat /\ i \in Nat
  <2>1. DOMAIN ts = 1 .. Len(ts) /\ Len(ts) \in Nat /\ \A i \in DOMAIN ts : ts[i] \in Task
    BY PlanFacts
  <2>2. \A i \in 1 .. Len(ts) : i \in Nat
    BY <2>1, SMT
  <2> QED
    BY <2>1, <2>2 DEF Task
<1>2. \A i \in DOMAIN ts : ~Before(ts, i, i)
  BY <1>1, SMT DEF Before
<1>3. \A i, j \in DOMAIN ts : i = j \/ Before(ts, i, j) \/ Before(ts, j, i)
  BY <1>1, SMT DEF Before
<1>4. \A i, j, k \in DOMAIN ts : Before(ts, i, j) /\ Before(ts, j, k) => Before(ts, i, k)
  BY <1>1, SMT DEF Before
<1> QED
  BY <1>2, <1>3, <1>4

LEMMA ByPriorityPermutes ==
  ASSUME NEW ts \in Plans
  PROVE  /\ ByPriority(ts) \in Plans /\ DOMAIN ByPriority(ts) = DOMAIN ts
         /\ Distinct(ts) => Distinct(ByPriority(ts))
         /\ Len(ts) = 1 => ByPriority(ts) = ts
<1> DEFINE n == Len(ts)
           earlier(i) == {j \in DOMAIN ts : Before(ts, j, i)}
           rank == [i \in DOMAIN ts |-> Cardinality(earlier(i))]
           place(m) == CHOOSE i \in DOMAIN ts : Cardinality(earlier(i)) = m - 1
<1>1. /\ ts \in Seq(Task) /\ n \in Nat \ {0} /\ DOMAIN ts = 1 .. n
      /\ \A i \in DOMAIN ts : ts[i] \in Task
  BY PlanFacts
<1>2. IsFiniteSet(DOMAIN ts) /\ Cardinality(DOMAIN ts) = n
  <2>1. n >= 1 /\ 1 \in Int /\ n \in Int
    BY <1>1, SMT
  <2>2. IsFiniteSet(1 .. n) /\ Cardinality(1 .. n) = IF 1 > n THEN 0 ELSE n - 1 + 1
    BY <2>1, FS_Interval
  <2> QED
    BY <1>1, <2>1, <2>2, SMT
<1>3. IsFiniteSet(0 .. (n - 1)) /\ Cardinality(0 .. (n - 1)) = n
  <2>1. n - 1 >= 0 /\ 0 \in Int /\ n - 1 \in Int
    BY <1>1, SMT
  <2>2. IsFiniteSet(0 .. (n - 1))
        /\ Cardinality(0 .. (n - 1)) = IF 0 > n - 1 THEN 0 ELSE (n - 1) - 0 + 1
    BY <2>1, FS_Interval
  <2> QED
    BY <1>1, <2>1, <2>2, SMT
<1>4. \A i \in DOMAIN ts : earlier(i) \in SUBSET DOMAIN ts /\ i \notin earlier(i)
  BY BeforeOrders
<1>5. \A i \in DOMAIN ts : IsFiniteSet(earlier(i)) /\ Cardinality(earlier(i)) \in Nat
  <2> HIDE DEF earlier
  <2> QED
    BY <1>2, <1>4, FS_Subset, FS_CardinalityType
<1>6. \A i \in DOMAIN ts : Cardinality(earlier(i)) \in 0 .. (n - 1)
  <2> SUFFICES ASSUME NEW i \in DOMAIN ts PROVE Cardinality(earlier(i)) \in 0 .. (n - 1)
    OBVIOUS
  <2> HIDE DEF earlier
  <2>1. earlier(i) # DOMAIN ts
    BY <1>4
  <2>2. Cardinality(earlier(i)) <= n /\ Cardinality(earlier(i)) # n
    BY <1>2, <1>4, <2>1, FS_Subset
  <2> QED
    BY <1>1, <1>5, <2>2, SMT
<1>7. ASSUME NEW i \in DOMAIN ts, NEW j \in DOMAIN ts, Before(ts, i, j)
      PROVE  Cardinality(earlier(i)) # Cardinality(earlier(j))
  <2>1. earlier(i) \in SUBSET earlier(j)
    BY <1>7, BeforeOrders
  <2>2. i \in earlier(j)
    BY <1>7
  <2>3. earlier(i) # earlier(j)
    BY <1>4, <2>2
  <2> HIDE DEF earlier
  <2> QED
    BY <1>5, <2>1, <2>3, FS_Subset
<1> HIDE DEF earlier
<1>8. rank \in Injection(DOMAIN ts, 0 .. (n - 1))
  <2>1. rank \in [DOMAIN ts -> 0 .. (n - 1)]
    BY <1>6
  <2>2. \A i, j \in DOMAIN ts : rank[i] = rank[j] => i = j
    BY <1>7, BeforeOrders
  <2> QED
    BY <2>1, <2>2 DEF Injection, IsInjective
<1>9. rank \in Surjection(DOMAIN ts, 0 .. (n - 1))
  BY <1>2, <1>3, <1>8, FS_Injection
<1>10. ASSUME NEW m \in DOMAIN ts
       PROVE  place(m) \in DOMAIN ts /\ Cardinality(earlier(place(m))) = m - 1
  <2>1. m - 1 \in 0 .. (n - 1)
    BY <1>1, SMT
  <2>2. \E i \in DOMAIN ts : rank[i] = m - 1
    BY <1>9, <2>1 DEF Surjection
  <2> QED
    BY <2>2
<1> DEFINE out == ByPriority(ts)
<1>11. out = [m \in DOMAIN ts |-> ts[place(m)]]
  BY DEF ByPriority, earlier
<1> HIDE DEF place, out
<1>12. \A l, m \in DOMAIN ts : place(l) = place(m) => l = m
  <2> SUFFICES ASSUME NEW l \in DOMAIN ts, NEW m \in DOMAIN ts, place(l) = place(m) PROVE l = m
    OBVIOUS
  <2>1. l - 1 = m - 1
    BY <1>10
  <2> QED
    BY <1>1, <2>1, SMT
<1>13. out \in Plans /\ DOMAIN out = DOMAIN ts
  BY <1>1, <1>10, <1>11, PlanOfTasks
<1>14. Distinct(ts) => Distinct(out)
  BY <1>10, <1>11, <1>12, <1>13 DEF Distinct
<1>15. ASSUME n = 1 PROVE out = ts
  <2>1. DOMAIN ts = {1}
    BY <1>1, <1>15, SMT
  <2>2. \A m \in DOMAIN ts : place(m) = m
    BY <1>10, <2>1
  <2>3. ts = [m \in DOMAIN ts |-> ts[m]]
    BY <1>1, SMT
  <2> QED
    BY <1>11, <2>2, <2>3
<1> QED
  BY <1>13, <1>14, <1>15 DEF out

\* A plan is shaped into a plan, and is left alone when it has its declared shape.
LEMMA ShapedFacts ==
  ASSUME NEW decomposition \in Decomposition, NEW ts \in Plans
  PROVE  LET out == Shaped(decomposition, ts)
         IN  /\ out \in Plans /\ (Distinct(ts) => Distinct(out))
             /\ KnownDeps(ts) /\ WellShaped([decomposition |-> decomposition, tasks |-> ts])
                  => out = ts
<1> DEFINE ordered == ByPriority(ts)
           n == Len(ts)
<1>1. /\ n \in Nat \ {0} /\ DOMAIN ts = 1 .. n /\ \A i \in DOMAIN ts : ts[i] \in Task
  BY PlanFacts
<1>2. /\ ordered \in Plans /\ DOMAIN ordered = DOMAIN ts
      /\ Distinct(ts) => Distinct(ordered)
      /\ \A i \in DOMAIN ts : ordered[i] \in Task /\ ordered[i].key \in Nat
  BY ByPriorityPermutes, PlanFacts
<1> HIDE DEF ordered
<1>3. ASSUME NEW us \in Plans
      PROVE  NoDeps(us) \in Plans /\ (Distinct(us) => Distinct(NoDeps(us)))
  <2> DEFINE f == NoDeps(us)
  <2>1. \A i \in DOMAIN us : us[i] \in Task
    BY PlanFacts
  <2>2. f = [i \in DOMAIN us |-> [us[i] EXCEPT !.deps = <<>>]]
    BY DEF NoDeps
  <2>3. <<>> \in Seq(Nat)
    BY SMT
  <2> HIDE DEF f
  <2>4. \A i \in DOMAIN us : f[i] \in Task /\ f[i].key = us[i].key
    BY <2>1, <2>2, <2>3 DEF Task
  <2>5. f = [i \in DOMAIN us |-> f[i]]
    BY <2>2
  <2>6. f \in Plans /\ (Distinct(us) => Distinct(f))
    BY <2>4, <2>5, SameKeys
  <2> QED
    BY <2>6 DEF f
<1>4. ASSUME NEW f, NEW deps,
             f = [i \in DOMAIN ts |-> [ordered[i] EXCEPT !.deps = deps[i]]],
             \A i \in DOMAIN ts : deps[i] \in Seq(Nat)
      PROVE  f \in Plans /\ (Distinct(ts) => Distinct(f))
  <2>1. \A i \in DOMAIN ordered : f[i] \in Task /\ f[i].key = ordered[i].key
    BY <1>2, <1>4 DEF Task
  <2>2. f = [i \in DOMAIN ordered |-> f[i]]
    BY <1>2, <1>4
  <2> QED
    BY <1>2, <2>1, <2>2, SameKeys
<1> DEFINE p == [decomposition |-> decomposition, tasks |-> ts]
           out == Shaped(decomposition, ts)
           Goal == /\ out \in Plans /\ (Distinct(ts) => Distinct(out))
                   /\ KnownDeps(ts) /\ WellShaped(p) => out = ts
<1>5. CASE decomposition = "simple"
  <2>1. out = Cut(NoDeps(ordered), 1)
    BY <1>5 DEF Shaped, ordered
  <2>2. out \in Plans /\ (Distinct(ts) => Distinct(out))
    <3>1. NoDeps(ordered) \in Plans /\ (Distinct(ts) => Distinct(NoDeps(ordered)))
      BY <1>2, <1>3
    <3>2. 1 \in Nat \ {0}
      BY SMT
    <3> QED
      BY <2>1, <3>1, <3>2, CutFacts
  <2>3. ASSUME KnownDeps(ts), WellShaped(p) PROVE out = ts
    <3>1. n = 1
      BY <1>5, <2>3 DEF WellShaped
    <3>2. ordered = ts
      BY <3>1, ByPriorityPermutes DEF ordered
    <3>3. DOMAIN ts = {1} /\ ts[1] \in Task
      BY <1>1, <3>1, SMT
    <3>4. ts[1].deps = <<>>
      <4>1. ToSet(ts[1].deps) = {}
        BY <2>3, <3>3 DEF KnownDeps, Keys
      <4>2. ts[1].deps \in Seq(Nat)
        BY <3>3 DEF Task
      <4>3. DOMAIN ts[1].deps = {}
        BY <4>1 DEF ToSet
      <4> QED
        BY <4>2, <4>3, NoPlaces
    <3>5. [ts[1] EXCEPT !.deps = <<>>] = ts[1]
      BY <3>3, <3>4 DEF Task
    <3>6. NoDeps(ts) = ts
      <4>1. ts = [i \in DOMAIN ts |-> ts[i]]
        BY PlanFacts, SMT
      <4> QED
        BY <3>3, <3>5, <4>1 DEF NoDeps
    <3>7. 1 \in Nat \ {0} /\ n <= 1
      BY <3>1, SMT
    <3> QED
      BY <2>1, <3>2, <3>6, <3>7, CutFacts
  <2> QED
    BY <2>2, <2>3
<1>6. CASE decomposition = "parallel"
  <2>1. out = NoDeps(ts)
    BY <1>6 DEF Shaped
  <2>2. ASSUME WellShaped(p) PROVE out = ts
    <3>1. Independent(ts)
      BY <1>6, <2>2 DEF WellShaped
    <3>2. \A i \in DOMAIN ts : [ts[i] EXCEPT !.deps = <<>>] = ts[i]
      BY <1>1, <3>1 DEF Independent, Task
    <3>3. ts = [i \in DOMAIN ts |-> ts[i]]
      BY PlanFacts, SMT
    <3> QED
      BY <2>1, <3>2, <3>3 DEF NoDeps
  <2> QED
    BY <1>3, <2>1, <2>2
<1>7. CASE decomposition = "chain" /\ n >= 2 /\ Independent(ts)
  <2> DEFINE deps == [i \in DOMAIN ts |-> IF i = 1 THEN <<>> ELSE <<ordered[i - 1].key>>]
  <2>1. out = [i \in DOMAIN ts |-> [ordered[i] EXCEPT !.deps = deps[i]]]
    BY <1>7 DEF Shaped, ChainByPriority, ordered
  <2>2. \A i \in DOMAIN ts : deps[i] \in Seq(Nat)
    <3>1. ASSUME NEW i \in DOMAIN ts, i # 1 PROVE <<ordered[i - 1].key>> \in Seq(Nat)
      <4>1. i - 1 \in DOMAIN ts
        BY <1>1, <3>1, SMT
      <4>2. ordered[i - 1].key \in Nat
        BY <1>2, <4>1
      <4> QED
        BY <4>2
    <3>2. <<>> \in Seq(Nat)
      BY SMT
    <3> QED
      BY <3>1, <3>2
  <2> HIDE DEF deps
  <2>3. ~WellShaped(p)
    BY <1>7 DEF WellShaped
  <2> QED
    BY <1>4, <2>1, <2>2, <2>3
<1>8. CASE decomposition = "mixed" /\ n >= 3 /\ Independent(ts)
  <2> DEFINE deps == [i \in DOMAIN ts |-> IF i < n THEN <<>>
                                          ELSE [j \in 1 .. (n - 1) |-> ordered[j].key]]
  <2>1. out = [i \in DOMAIN ts |-> [ordered[i] EXCEPT !.deps = deps[i]]]
    BY <1>8 DEF Shaped, FanIn, ordered
  <2>2. \A i \in DOMAIN ts : deps[i] \in Seq(Nat)
    <3>1. \A j \in 1 .. (n - 1) : j \in DOMAIN ts
      BY <1>1, SMT
    <3>2. \A j \in 1 .. (n - 1) : ordered[j].key \in Nat
      BY <1>2, <3>1
    <3>3. n - 1 \in Nat
      BY <1>1, SMT
    <3>4. [j \in 1 .. (n - 1) |-> ordered[j].key] \in Seq(Nat)
      BY <3>2, <3>3, SMT
    <3>5. <<>> \in Seq(Nat)
      BY SMT
    <3> QED
      BY <3>4, <3>5
  <2> HIDE DEF deps
  <2>3. ~WellShaped(p)
    BY <1>8 DEF WellShaped
  <2> QED
    BY <1>4, <2>1, <2>2, <2>3
<1>9. CASE /\ decomposition # "simple" /\ decomposition # "parallel"
           /\ ~(decomposition = "chain" /\ n >= 2 /\ Independent(ts))
           /\ ~(decomposition = "mixed" /\ n >= 3 /\ Independent(ts))
  BY <1>9 DEF Shaped
<1>10. Goal
  BY <1>5, <1>6, <1>7, <1>8, <1>9
<1> QED
  BY <1>10

-----------------------------------------------------------------------------
(* Breaking cycles.                                                        *)

LEMMA TaskOfKey ==
  ASSUME NEW ts \in Plans, NEW k \in Keys(ts)
  PROVE  \E i \in DOMAIN ts : TaskOf(ts, k) = ts[i] /\ ts[i].key = k
<1> DEFINE n == Len(ts)
           T == {m \in Nat : \E i \in DOMAIN ts : ts[i].key = k /\ m = n - i}
           P(i) == ts[i].key = k /\ \A j \in DOMAIN ts : ts[j].key = k => j <= i
<1>1. n \in Nat /\ DOMAIN ts = 1 .. n
  BY PlanFacts
<1>2. \A i \in DOMAIN ts : n - i \in Nat /\ i \in Nat
  BY <1>1, SMT
<1>3. T # {}
  BY <1>2 DEF Keys
<1>4. PICK m \in T : \A y \in T : m <= y
  BY <1>3, Least
<1>5. PICK i \in DOMAIN ts : ts[i].key = k /\ m = n - i
  BY <1>4
<1>6. ASSUME NEW j \in DOMAIN ts, ts[j].key = k PROVE j <= i
  <2>1. n - i <= n - j
    BY <1>2, <1>4, <1>5, <1>6
  <2> QED
    BY <1>1, <1>2, <2>1, SMT
<1>7. \E i0 \in DOMAIN ts : P(i0)
  BY <1>5, <1>6
<1>8. TaskOf(ts, k) = ts[CHOOSE i0 \in DOMAIN ts : P(i0)]
  BY DEF TaskOf
<1> QED
  BY <1>7, <1>8

LEMMA ByKeyFacts ==
  ASSUME NEW ts \in Plans
  PROVE  ByKey(ts) \in Plans /\ Distinct(ByKey(ts))
<1> DEFINE first  == {i \in DOMAIN ts : \A j \in 1 .. (i - 1) : ts[j].key # ts[i].key}
           firsts == Keep(ts, first)
           rows   == ByKey(ts)
<1>1. /\ ts \in Seq(Task) /\ DOMAIN ts = 1 .. Len(ts) /\ Len(ts) \in Nat /\ 1 \in DOMAIN ts
      /\ \A i \in DOMAIN ts : ts[i] \in Task
  BY PlanFacts
<1>2. rows = [i \in DOMAIN firsts |-> TaskOf(ts, firsts[i].key)]
  BY DEF ByKey
<1>3. 1 \in DOMAIN ts \cap first
  <2>1. 1 .. (1 - 1) = {}
    BY SMT
  <2> QED
    BY <1>1, <2>1
<1>4. \A i, j \in first : ts[i].key = ts[j].key => i = j
  <2> SUFFICES ASSUME NEW i \in first, NEW j \in first, ts[i].key = ts[j].key, i # j PROVE FALSE
    OBVIOUS
  <2>1. i \in 1 .. (j - 1) \/ j \in 1 .. (i - 1)
    BY <1>1, SMT
  <2> QED
    BY <2>1
<1> HIDE DEF first
<1>5. firsts \in Plans
  BY <1>3, KeepTasks
<1>6. Distinct(firsts)
  <2>1. PICK pos : Picks(firsts, ts, pos, Len(ts), first)
    BY <1>1, KeepPlaces
  <2>2. DOMAIN firsts = 1 .. Len(firsts)
    BY <1>5, PlanFacts
  <2> HIDE DEF firsts
  <2>3. \A m \in DOMAIN firsts : pos[m] \in first /\ firsts[m] = ts[pos[m]]
    BY <2>1, <2>2 DEF Picks
  <2>4. \A l, m \in DOMAIN firsts : pos[l] = pos[m] => l = m
    BY <2>1, <2>2 DEF Picks
  <2> QED
    BY <1>4, <2>3, <2>4 DEF Distinct
<1>7. \A i \in DOMAIN firsts : firsts[i].key \in Keys(ts)
  BY <1>3, KeepTasks DEF Keys
<1> HIDE DEF firsts, rows
<1>8. \A i \in DOMAIN firsts : rows[i] \in Task /\ rows[i].key = firsts[i].key
  BY <1>1, <1>2, <1>7, TaskOfKey
<1>9. rows = [i \in DOMAIN firsts |-> rows[i]]
  BY <1>2
<1>10. rows \in Plans /\ Distinct(rows)
  BY <1>5, <1>6, <1>8, <1>9, SameKeys
<1> QED
  BY <1>10 DEF rows

\* The task that loses a dependency.
Chosen(ts, i) ==
  /\ ts[i].deps # <<>>
  /\ \A j \in DOMAIN ts : ts[j].deps # <<>> =>
       \/ ts[i].priority > ts[j].priority
       \/ ts[i].priority = ts[j].priority /\ i <= j

LEMMA OneIsChosen ==
  ASSUME NEW ts \in Plans, ~Independent(ts)
  PROVE  \E i \in DOMAIN ts : Chosen(ts, i)
<1> DEFINE n == Len(ts)
           Better(i, j) == \/ ts[i].priority > ts[j].priority
                           \/ ts[i].priority = ts[j].priority /\ i <= j
           T == {k \in 0 .. n : \/ \A j \in 1 .. k : ts[j].deps = <<>>
                                \/ \E i \in 1 .. k :
                                     /\ ts[i].deps # <<>>
                                     /\ \A j \in 1 .. k : ts[j].deps # <<>> => Better(i, j)}
<1>1. n \in Nat /\ DOMAIN ts = 1 .. n /\ \A i \in 1 .. n : ts[i] \in Task /\ ts[i].priority \in Nat
  BY PlanFacts DEF Task
<1>2. 0 \in T
  BY <1>1, SMT
<1>3. ASSUME NEW k \in 1 .. n, k - 1 \in T PROVE k \in T
  <2>1. k \in 0 .. n /\ k \in Nat /\ k \in 1 .. k
    BY <1>1, SMT
  <2>2. \A j \in 1 .. k : j # k => j \in 1 .. (k - 1)
    BY <1>1, SMT
  <2>3. \A j \in 1 .. (k - 1) : j \in 1 .. k /\ j <= k /\ j \in 1 .. n
    BY <1>1, SMT
  <2>4. CASE \A j \in 1 .. (k - 1) : ts[j].deps = <<>>
    <3>1. CASE ts[k].deps = <<>>
      BY <2>1, <2>2, <2>4, <3>1
    <3>2. CASE ts[k].deps # <<>>
      <4>1. Better(k, k)
        BY <1>1, <2>1, SMT
      <4>2. \A j \in 1 .. k : ts[j].deps # <<>> => Better(k, j)
        BY <2>2, <2>4, <4>1
      <4> QED
        BY <2>1, <3>2, <4>2
    <3> QED
      BY <3>1, <3>2
  <2>5. CASE \E i \in 1 .. (k - 1) :
               ts[i].deps # <<>> /\ \A j \in 1 .. (k - 1) : ts[j].deps # <<>> => Better(i, j)
    <3>1. PICK i \in 1 .. (k - 1) :
            ts[i].deps # <<>> /\ \A j \in 1 .. (k - 1) : ts[j].deps # <<>> => Better(i, j)
      BY <2>5
    <3>2. ts[i].priority \in Nat /\ ts[k].priority \in Nat /\ i \in Nat /\ i <= k /\ i \in 1 .. k
      BY <1>1, <2>3, SMT
    <3>3. CASE ts[k].deps = <<>> \/ Better(i, k)
      <4>1. \A j \in 1 .. k : ts[j].deps # <<>> => Better(i, j)
        BY <2>2, <3>1, <3>3
      <4> QED
        BY <2>1, <3>1, <3>2, <4>1
    <3>4. CASE ts[k].deps # <<>> /\ ~Better(i, k)
      <4>1. ts[k].priority > ts[i].priority
        BY <3>2, <3>4, SMT
      <4>2. ASSUME NEW j \in 1 .. k, ts[j].deps # <<>> PROVE Better(k, j)
        <5>1. CASE j = k
          BY <1>1, <2>1, <5>1, SMT
        <5>2. CASE j # k
          <6>1. j \in 1 .. (k - 1) /\ ts[j].priority \in Nat
            BY <1>1, <2>2, <2>3, <5>2
          <6>2. Better(i, j)
            BY <3>1, <4>2, <6>1
          <6> QED
            BY <3>2, <4>1, <6>1, <6>2, SMT
        <5> QED
          BY <5>1, <5>2
      <4> QED
        BY <2>1, <3>4, <4>2
    <3> QED
      BY <3>3, <3>4
  <2> QED
    BY <1>3, <2>4, <2>5
<1>4. \A k \in 0 .. n : k \in T
  <2> HIDE DEF T
  <2> QED
    BY <1>1, <1>2, <1>3, Induct
<1>5. n \in 0 .. n
  BY <1>1, SMT
<1>6. PICK i \in 1 .. n :
        ts[i].deps # <<>> /\ \A j \in 1 .. n : ts[j].deps # <<>> => Better(i, j)
  BY <1>1, <1>4, <1>5 DEF Independent
<1> QED
  BY <1>1, <1>6 DEF Chosen

LEMMA DropAnEdgeFacts ==
  ASSUME NEW ts \in Plans, ~Independent(ts)
  PROVE  DropAnEdge(ts) \in Plans /\ Distinct(DropAnEdge(ts))
<1> DEFINE dependent == {i \in DOMAIN ts : ts[i].deps # <<>>}
           chosen    == CHOOSE i \in dependent : \A j \in dependent :
                            \/ ts[i].priority > ts[j].priority
                            \/ ts[i].priority = ts[j].priority /\ i <= j
           pruned    == [ts[chosen] EXCEPT !.deps = Front(@)]
           rows      == ByKey(ts)
           out       == DropAnEdge(ts)
<1>1. out = [i \in DOMAIN rows |-> IF rows[i].key = pruned.key THEN pruned ELSE rows[i]]
  BY DEF DropAnEdge
<1>2. chosen \in DOMAIN ts /\ ts[chosen].deps # <<>>
  <2>1. \E i \in dependent : \A j \in dependent :
            \/ ts[i].priority > ts[j].priority
            \/ ts[i].priority = ts[j].priority /\ i <= j
    BY OneIsChosen DEF Chosen
  <2>2. chosen \in dependent
    BY <2>1
  <2> QED
    BY <2>2
<1>3. ts[chosen] \in Task
  BY <1>2, PlanFacts
<1>4. Front(ts[chosen].deps) \in Seq(Nat)
  <2> DEFINE deps == ts[chosen].deps
  <2>1. deps \in Seq(Nat) /\ deps # <<>>
    BY <1>2, <1>3 DEF Task
  <2> HIDE DEF deps
  <2>2. Len(deps) - 1 \in Nat /\ Front(deps) = SubSeq(deps, 1, Len(deps) - 1)
    BY <2>1, SMT DEF Front
  <2>3. SubSeq(deps, 1, Len(deps) - 1) \in Seq(Nat)
    BY <2>1, <2>2, SMT
  <2> QED
    BY <2>2, <2>3 DEF deps
<1> HIDE DEF chosen, dependent
<1>5. pruned \in Task
  BY <1>3, <1>4 DEF Task
<1>6. rows \in Plans /\ Distinct(rows) /\ \A i \in DOMAIN rows : rows[i] \in Task
  BY ByKeyFacts, PlanFacts
<1> HIDE DEF pruned, rows, out
<1>7. \A i \in DOMAIN rows : out[i] \in Task /\ out[i].key = rows[i].key
  BY <1>1, <1>5, <1>6
<1>8. out = [i \in DOMAIN rows |-> out[i]]
  BY <1>1
<1>9. out \in Plans /\ Distinct(out)
  BY <1>6, <1>7, <1>8, SameKeys
<1> QED
  BY <1>9 DEF out

-----------------------------------------------------------------------------
(* Cycle detection.                                                        *)

\* The pairs of a key and the keys being visited from which one is met again: those
\* that are met, and those with a dependency from which one is.
Visits(ts) == Keys(ts) \X SUBSET Keys(ts)

MetAt(ts, v, M) == \/ v[1] \in v[2]
                   \/ \E d \in ToSet(TaskOf(ts, v[1]).deps) : <<d, v[2] \cup {v[1]}>> \in M

MetFrom(ts, M) == {v \in Visits(ts) : MetAt(ts, v, M)}

Meets(ts, f) ==
  f = [v \in Visits(ts) |->
         \/ v[1] \in v[2]
         \/ \E d \in ToSet(TaskOf(ts, v[1]).deps) : f[<<d, v[2] \cup {v[1]}>>]]

LEMMA MeetsExists ==
  ASSUME NEW ts \in Plans, KnownDeps(ts)
  PROVE  /\ \E f : Meets(ts, f)
         /\ \A k \in Keys(ts) : ToSet(TaskOf(ts, k).deps) \subseteq Keys(ts) \ {k}
<1>1. \A k \in Keys(ts) : ToSet(TaskOf(ts, k).deps) \subseteq Keys(ts) \ {k}
  BY TaskOfKey DEF KnownDeps
<1> DEFINE M == {v \in Visits(ts) : \A P \in SUBSET Visits(ts) : MetFrom(ts, P) \subseteq P => v \in P}
<1>2. \A P, Q \in SUBSET Visits(ts) : P \subseteq Q => MetFrom(ts, P) \subseteq MetFrom(ts, Q)
  BY DEF MetFrom, MetAt
<1>3. M \in SUBSET Visits(ts) /\ \A P : MetFrom(ts, P) \in SUBSET Visits(ts)
  BY DEF MetFrom
<1>4. \A P \in SUBSET Visits(ts) : MetFrom(ts, P) \subseteq P => M \subseteq P
  OBVIOUS
<1>5. MetFrom(ts, M) \subseteq M
  <2>1. SUFFICES ASSUME NEW v \in MetFrom(ts, M),
                        NEW P \in SUBSET Visits(ts), MetFrom(ts, P) \subseteq P
                 PROVE  v \in P
    BY <1>3
  <2> HIDE DEF M
  <2> QED
    BY <1>2, <1>3, <1>4, <2>1
<1> HIDE DEF M
<1>6. MetFrom(ts, M) = M
  BY <1>2, <1>3, <1>4, <1>5
<1> DEFINE f == [v \in Visits(ts) |-> IF v \in M THEN TRUE ELSE FALSE]
<1>7. ASSUME NEW v \in Visits(ts)
      PROVE  f[v] = (\/ v[1] \in v[2]
                     \/ \E d \in ToSet(TaskOf(ts, v[1]).deps) : f[<<d, v[2] \cup {v[1]}>>])
  <2>1. \A d \in ToSet(TaskOf(ts, v[1]).deps) : <<d, v[2] \cup {v[1]}>> \in Visits(ts)
    BY <1>1 DEF Visits
  <2>2. v \in MetFrom(ts, M) <=> MetAt(ts, v, M)
    BY DEF MetFrom
  <2>3. v \in M <=> MetAt(ts, v, M)
    BY <1>6, <2>2
  <2>4. f[v] = IF v \in M THEN TRUE ELSE FALSE
    OBVIOUS
  <2>5. \A d \in ToSet(TaskOf(ts, v[1]).deps) :
          f[<<d, v[2] \cup {v[1]}>>] = IF <<d, v[2] \cup {v[1]}>> \in M THEN TRUE ELSE FALSE
    BY <2>1
  <2> HIDE DEF f
  <2>6. CASE v \in M
    <3>1. v[1] \in v[2] \/ \E d \in ToSet(TaskOf(ts, v[1]).deps) : f[<<d, v[2] \cup {v[1]}>>]
      BY <2>3, <2>5, <2>6, Zenon DEF MetAt
    <3> QED
      BY <2>4, <2>6, <3>1
  <2>7. CASE v \notin M
    <3>1. ~(v[1] \in v[2] \/ \E d \in ToSet(TaskOf(ts, v[1]).deps) : f[<<d, v[2] \cup {v[1]}>>])
      BY <2>3, <2>5, <2>7, Zenon DEF MetAt
    <3>2. f[v] = FALSE
      BY <2>4, <2>7
    <3> QED
      BY <3>1, <3>2, Zenon
  <2> QED
    BY <2>6, <2>7
<1>8. Meets(ts, f)
  BY <1>7 DEF Meets
<1> QED
  BY <1>1, <1>8

LEMMA MeetsAgainIffMet ==
  ASSUME NEW ts \in Plans, KnownDeps(ts)
  PROVE  \E M : /\ \A v \in Visits(ts) : v \in M <=> MetAt(ts, v, M)
                /\ \A k \in Keys(ts) : MeetsAgain(ts, k) <=> <<k, {}>> \in M
<1> DEFINE f == CHOOSE g : Meets(ts, g)
           M == {v \in Visits(ts) : f[v]}
<1>1. Meets(ts, f)
  BY MeetsExists
<1>2. ASSUME NEW k \in Keys(ts) PROVE MeetsAgain(ts, k) = f[<<k, {}>>]
  BY DEF MeetsAgain, Meets, Visits
<1> HIDE DEF f
<1>3. ASSUME NEW v \in Visits(ts) PROVE v \in M <=> MetAt(ts, v, M)
  <2>1. \A d \in ToSet(TaskOf(ts, v[1]).deps) : <<d, v[2] \cup {v[1]}>> \in Visits(ts)
    BY MeetsExists DEF Visits
  <2>2. f[v] = (\/ v[1] \in v[2]
                \/ \E d \in ToSet(TaskOf(ts, v[1]).deps) : f[<<d, v[2] \cup {v[1]}>>])
    BY <1>1 DEF Meets
  <2>3. f[v] <=> \/ v[1] \in v[2]
                 \/ \E d \in ToSet(TaskOf(ts, v[1]).deps) : f[<<d, v[2] \cup {v[1]}>>]
    BY <2>2, Zenon
  <2>4. \A w \in Visits(ts) : w \in M <=> f[w]
    OBVIOUS
  <2> HIDE DEF M
  <2> QED
    BY <2>1, <2>3, <2>4, Zenon DEF MetAt
<1>4. ASSUME NEW k \in Keys(ts) PROVE MeetsAgain(ts, k) <=> <<k, {}>> \in M
  <2>1. <<k, {}>> \in Visits(ts)
    BY DEF Visits
  <2>2. <<k, {}>> \in M <=> f[<<k, {}>>]
    BY <2>1
  <2> HIDE DEF M
  <2> QED
    BY <1>2, <2>2, Zenon
<1> HIDE DEF M
<1> QED
  BY <1>3, <1>4

LEMMA KeysFinite ==
  ASSUME NEW ts \in Plans
  PROVE  /\ IsFiniteSet(Keys(ts)) /\ Cardinality(Keys(ts)) \in Nat
         /\ Cardinality(Keys(ts)) <= Len(ts)
         /\ Cardinality(Keys(ts)) = Len(ts) <=> Distinct(ts)
<1> DEFINE keyOf == [i \in DOMAIN ts |-> ts[i].key]
<1>1. DOMAIN ts = 1 .. Len(ts) /\ Len(ts) \in Nat \ {0}
  BY PlanFacts
<1>2. IsFiniteSet(DOMAIN ts) /\ Cardinality(DOMAIN ts) = Len(ts)
  <2>1. Len(ts) >= 1 /\ 1 \in Int /\ Len(ts) \in Int
    BY <1>1, SMT
  <2>2. IsFiniteSet(1 .. Len(ts))
        /\ Cardinality(1 .. Len(ts)) = IF 1 > Len(ts) THEN 0 ELSE Len(ts) - 1 + 1
    BY <2>1, FS_Interval
  <2> QED
    BY <1>1, <2>1, <2>2, SMT
<1>3. keyOf \in Surjection(DOMAIN ts, Keys(ts))
  BY DEF Surjection, Keys
<1>4. keyOf \in Injection(DOMAIN ts, Keys(ts)) <=> Distinct(ts)
  BY DEF Injection, IsInjective, Keys, Distinct
<1> HIDE DEF keyOf
<1>5. /\ IsFiniteSet(Keys(ts)) /\ Cardinality(Keys(ts)) <= Cardinality(DOMAIN ts)
      /\ Cardinality(Keys(ts)) = Cardinality(DOMAIN ts) <=> keyOf \in Injection(DOMAIN ts, Keys(ts))
  BY <1>2, <1>3, FS_Surjection
<1> QED
  BY <1>2, <1>4, <1>5, FS_CardinalityType

\* Among any tasks, one waits for none of them.
Startable(ts) ==
  \A S \in SUBSET Keys(ts) :
    S # {} => \E i \in DOMAIN ts : ts[i].key \in S /\ ToSet(ts[i].deps) \cap S = {}

LEMMA ValidIsStartable ==
  ASSUME NEW ts \in Plans, Valid(ts)
  PROVE  Startable(ts)
<1> SUFFICES ASSUME NEW S \in SUBSET Keys(ts), S # {},
                    \A i \in DOMAIN ts : ts[i].key \in S => ToSet(ts[i].deps) \cap S # {}
             PROVE  FALSE
  BY DEF Startable
<1>1. KnownDeps(ts) /\ \A k \in Keys(ts) : ~MeetsAgain(ts, k)
  BY DEF Valid
<1>2. PICK M : /\ \A v \in Visits(ts) : v \in M <=> MetAt(ts, v, M)
               /\ \A k \in Keys(ts) : MeetsAgain(ts, k) <=> <<k, {}>> \in M
  BY <1>1, MeetsAgainIffMet
<1>3. \A k \in S : \E d \in S : d \in ToSet(TaskOf(ts, k).deps)
  <2> SUFFICES ASSUME NEW k \in S PROVE \E d \in S : d \in ToSet(TaskOf(ts, k).deps)
    OBVIOUS
  <2>1. PICK i \in DOMAIN ts : TaskOf(ts, k) = ts[i] /\ ts[i].key = k
    BY TaskOfKey
  <2> QED
    BY <2>1
<1>4. IsFiniteSet(S)
  BY KeysFinite, FS_Subset
<1> DEFINE T == {m \in Nat : \E k \in S, V \in SUBSET S :
                               <<k, V>> \notin M /\ m = Cardinality(S \ V)}
<1>5. \A V \in SUBSET S : IsFiniteSet(S \ V) /\ Cardinality(S \ V) \in Nat
  <2>1. \A V \in SUBSET S : (S \ V) \in SUBSET S
    OBVIOUS
  <2> QED
    BY <1>4, <2>1, FS_Subset, FS_CardinalityType
<1>6. T # {}
  <2>1. PICK k \in S : TRUE
    OBVIOUS
  <2>2. {} \in SUBSET S /\ <<k, {}>> \notin M
    BY <1>1, <1>2
  <2> QED
    BY <1>5, <2>2
<1>7. PICK m \in T : \A y \in T : m <= y
  BY <1>6, Least
<1>8. PICK k \in S, V \in SUBSET S : <<k, V>> \notin M /\ m = Cardinality(S \ V)
  BY <1>7
<1>9. <<k, V>> \in Visits(ts)
  BY DEF Visits
<1>10. ~MetAt(ts, <<k, V>>, M)
  BY <1>2, <1>8, <1>9
<1>11. k \notin V /\ \A d \in ToSet(TaskOf(ts, k).deps) : <<d, V \cup {k}>> \notin M
  BY <1>10 DEF MetAt
<1>12. PICK d \in S : d \in ToSet(TaskOf(ts, k).deps)
  BY <1>3
<1> DEFINE W == V \cup {k}
<1>13. W \in SUBSET S /\ <<d, W>> \notin M
  BY <1>11, <1>12
<1>14. Cardinality(S \ W) = m - 1
  <2>1. S \ W = (S \ V) \ {k} /\ k \in S \ V
    BY <1>11
  <2>2. Cardinality((S \ V) \ {k}) = Cardinality(S \ V) - 1
    <3> DEFINE R == S \ V
    <3>1. IsFiniteSet(R) /\ k \in R
      BY <1>5, <2>1
    <3> HIDE DEF R
    <3>2. Cardinality(R \ {k}) = Cardinality(R) - 1
      BY <3>1, FS_RemoveElement
    <3> QED
      BY <3>2 DEF R
  <2> QED
    BY <1>8, <2>1, <2>2
<1> HIDE DEF W
<1>15. m - 1 \in T
  BY <1>5, <1>13, <1>14
<1>16. m \in Nat /\ m <= m - 1
  BY <1>7, <1>15
<1> QED
  BY <1>16, SMT

LEMMA IndependentIsValid ==
  ASSUME NEW ts \in Plans, Independent(ts)
  PROVE  Valid(ts) /\ Startable(ts)
<1>1. \A i \in DOMAIN ts : ToSet(ts[i].deps) = {}
  BY SMT DEF Independent, ToSet
<1>2. KnownDeps(ts)
  BY <1>1 DEF KnownDeps
<1>3. PICK M : /\ \A v \in Visits(ts) : v \in M <=> MetAt(ts, v, M)
               /\ \A k \in Keys(ts) : MeetsAgain(ts, k) <=> <<k, {}>> \in M
  BY <1>2, MeetsAgainIffMet
<1>4. ASSUME NEW k \in Keys(ts) PROVE ~MeetsAgain(ts, k)
  <2>1. ToSet(TaskOf(ts, k).deps) = {} /\ <<k, {}>> \in Visits(ts)
    BY <1>1, TaskOfKey DEF Visits
  <2>2. ~MetAt(ts, <<k, {}>>, M)
    BY <2>1 DEF MetAt
  <2> QED
    BY <1>3, <2>1, <2>2
<1>5. Valid(ts)
  BY <1>2, <1>4 DEF Valid
<1> QED
  BY <1>5, ValidIsStartable

\* An order of the tasks after their dependencies leaves no way back to a task.
LEMMA ExecutableIsValid ==
  ASSUME NEW ts \in Plans, Distinct(ts), Executable(ts)
  PROVE  Valid(ts)
<1>1. PICK order \in [Keys(ts) -> 1 .. Len(ts)] :
        \A i \in DOMAIN ts : \A d \in ToSet(ts[i].deps) :
          d \in Keys(ts) /\ order[d] < order[ts[i].key]
  BY DEF Executable
<1>2. \A k \in Keys(ts) : order[k] \in Nat
  <2>1. Len(ts) \in Nat
    BY PlanFacts
  <2>2. \A m \in 1 .. Len(ts) : m \in Nat
    BY <2>1, SMT
  <2> QED
    BY <2>2
<1>3. \A k \in Keys(ts) : \A d \in ToSet(TaskOf(ts, k).deps) :
        d \in Keys(ts) /\ order[d] < order[k]
  BY <1>1, TaskOfKey
<1>4. KnownDeps(ts)
  <2> SUFFICES ASSUME NEW i \in DOMAIN ts, NEW d \in ToSet(ts[i].deps)
               PROVE  d \in Keys(ts) /\ d # ts[i].key
    BY DEF KnownDeps
  <2>1. d \in Keys(ts) /\ order[d] < order[ts[i].key] /\ order[d] \in Nat
    BY <1>1, <1>2
  <2> QED
    BY <2>1, SMT
<1>5. PICK M : /\ \A v \in Visits(ts) : v \in M <=> MetAt(ts, v, M)
               /\ \A k \in Keys(ts) : MeetsAgain(ts, k) <=> <<k, {}>> \in M
  BY <1>4, MeetsAgainIffMet
<1> DEFINE Later(k, V) == \A v \in V : order[k] < order[v]
           T == {m \in Nat : \E k \in Keys(ts), V \in SUBSET Keys(ts) :
                               Later(k, V) /\ <<k, V>> \in M /\ m = order[k]}
<1>6. SUFFICES ASSUME T # {} PROVE FALSE
  <2>1. ASSUME NEW k \in Keys(ts), MeetsAgain(ts, k) PROVE FALSE
    <3>1. {} \in SUBSET Keys(ts) /\ Later(k, {}) /\ <<k, {}>> \in M
      BY <1>5, <2>1
    <3>2. order[k] \in T
      BY <1>2, <3>1
    <3> QED
      BY <1>6, <3>2
  <2> QED
    BY <1>4, <2>1 DEF Valid
<1>7. PICK m \in T : \A y \in T : m <= y
  BY <1>6, Least
<1>8. PICK k \in Keys(ts), V \in SUBSET Keys(ts) :
        Later(k, V) /\ <<k, V>> \in M /\ m = order[k]
  BY <1>7
<1>9. MetAt(ts, <<k, V>>, M)
  <2>1. <<k, V>> \in Visits(ts)
    BY DEF Visits
  <2> QED
    BY <1>5, <1>8, <2>1
<1>10. k \notin V
  BY <1>2, <1>8, SMT
<1>11. PICK d \in ToSet(TaskOf(ts, k).deps) : <<d, V \cup {k}>> \in M
  BY <1>9, <1>10 DEF MetAt
<1>12. d \in Keys(ts) /\ order[d] < order[k] /\ order[d] \in Nat /\ order[k] \in Nat
  BY <1>2, <1>3
<1> DEFINE W == V \cup {k}
<1>13. ASSUME NEW v \in W PROVE order[d] < order[v]
  <2>1. v \in Keys(ts) /\ order[v] \in Nat
    BY <1>2
  <2>2. v = k \/ order[k] < order[v]
    BY <1>8
  <2> QED
    BY <1>12, <2>1, <2>2, SMT
<1>14. W \in SUBSET Keys(ts) /\ Later(d, W) /\ <<d, W>> \in M
  BY <1>11, <1>13
<1> HIDE DEF Later, W
<1>15. order[d] \in T
  BY <1>12, <1>14
<1> HIDE DEF T
<1>16. order[k] <= order[d]
  BY <1>7, <1>8, <1>15
<1> QED
  BY <1>12, <1>16, SMT

\* Tasks that can be started, one after the other, can be ordered: a largest set of
\* tasks that can be ordered, with all they depend on, leaves none to start.
Orders(ts, A, order) ==
  /\ order \in [A -> 1 .. Cardinality(A)]
  /\ \A i \in DOMAIN ts : ts[i].key \in A =>
       \A d \in ToSet(ts[i].deps) : d \in A /\ order[d] < order[ts[i].key]

LEMMA OrderOneMore ==
  ASSUME NEW ts \in Plans, Distinct(ts), NEW A \in SUBSET Keys(ts), NEW order,
         Orders(ts, A, order),
         NEW i \in DOMAIN ts, ts[i].key \notin A, ToSet(ts[i].deps) \subseteq A
  PROVE  /\ \E o : Orders(ts, A \cup {ts[i].key}, o)
         /\ Cardinality(A \cup {ts[i].key}) = Cardinality(A) + 1
         /\ Cardinality(A) \in Nat
<1> DEFINE k == ts[i].key
           B == A \cup {k}
           n == Cardinality(A)
           o == [a \in B |-> IF a = k THEN n + 1 ELSE order[a]]
<1>1. IsFiniteSet(A) /\ n \in Nat
  BY KeysFinite, FS_Subset, FS_CardinalityType
<1>2. Cardinality(B) = n + 1
  BY <1>1, FS_AddElement
<1>3. \A a \in A : order[a] \in 1 .. n /\ a # k
  BY DEF Orders
<1>4. n + 1 \in 1 .. (n + 1) /\ \A m \in 1 .. n : m \in 1 .. (n + 1) /\ m < n + 1
  BY <1>1, SMT
<1>5. o \in [B -> 1 .. (n + 1)]
  BY <1>3, <1>4
<1>6. o[k] = n + 1 /\ \A a \in A : o[a] = order[a] /\ o[a] < n + 1
  BY <1>3, <1>4
<1> HIDE DEF o, n
<1>7. ASSUME NEW j \in DOMAIN ts, ts[j].key \in B, NEW d \in ToSet(ts[j].deps)
      PROVE  d \in B /\ o[d] < o[ts[j].key]
  <2>1. CASE ts[j].key = k
    <3>1. j = i
      BY <2>1 DEF Distinct
    <3>2. d \in A
      BY <3>1
    <3> QED
      BY <1>6, <2>1, <3>2
  <2>2. CASE ts[j].key # k
    <3>1. ts[j].key \in A /\ d \in A /\ order[d] < order[ts[j].key]
      BY <1>7, <2>2 DEF Orders
    <3> QED
      BY <1>6, <3>1
  <2> QED
    BY <2>1, <2>2
<1>8. Orders(ts, B, o)
  BY <1>2, <1>5, <1>7 DEF Orders
<1> QED
  BY <1>1, <1>2, <1>8 DEF n

LEMMA StartableIsExecutable ==
  ASSUME NEW ts \in Plans, Distinct(ts), Startable(ts),
         \A i \in DOMAIN ts : ToSet(ts[i].deps) \subseteq Keys(ts)
  PROVE  Executable(ts)
<1> DEFINE K == Keys(ts)
           T == {m \in Nat : \E A \in SUBSET K : \E o : Orders(ts, A, o) /\ m = Cardinality(K \ A)}
<1>1. IsFiniteSet(K) /\ \A A \in SUBSET K : IsFiniteSet(K \ A) /\ Cardinality(K \ A) \in Nat
  <2>1. \A A \in SUBSET K : (K \ A) \in SUBSET K
    OBVIOUS
  <2> QED
    BY <2>1, KeysFinite, FS_Subset, FS_CardinalityType
<1>2. T # {}
  <2> DEFINE e == [a \in {} |-> 0]
  <2>1. {} \in SUBSET K /\ Orders(ts, {}, e)
    BY DEF Orders
  <2> HIDE DEF e
  <2> QED
    BY <1>1, <2>1
<1>3. PICK m \in T : \A y \in T : m <= y
  BY <1>2, Least
<1>4. PICK A \in SUBSET K : \E o : Orders(ts, A, o) /\ m = Cardinality(K \ A)
  BY <1>3
<1>5. PICK o : Orders(ts, A, o) /\ m = Cardinality(K \ A)
  BY <1>4
<1>6. A = K
  <2> SUFFICES ASSUME A # K PROVE FALSE
    OBVIOUS
  <2>1. PICK i \in DOMAIN ts : ts[i].key \in K \ A /\ ToSet(ts[i].deps) \cap (K \ A) = {}
    BY DEF Startable
  <2>2. ToSet(ts[i].deps) \subseteq A /\ ts[i].key \notin A
    BY <2>1
  <2> DEFINE B == A \cup {ts[i].key}
  <2>3. B \in SUBSET K /\ \E p : Orders(ts, B, p)
    BY <1>5, <2>1, <2>2, OrderOneMore
  <2>4. Cardinality(K \ B) = m - 1
    <3> DEFINE R == K \ A
               k == ts[i].key
    <3>1. K \ B = R \ {k} /\ k \in R /\ IsFiniteSet(R)
      BY <1>1, <2>1
    <3>2. Cardinality(R) = m
      BY <1>5
    <3> HIDE DEF R, B, k
    <3>3. Cardinality(R \ {k}) = Cardinality(R) - 1
      BY <3>1, FS_RemoveElement
    <3> QED
      BY <3>1, <3>2, <3>3
  <2> HIDE DEF B
  <2>5. m - 1 \in T
    BY <1>1, <2>3, <2>4
  <2>6. m \in Nat /\ m <= m - 1
    BY <1>3, <2>5
  <2> QED
    BY <2>6, SMT
<1>7. o \in [K -> 1 .. Cardinality(K)]
      /\ \A i \in DOMAIN ts : \A d \in ToSet(ts[i].deps) : d \in K /\ o[d] < o[ts[i].key]
  BY <1>5, <1>6 DEF Orders, Keys
<1>8. o \in [K -> 1 .. Len(ts)]
  <2>1. Cardinality(K) \in Nat /\ Cardinality(K) <= Len(ts) /\ Len(ts) \in Nat
    BY KeysFinite, PlanFacts
  <2>2. \A m0 \in 1 .. Cardinality(K) : m0 \in 1 .. Len(ts)
    BY <2>1, SMT
  <2> QED
    BY <1>7, <2>2
<1> QED
  BY <1>7, <1>8 DEF Executable

-----------------------------------------------------------------------------
(* The repair, the trimming and the plan phase.                            *)

LEMMA AttemptsFacts ==
  ASSUME NEW ts \in Plans
  PROVE  /\ Attempts(ts) \in Plans /\ (Distinct(ts) => Distinct(Attempts(ts)))
         /\ Valid(ts) => Attempts(ts) = ts
<1> DEFINE n == Len(ts)
           Step(last) == IF Valid(last) THEN last ELSE DropAnEdge(last)
           F == [a \in Plans \X (1 .. n) |-> Step(a[1])]
           Defines(g) == g = [i \in 0 .. n |-> IF i = 0 THEN ts ELSE Step(g[i - 1])]
           f == CHOOSE g : Defines(g)
<1>1. n \in Nat
  BY PlanFacts
<1>2. /\ 0 \in 0 .. n /\ n \in 0 .. n
      /\ \A i \in 1 .. n : i \in 0 .. n /\ i - 1 \in 0 .. n /\ i # 0
      /\ \A i \in 0 .. n : i # 0 => i \in 1 .. n
  BY <1>1, SMT
<1>3. Attempts(ts) = f[n]
  BY DEF Attempts
<1>4. \A last \in Plans : /\ Step(last) \in Plans
                          /\ Distinct(last) => Distinct(Step(last))
                          /\ Valid(last) => Step(last) = last
  BY DropAnEdgeFacts, IndependentIsValid
<1> HIDE DEF Step
<1>5. /\ F \in [Plans \X (1 .. n) -> Plans]
      /\ \A a \in Plans, i \in 1 .. n : F[<<a, i>>] = Step(a)
  BY <1>4
<1> HIDE DEF F, n
<1>6. PICK g \in [0 .. n -> Plans] : Follows(g, ts, F, n)
  BY <1>1, <1>5, Recursion
<1>7. Defines(g)
  <2>1. \A i \in 1 .. n : g[i] = Step(g[i - 1])
    BY <1>2, <1>5, <1>6 DEF Follows
  <2>2. \A i \in 0 .. n : g[i] = IF i = 0 THEN ts ELSE Step(g[i - 1])
    BY <1>2, <1>6, <2>1 DEF Follows
  <2>3. g = [i \in 0 .. n |-> g[i]]
    BY <1>6
  <2> QED
    BY <2>2, <2>3
<1>8. Defines(f)
  BY <1>7
<1> HIDE DEF f
<1>9. f[0] = ts /\ \A i \in 1 .. n : f[i] = Step(f[i - 1])
  BY <1>2, <1>8
<1> HIDE DEF Defines
<1> DEFINE T == {i \in 0 .. n : /\ f[i] \in Plans /\ (Distinct(ts) => Distinct(f[i]))
                                /\ Valid(ts) => f[i] = ts}
<1>10. 0 \in T
  BY <1>2, <1>9
<1>11. ASSUME NEW i \in 1 .. n, i - 1 \in T PROVE i \in T
  <2>1. f[i - 1] \in Plans /\ (Distinct(ts) => Distinct(f[i - 1])) /\ (Valid(ts) => f[i - 1] = ts)
    BY <1>11
  <2>2. f[i] = Step(f[i - 1])
    BY <1>9
  <2> QED
    BY <1>2, <1>4, <2>1, <2>2
<1>12. n \in T
  <2> HIDE DEF T
  <2>1. \A i \in 0 .. n : i \in T
    BY <1>1, <1>10, <1>11, Induct
  <2> QED
    BY <1>2, <2>1
<1> QED
  BY <1>3, <1>12

\* What is written: its dependencies exist, and its tasks can be started.
Sound(ts) == ts \in Plans /\ KnownDeps(ts) /\ Startable(ts)

LEMMA BreakCyclesFacts ==
  ASSUME NEW ts \in Plans
  PROVE  /\ Sound(BreakCycles(ts)) /\ (Distinct(ts) => Distinct(BreakCycles(ts)))
         /\ Valid(ts) => BreakCycles(ts) = ts
<1> DEFINE pruned == Attempts(ts)
<1>1. /\ pruned \in Plans /\ (Distinct(ts) => Distinct(pruned))
      /\ Valid(ts) => pruned = ts
  BY AttemptsFacts
<1> HIDE DEF pruned
<1>2. CASE Valid(pruned)
  <2>1. BreakCycles(ts) = pruned
    BY <1>2 DEF BreakCycles, pruned
  <2>2. Sound(pruned)
    BY <1>1, <1>2, ValidIsStartable DEF Sound, Valid
  <2> QED
    BY <1>1, <2>1, <2>2
<1>3. CASE ~Valid(pruned)
  <2> DEFINE us == DropAnEdge(pruned)
             out == NoDeps(us)
  <2>1. BreakCycles(ts) = out
    BY <1>3 DEF BreakCycles, pruned
  <2>2. us \in Plans /\ Distinct(us)
    BY <1>1, <1>3, DropAnEdgeFacts, IndependentIsValid
  <2> HIDE DEF us
  <2>3. out = [i \in DOMAIN us |-> [us[i] EXCEPT !.deps = <<>>]]
    BY DEF NoDeps
  <2>4. \A i \in DOMAIN us : us[i] \in Task
    BY <2>2, PlanFacts
  <2> HIDE DEF out
  <2>5. \A i \in DOMAIN us : out[i] \in Task /\ out[i].key = us[i].key /\ out[i].deps = <<>>
    <3>1. <<>> \in Seq(Nat)
      BY SMT
    <3> QED
      BY <2>3, <2>4, <3>1 DEF Task
  <2>6. out = [i \in DOMAIN us |-> out[i]]
    BY <2>3
  <2>7. out \in Plans /\ Distinct(out) /\ DOMAIN out = DOMAIN us
    BY <2>2, <2>5, <2>6, SameKeys
  <2>8. Independent(out)
    BY <2>5, <2>7 DEF Independent
  <2>9. Sound(out)
    BY <2>7, <2>8, IndependentIsValid DEF Sound, Valid
  <2>10. Valid(ts) => FALSE
    BY <1>1, <1>3
  <2> QED
    BY <2>1, <2>7, <2>9, <2>10
<1> QED
  BY <1>2, <1>3

Typed(p) == p.decomposition \in Decomposition /\ p.tasks \in Plans
            /\ p = [decomposition |-> p.decomposition, tasks |-> p.tasks]

\* A plan with tasks is repaired into a sound one, and a sound one is kept.
LEMMA RepairedFacts ==
  ASSUME NEW p, Typed(p)
  PROVE  /\ Typed(Repaired(p)) /\ Sound(Repaired(p).tasks)
         /\ Distinct(p.tasks) => Distinct(Repaired(p).tasks)
         /\ WellFormed(p) => Repaired(p) = p
<1> DEFINE ts    == p.tasks
           clean == DropUnknownAndSelfDeps(DedupeObjectives(EnsureKeys(ts)))
           shaped == Shaped(p.decomposition, clean)
           known == DropUnknownAndSelfDeps(shaped)
           out   == BreakCycles(known)
<1>1. ts \in Plans /\ p.decomposition \in Decomposition
      /\ p = [decomposition |-> p.decomposition, tasks |-> ts]
  BY DEF Typed
<1>2. clean \in Plans /\ (Distinct(ts) => Distinct(clean))
  <2>1. EnsureKeys(ts) \in Plans /\ (Distinct(ts) => Distinct(EnsureKeys(ts)))
    BY <1>1, EnsureKeysFacts
  <2>2. DedupeObjectives(EnsureKeys(ts)) \in Plans
        /\ (Distinct(ts) => Distinct(DedupeObjectives(EnsureKeys(ts))))
    BY <2>1, DedupeFacts
  <2> QED
    BY <2>2, DropFacts
<1>3. shaped \in Plans /\ (Distinct(ts) => Distinct(shaped))
  <2> HIDE DEF clean
  <2> QED
    BY <1>1, <1>2, ShapedFacts
<1>4. known \in Plans /\ (Distinct(ts) => Distinct(known))
  <2> HIDE DEF shaped
  <2> QED
    BY <1>3, DropFacts
<1>5. Sound(out) /\ (Distinct(ts) => Distinct(out))
  <2> HIDE DEF known
  <2> QED
    BY <1>4, BreakCyclesFacts
<1>6. Repaired(p) = [p EXCEPT !.tasks = out]
  BY DEF Repaired
<1>7. ASSUME WellFormed(p) PROVE out = ts
  <2>1. Distinct(ts)
    BY <1>1, <1>7, KeysFinite DEF WellFormed
  <2>2. DistinctGoals(ts)
    <3> DEFINE goals == {ts[i].goal : i \in DOMAIN ts}
               goalOf == [i \in DOMAIN ts |-> ts[i].goal]
    <3>1. DOMAIN ts = 1 .. Len(ts) /\ Len(ts) \in Nat \ {0}
      BY <1>1, PlanFacts
    <3>2. Len(ts) >= 1 /\ 1 \in Int /\ Len(ts) \in Int
      BY <3>1, SMT
    <3>3. IsFiniteSet(1 .. Len(ts))
          /\ Cardinality(1 .. Len(ts)) = IF 1 > Len(ts) THEN 0 ELSE Len(ts) - 1 + 1
      BY <3>2, FS_Interval
    <3>4. IsFiniteSet(DOMAIN ts) /\ Cardinality(DOMAIN ts) = Len(ts)
      BY <3>1, <3>2, <3>3, SMT
    <3>5. Cardinality(goals) = Len(ts)
      BY <1>7 DEF WellFormed
    <3>6. goalOf \in Surjection(DOMAIN ts, goals)
      BY DEF Surjection
    <3> HIDE DEF goals, goalOf
    <3>7. goalOf \in Injection(DOMAIN ts, goals)
      BY <3>4, <3>5, <3>6, FS_Surjection
    <3> QED
      BY <3>7 DEF Injection, IsInjective, DistinctGoals, goalOf
  <2>3. Valid(ts)
    BY <1>1, <1>7, <2>1, ExecutableIsValid DEF WellFormed
  <2>4. KnownDeps(ts) /\ WellShaped([decomposition |-> p.decomposition, tasks |-> ts])
    BY <1>1, <1>7, <2>3 DEF WellFormed, Valid
  <2>5. clean = ts
    BY <1>1, <2>1, <2>2, <2>4, EnsureKeysFacts, DedupeFacts, DropFacts
  <2>6. shaped = ts
    BY <1>1, <2>4, <2>5, ShapedFacts
  <2>7. known = ts
    BY <1>1, <2>4, <2>6, DropFacts
  <2> QED
    BY <1>1, <2>3, <2>7, BreakCyclesFacts
<1> HIDE DEF out
<1>8. Repaired(p) = [decomposition |-> p.decomposition, tasks |-> out]
  BY <1>1, <1>6
<1>9. Typed(Repaired(p)) /\ Repaired(p).tasks = out
  BY <1>1, <1>5, <1>8 DEF Typed, Sound
<1> QED
  BY <1>1, <1>5, <1>7, <1>8, <1>9

\* Trimmed to a mode, a sound plan keeps a task; no task depends on one that is gone,
\* and without repeated keys they can still be ordered.
LEMMA TrimmedFacts ==
  ASSUME NEW ts, Sound(ts), NEW cap \in Nat \ {0}
  PROVE  LET out == Trimmed(ts, cap)
         IN  out \in Plans /\ (Distinct(ts) => Distinct(out) /\ Executable(out))
<1> DEFINE dependedOn == UNION {ToSet(ts[i].deps) : i \in DOMAIN ts}
           places   == {i \in DOMAIN ts : Len(ts[i].deps) < 2 \/ ts[i].key \in dependedOn}
           research == Keep(ts, places)
           kept     == Cut(research, cap)
           out      == Trimmed(ts, cap)
<1>1. /\ ts \in Plans /\ KnownDeps(ts) /\ Startable(ts)
      /\ 1 \in DOMAIN ts /\ \A i \in DOMAIN ts : ts[i].deps \in Seq(Nat)
  BY PlanFacts DEF Sound
<1>2. DOMAIN ts \cap places # {}
  <2>1. CASE 1 \in places
    BY <1>1, <2>1
  <2>2. CASE 1 \notin places
    <3>1. ~(Len(ts[1].deps) < 2)
      BY <1>1, <2>2
    <3> DEFINE deps == ts[1].deps
    <3>2. deps \in Seq(Nat) /\ ~(Len(deps) < 2)
      BY <1>1, <3>1
    <3> HIDE DEF deps
    <3>3. 1 \in DOMAIN deps
      BY <3>2, SMT
    <3>4. deps[1] \in ToSet(ts[1].deps)
      BY <3>3 DEF ToSet, deps
    <3>5. PICK i \in DOMAIN ts : ts[i].key = deps[1]
      BY <1>1, <3>4 DEF KnownDeps, Keys
    <3>6. ts[i].key \in dependedOn
      BY <1>1, <3>4, <3>5
    <3> QED
      BY <3>6
  <2> QED
    BY <2>1, <2>2
<1> HIDE DEF places
<1>3. /\ research \in Plans /\ (Distinct(ts) => Distinct(research))
      /\ \A m \in DOMAIN research : \E i \in DOMAIN ts : research[m] = ts[i]
  BY <1>1, <1>2, KeepTasks
<1> HIDE DEF research
<1>4. /\ kept \in Plans /\ (Distinct(ts) => Distinct(kept))
      /\ \A m \in DOMAIN kept : m \in DOMAIN research /\ kept[m] = research[m]
  BY <1>3, CutFacts
<1>5. out = [i \in DOMAIN kept |-> WithDeps(kept[i], Keys(kept))]
  BY DEF Trimmed, kept, research, places
<1> HIDE DEF kept, out
<1>6. \A m \in DOMAIN kept : kept[m] \in Task /\ \E i \in DOMAIN ts : kept[m] = ts[i]
  BY <1>3, <1>4, PlanFacts
<1>7. \A m \in DOMAIN kept :
        /\ out[m] \in Task /\ out[m].key = kept[m].key
        /\ ToSet(out[m].deps) = ToSet(kept[m].deps) \cap Keys(kept)
  BY <1>5, <1>6, WithDepsKeeps
<1>8. out = [i \in DOMAIN kept |-> out[i]]
  BY <1>5
<1>9. /\ out \in Plans /\ DOMAIN out = DOMAIN kept /\ Keys(out) = Keys(kept)
      /\ Distinct(kept) => Distinct(out)
  BY <1>4, <1>7, <1>8, SameKeys
<1>10. ASSUME Distinct(ts) PROVE Executable(out)
  <2>1. Startable(out)
    <3> SUFFICES ASSUME NEW S \in SUBSET Keys(out), S # {}
                 PROVE  \E m \in DOMAIN out : out[m].key \in S /\ ToSet(out[m].deps) \cap S = {}
      BY DEF Startable
    <3>1. \A k \in S : \E m \in DOMAIN kept : kept[m].key = k
      BY <1>9 DEF Keys
    <3>2. S \in SUBSET Keys(ts)
      BY <1>6, <3>1 DEF Keys
    <3>3. PICK i \in DOMAIN ts : ts[i].key \in S /\ ToSet(ts[i].deps) \cap S = {}
      BY <1>1, <3>2 DEF Startable
    <3>4. PICK m \in DOMAIN kept : kept[m].key = ts[i].key
      BY <3>1, <3>3
    <3>5. kept[m] = ts[i]
      BY <1>6, <1>10, <3>4 DEF Distinct
    <3> QED
      BY <1>7, <1>9, <3>3, <3>5
  <2>2. \A m \in DOMAIN out : ToSet(out[m].deps) \subseteq Keys(out)
    BY <1>7, <1>9
  <2>3. Distinct(out)
    BY <1>4, <1>9, <1>10
  <2> QED
    BY <1>9, <2>1, <2>2, <2>3, StartableIsExecutable
<1> QED
  BY <1>4, <1>9, <1>10 DEF out

\* What each stage leaves: a plan whose keys are distinct if the submitted ones are;
\* from the second repair on a sound one; and the submitted plan itself, if that was
\* well formed and was not cut.
PlanInv ==
  /\ Typed(submitted) /\ Typed(plan) /\ taskCap \in Nat
  /\ stage = "drafted" => plan = submitted
  /\ Distinct(submitted.tasks) => Distinct(plan.tasks)
  /\ stage \in {"validated", "repaired"} /\ WellFormed(submitted) => plan = submitted
  /\ stage \in {"cut", "written"} /\ WellFormed(submitted) /\ Len(submitted.tasks) <= taskCap
       => plan = submitted
  /\ stage = "written" => Sound(plan.tasks)
  /\ stage = "stored" /\ Distinct(submitted.tasks) => Executable(plan.tasks)

LEMMA AnsweredTyped ==
  ASSUME NEW p \in Draft \cup Correction
  PROVE  Typed(p)
  BY DraftsArePlans DEF Typed, Plans

LEMMA PlanInvInit == Init => PlanInv
<1> SUFFICES ASSUME Init PROVE PlanInv
  OBVIOUS
<1>1. Typed(plan) /\ plan = submitted /\ taskCap = 0 /\ stage = "drafted"
  BY AnsweredTyped DEF Init
<1>2. 0 \in Nat
  BY SMT
<1> QED
  BY <1>1, <1>2 DEF PlanInv

LEMMA PlanInvNext == PlanInv /\ [Next]_vars => PlanInv'
<1> SUFFICES ASSUME PlanInv, [Next]_vars PROVE PlanInv'
  OBVIOUS
<1>1. ASSUME Validate PROVE PlanInv'
  <2>1. stage' = "validated" /\ submitted' = plan' /\ taskCap' = taskCap
    BY <1>1 DEF Validate
  <2>2. Typed(plan')
    <3>1. CASE plan' = plan
      BY <3>1 DEF PlanInv
    <3>2. ASSUME NEW answer \in Correction, NEW tasks, NEW split,
                 tasks = plan.tasks \/ tasks = answer.tasks,
                 plan' = [decomposition |-> IF split THEN "chain" ELSE answer.decomposition,
                          tasks |-> tasks]
          PROVE  Typed(plan')
      <4>1. Typed(answer) /\ Typed(plan)
        BY AnsweredTyped DEF PlanInv
      <4>2. tasks \in Plans /\ plan'.tasks = tasks
        BY <3>2, <4>1 DEF Typed
      <4>3. plan'.decomposition \in Decomposition
        BY <3>2, <4>1 DEF Typed, Decomposition
      <4> QED
        BY <3>2, <4>2, <4>3 DEF Typed
    <3> QED
      BY <1>1, <3>1, <3>2 DEF Validate
  <2> QED
    BY <2>1, <2>2 DEF PlanInv
<1>2. ASSUME Repair PROVE PlanInv'
  <2>1. /\ stage = "validated" /\ stage' = "repaired" /\ plan' = Repaired(plan)
        /\ UNCHANGED <<submitted, taskCap>>
    BY <1>2 DEF Repair
  <2>2. Typed(plan)
    BY DEF PlanInv
  <2>3. Typed(plan') /\ (Distinct(plan.tasks) => Distinct(plan'.tasks))
    BY <2>1, <2>2, RepairedFacts
  <2>4. WellFormed(submitted) => plan' = submitted
    BY <2>1, <2>2, RepairedFacts DEF PlanInv
  <2> QED
    BY <2>1, <2>3, <2>4 DEF PlanInv
<1>3. ASSUME ApplyPolicy PROVE PlanInv'
  <2>1. PICK strict \in BOOLEAN, cap \in PolicyCap :
          /\ plan' = [decomposition |->
                          IF strict /\ plan.decomposition = "simple" /\ Len(plan.tasks) >= 2
                          THEN "chain" ELSE plan.decomposition,
                      tasks |-> Cut(plan.tasks, cap)]
          /\ taskCap' = cap
    BY <1>3 DEF ApplyPolicy
  <2>2. stage = "repaired" /\ stage' = "cut" /\ submitted' = submitted
    BY <1>3 DEF ApplyPolicy
  <2>3. /\ plan.tasks \in Plans /\ plan.decomposition \in Decomposition
        /\ plan = [decomposition |-> plan.decomposition, tasks |-> plan.tasks]
        /\ cap \in Nat \ {0}
    BY Caps DEF PlanInv, Typed
  <2> DEFINE cut == Cut(plan.tasks, cap)
  <2>4. /\ cut \in Plans /\ (Distinct(plan.tasks) => Distinct(cut))
        /\ Len(plan.tasks) <= cap => cut = plan.tasks
    BY <2>3, CutFacts
  <2> HIDE DEF cut
  <2>5. plan'.tasks = cut /\ plan'.decomposition \in Decomposition
        /\ plan' = [decomposition |-> plan'.decomposition, tasks |-> cut]
    BY <2>1, <2>3 DEF cut, Decomposition
  <2>6. Typed(plan') /\ (Distinct(plan.tasks) => Distinct(plan'.tasks))
    BY <2>4, <2>5 DEF Typed
  <2>7. ASSUME WellFormed(submitted), Len(submitted.tasks) <= cap PROVE plan' = submitted
    <3>1. plan = submitted
      BY <2>2, <2>7 DEF PlanInv
    <3>2. ~(plan.decomposition = "simple" /\ Len(plan.tasks) >= 2)
      <4>1. plan.decomposition = "simple" => Len(plan.tasks) = 1
        BY <2>7, <3>1 DEF WellFormed, WellShaped
      <4>2. Len(plan.tasks) = 1 => ~(Len(plan.tasks) >= 2)
        BY SMT
      <4> QED
        BY <4>1, <4>2
    <3>3. plan'.decomposition = plan.decomposition
      BY <2>1, <3>2
    <3>4. cut = plan.tasks
      BY <2>4, <2>7, <3>1
    <3> QED
      BY <2>3, <2>5, <3>1, <3>3, <3>4
  <2> QED
    BY <2>1, <2>2, <2>3, <2>6, <2>7 DEF PlanInv
<1>4. ASSUME Write PROVE PlanInv'
  <2>1. /\ stage = "cut" /\ stage' = "written" /\ plan' = Repaired(plan)
        /\ UNCHANGED <<submitted, taskCap>>
    BY <1>4 DEF Write
  <2>2. Typed(plan)
    BY DEF PlanInv
  <2>3. /\ Typed(plan') /\ Sound(plan'.tasks)
        /\ Distinct(plan.tasks) => Distinct(plan'.tasks)
    BY <2>1, <2>2, RepairedFacts
  <2>4. WellFormed(submitted) /\ Len(submitted.tasks) <= taskCap => plan' = submitted
    BY <2>1, <2>2, RepairedFacts DEF PlanInv
  <2> QED
    BY <2>1, <2>3, <2>4 DEF PlanInv
<1>5. ASSUME Store PROVE PlanInv'
  <2>1. PICK cap \in ModeCap : plan' = [plan EXCEPT !.tasks = Trimmed(@, cap)]
    BY <1>5 DEF Store
  <2>2. /\ stage = "written" /\ stage' \in {"stored", "failed"}
        /\ UNCHANGED <<submitted, taskCap>>
    BY <1>5 DEF Store
  <2>3. Typed(plan) /\ Sound(plan.tasks) /\ cap \in Nat \ {0}
    BY <2>2, Caps DEF PlanInv
  <2> DEFINE out == Trimmed(plan.tasks, cap)
  <2>4. out \in Plans /\ (Distinct(plan.tasks) => Distinct(out) /\ Executable(out))
    BY <2>3, TrimmedFacts
  <2> HIDE DEF out
  <2>5. plan' = [decomposition |-> plan.decomposition, tasks |-> out]
    BY <2>1, <2>3 DEF Typed, out
  <2>6. Typed(plan') /\ plan'.tasks = out
    BY <2>3, <2>4, <2>5 DEF Typed
  <2> QED
    BY <2>2, <2>4, <2>6 DEF PlanInv
<1>6. CASE UNCHANGED vars
  BY <1>6 DEF vars, PlanInv
<1> QED
  BY <1>1, <1>2, <1>3, <1>4, <1>5, <1>6, Zenon DEF Next

THEOREM PlanInvariant == Spec => []PlanInv
  BY PlanInvInit, PlanInvNext, PTL DEF Spec

\* Whatever the models draft and correct, and whatever the caps, a stored plan has a
\* task; and unless the draft repeated a key, its tasks can be done in an order that
\* never waits for one that does not exist or for itself.
THEOREM StoredPlansExecutable == Spec => []PlanExecutable
<1>1. PlanInv => PlanExecutable
  <2> SUFFICES ASSUME PlanInv, stage = "stored" PROVE PlanExecutable
    BY DEF PlanExecutable
  <2>1. plan.tasks # <<>> /\ submitted.tasks \in Plans
    BY DEF PlanInv, Typed, Plans
  <2>2. CASE Distinct(submitted.tasks)
    BY <2>1, <2>2 DEF PlanInv, PlanExecutable
  <2>3. CASE ~Distinct(submitted.tasks)
    <3> DEFINE c == Cardinality(Keys(submitted.tasks))
               l == Len(submitted.tasks)
    <3>1. c \in Nat /\ c <= l /\ c # l /\ l \in Nat
      BY <2>1, <2>3, KeysFinite, PlanFacts
    <3> HIDE DEF c, l
    <3>2. c < l
      BY <3>1, SMT
    <3> QED
      BY <2>1, <3>2 DEF PlanExecutable, c, l
  <2> QED
    BY <2>2, <2>3
<1> QED
  BY <1>1, PlanInvariant, PTL

\* A plan that was sound when it was handed to the repair is written as it was, unless
\* the policy's cap cut it.
THEOREM SoundPlansKept == Spec => []SoundPlanKept
<1>1. PlanInv => SoundPlanKept
  BY DEF PlanInv, SoundPlanKept
<1> QED
  BY <1>1, PlanInvariant, PTL

-----------------------------------------------------------------------------
(* Coverage.  Each clause of evaluate_coverage grows with the sources, the *)
(* verified claims and the dependencies of tasks, but for the dates and    *)
(* office holders, which may go: a requirement they stand for is           *)
(* substantiated by claims, which then found it as well.  Waiting for      *)
(* another requirement is the one negation, and it is of something that    *)
(* only grows.                                                             *)

LEMMA CoverageTypeInit == CoverageInit => CoverageTypeOK
  BY DEF CoverageInit, CoverageTypeOK, Structured

LEMMA CoverageTypeNext == CoverageTypeOK /\ [CoverageNext]_coverageVars => CoverageTypeOK'
<1> SUFFICES ASSUME CoverageTypeOK, [CoverageNext]_coverageVars
             PROVE  CoverageTypeOK'
  OBVIOUS
<1>1. ASSUME NEW p \in Page, AdmitSource(p) PROVE CoverageTypeOK'
  BY <1>1 DEF AdmitSource, CoverageTypeOK
<1>2. ASSUME NEW passed \in SUBSET Claim, VerifyClaims(passed) PROVE CoverageTypeOK'
  BY <1>2 DEF VerifyClaims, CoverageTypeOK
<1>3. ASSUME NEW ids \in SUBSET Structured, ResolveStructured(ids) PROVE CoverageTypeOK'
  BY <1>3 DEF ResolveStructured, CoverageTypeOK
<1>4. CASE ConnectTasks
  BY <1>4 DEF ConnectTasks, CoverageTypeOK
<1>5. CASE UNCHANGED coverageVars
  BY <1>5 DEF coverageVars, CoverageTypeOK
<1> QED
  BY <1>1, <1>2, <1>3, <1>4, <1>5, Zenon DEF CoverageNext

\* What a step that takes no verification away does.
More ==
  /\ contract' = contract
  /\ sources \subseteq sources' /\ verified \subseteq verified'
  /\ (connected => connected')

LEMMA StepsFindMore ==
  [CoverageNext]_coverageVars /\ verified \subseteq verified' => More
<1> SUFFICES ASSUME [CoverageNext]_coverageVars, verified \subseteq verified'
             PROVE  More
  OBVIOUS
<1>1. ASSUME NEW p \in Page, AdmitSource(p) PROVE More
  BY <1>1 DEF AdmitSource, More
<1>2. ASSUME NEW passed \in SUBSET Claim, VerifyClaims(passed) PROVE More
  BY <1>2 DEF VerifyClaims, More
<1>3. ASSUME NEW ids \in SUBSET Structured, ResolveStructured(ids) PROVE More
  BY <1>3 DEF ResolveStructured, More
<1>4. CASE ConnectTasks
  BY <1>4 DEF ConnectTasks, More
<1>5. CASE UNCHANGED coverageVars
  BY <1>5 DEF coverageVars, More
<1> QED
  BY <1>1, <1>2, <1>3, <1>4, <1>5, Zenon DEF CoverageNext

\* A portfolio that is adequate stays so with more classes in it.
LEMMA PortfolioGrows ==
  ASSUME NEW r, NEW few, NEW many, few \subseteq many, AdequatePortfolio(r, few)
  PROVE  AdequatePortfolio(r, many)
  BY DEF AdequatePortfolio

\* What is founded and substantiated has claims, or is founded by something else
\* than a date or an office holder.
LEMMA FoundedGrows ==
  ASSUME More, CoverageTypeOK, NEW i \in DOMAIN contract,
         Founded(contract[i]), Substantiated(contract[i])
  PROVE  Founded(contract[i])'
<1> DEFINE r == contract[i]
<1>1. r' = r /\ Supporting(r) \subseteq Supporting(r)'
  BY DEF More, Supporting
<1>2. CASE r.kind = "dependency" /\ connected
  BY <1>1, <1>2 DEF More, Founded
<1>3. CASE r.id \in resolved
  <2>1. r.kind \in {"fact", "timeline"}
    BY <1>3, CoverageAssumption DEF CoverageTypeOK, Decomposed
  <2>2. AdequatePortfolio(r, {ClassOf[On[c]] : c \in Supporting(r)})
    BY <2>1, Zenon DEF Substantiated
  <2>3. {ClassOf[On[c]] : c \in Supporting(r)} # {}
    BY <2>1, <2>2 DEF AdequatePortfolio
  <2>4. Supporting(r) # {}
    BY <2>3
  <2> QED
    BY <1>1, <2>1, <2>4 DEF Founded
<1>4. CASE r.kind = "source_policy" /\ AdequatePortfolio(r, {ClassOf[p] : p \in sources})
  <2>1. {ClassOf[p] : p \in sources} \subseteq {ClassOf[p] : p \in sources'}
    BY DEF More
  <2>2. AdequatePortfolio(r, {ClassOf[p] : p \in sources'})
    BY <1>4, <2>1, PortfolioGrows
  <2> QED
    BY <1>1, <1>4, <2>2 DEF Founded, AdequatePortfolio
<1>5. CASE r.kind # "source_policy" /\ Supporting(r) # {}
  BY <1>1, <1>5 DEF Founded
<1> QED
  BY <1>2, <1>3, <1>4, <1>5 DEF Founded

LEMMA SubstantiatedGrows ==
  ASSUME More, NEW i \in DOMAIN contract, Substantiated(contract[i])
  PROVE  Substantiated(contract[i])'
<1> DEFINE r == contract[i]
           old == Supporting(r)
           new == {c \in verified' : r.id \in Supports[c]}
           shown(claims) == UNION {Shows[c] : c \in claims}
           classes(claims) == {ClassOf[On[c]] : c \in claims}
<1>1. old \subseteq new /\ new = Supporting(r)' /\ r' = r
  BY DEF More, Supporting
<1>2. /\ r.facets \subseteq shown(old)
      /\ r.studies # {} => r.studies \cap shown(old) # {}
      /\ r.kind \in {"source_policy", "dependency"} \/ AdequatePortfolio(r, classes(old))
  BY Zenon DEF Substantiated
<1> HIDE DEF old, new
<1>3. shown(old) \subseteq shown(new) /\ classes(old) \subseteq classes(new)
  BY <1>1
<1> HIDE DEF shown, classes
<1>4. /\ r.facets \subseteq shown(new)
      /\ r.studies # {} => r.studies \cap shown(new) # {}
      /\ r.kind \in {"source_policy", "dependency"} \/ AdequatePortfolio(r, classes(new))
  BY <1>2, <1>3, PortfolioGrows
<1> QED
  BY <1>1, <1>4 DEF Substantiated, shown, classes

LEMMA SupportedGrows ==
  ASSUME More, CoverageTypeOK
  PROVE  Supported \subseteq Supported'
<1> DEFINE checked == {i \in Applicable : Founded(contract[i]) /\ Substantiated(contract[i])}
           blocked == {i \in DOMAIN contract : \E j \in DOMAIN contract \ checked :
                         contract[j].id \in contract[i].deps}
           held == checked \ blocked
           central == {i \in Applicable \ {1} : contract[i].central}
<1>1. checked \subseteq checked' /\ Applicable' = Applicable /\ contract' = contract
  BY FoundedGrows, SubstantiatedGrows DEF More, Applicable
<1>2. blocked' \subseteq blocked
  BY <1>1
<1>3. held \subseteq held' /\ central' = central
  BY <1>1, <1>2
<1>4. /\ Supported = CASE central = {} -> held
                       [] central # {} /\ central \subseteq held -> held \cup {1}
                       [] OTHER -> held \ {1}
      /\ Supported' = CASE central' = {} -> held'
                        [] central' # {} /\ central' \subseteq held' -> held' \cup {1}
                        [] OTHER -> held' \ {1}
  BY DEF Supported
<1> HIDE DEF checked, blocked, held, central
<1> QED
  BY <1>3, <1>4

\* In every run, a requirement that is resolved is not opened again by more
\* sources, claims, dates or dependencies, unless a claim loses its verification.
THEOREM EvidenceNeverHurtsAny == CoverageSpec => EvidenceNeverHurts
<1>1. CoverageTypeOK /\ [CoverageNext]_coverageVars =>
        [verified \subseteq verified' => Unresolved' \subseteq Unresolved]_coverageVars
  <2> SUFFICES ASSUME CoverageTypeOK, [CoverageNext]_coverageVars,
                      verified \subseteq verified'
               PROVE  Unresolved' \subseteq Unresolved
    OBVIOUS
  <2>1. More
    BY StepsFindMore
  <2>2. Supported \subseteq Supported'
    BY <2>1, SupportedGrows
  <2>3. Applicable' = Applicable
    BY <2>1 DEF More, Applicable
  <2> QED
    BY <2>2, <2>3 DEF Unresolved
<1> QED
  BY <1>1, CoverageTypeInit, CoverageTypeNext, PTL DEF CoverageSpec, EvidenceNeverHurts

-----------------------------------------------------------------------------
(* The index.  What is committed is complete, and within the allowance,    *)
(* together with what the open transaction sees, which is committed next:  *)
(* what that has recorded and what is left to it stay within the allowance *)
(* because a page is never planned for more than is left.                  *)

\* Spent is recursive, and nothing is known of a recursive function before it is
\* shown to exist: by the least number for which it would not.
\* One step of Spent, and the equation that defines it up to n passages.
SpentStep(s, g, i) ==
  IF i = 0 THEN 0
  ELSE IF Passages[s][i] \in Pending(s) /\ g[i - 1] + Cost[Passages[s][i]] <= remaining
       THEN g[i - 1] + Cost[Passages[s][i]]
       ELSE g[i - 1]

Spends(s, g, n) == g = [i \in 0 .. n |-> SpentStep(s, g, i)]

LEMMA SpentExists ==
  ASSUME NEW s, NEW n \in Nat
  PROVE  \E g : Spends(s, g, n)
<1> DEFINE T == {k \in Nat : ~\E g : Spends(s, g, k)}
<1>1. SUFFICES ASSUME T # {} PROVE FALSE
  OBVIOUS
<1>2. PICK k \in T : \A y \in T : k <= y
  BY <1>1, Least
<1>3. CASE k = 0
  <2> DEFINE g == [i \in 0 .. 0 |-> 0]
  <2>1. \A i \in 0 .. 0 : SpentStep(s, g, i) = 0
    BY SMT DEF SpentStep
  <2>2. Spends(s, g, 0)
    BY <2>1 DEF Spends
  <2> QED
    BY <1>2, <1>3, <2>2
<1>4. CASE k # 0
  <2>1. k - 1 \in Nat /\ k - 1 \notin T
    BY <1>2, <1>4, SMT
  <2>2. PICK h : Spends(s, h, k - 1)
    BY <2>1
  <2> DEFINE g == [i \in 0 .. k |-> IF i = k THEN SpentStep(s, h, k) ELSE h[i]]
  <2>3. \A i \in 0 .. (k - 1) : h[i] = SpentStep(s, h, i)
    BY <2>2 DEF Spends
  <2>4. \A i \in 0 .. k : i > 0 => g[i - 1] = h[i - 1]
    BY <2>1, SMT
  <2>5. \A i \in 0 .. k : SpentStep(s, g, i) = SpentStep(s, h, i)
    <3> HIDE DEF g
    <3> QED
      BY <2>4 DEF SpentStep
  <2>6. \A i \in 0 .. k : g[i] = SpentStep(s, g, i)
    <3>1. TAKE i \in 0 .. k
    <3>2. CASE i = k
      BY <2>5, <3>2
    <3>3. CASE i # k
      <4>1. i \in 0 .. (k - 1)
        BY <2>1, <3>3, SMT
      <4> QED
        BY <2>3, <2>5, <3>3, <4>1
    <3> QED
      BY <3>2, <3>3
  <2>7. g = [i \in 0 .. k |-> SpentStep(s, g, i)]
    <3>1. g = [i \in 0 .. k |-> g[i]]
      OBVIOUS
    <3> HIDE DEF g
    <3> QED
      BY <2>6, <3>1
  <2>8. Spends(s, g, k)
    BY <2>7 DEF Spends
  <2> QED
    BY <1>2, <2>8
<1> QED
  BY <1>3, <1>4

\* What is planned for a page never exceeds what is left.
LEMMA SpentFits ==
  ASSUME NEW s \in Snapshot, remaining \in Nat
  PROVE  Spent(s)[Len(Passages[s])] \in 0 .. remaining
<1> DEFINE n == Len(Passages[s])
           f == CHOOSE g : Spends(s, g, n)
           T == {k \in Nat : k <= n /\ f[k] \notin 0 .. remaining}
<1>1. Spent(s) = f
  BY DEF Spent, Spends, SpentStep
<1>2. Passages[s] \in Seq(Passage)
  BY IndexAssumption
<1>3. n \in Nat /\ \A i \in 1 .. n : Cost[Passages[s][i]] \in Nat
  <2>1. \A i \in 1 .. n : Passages[s][i] \in Passage
    BY <1>2, SMT
  <2> QED
    BY <1>2, <2>1, IndexAssumption, SMT
<1>4. Spends(s, f, n)
  BY <1>3, SpentExists
<1>5. \A i \in 0 .. n : f[i] = SpentStep(s, f, i)
  BY <1>4 DEF Spends
<1> HIDE DEF f, n
<1>6. SUFFICES ASSUME T # {} PROVE FALSE
  <2>1. n \notin T
    BY <1>6
  <2> QED
    BY <1>1, <1>3, <2>1 DEF n
<1>7. PICK k \in T : \A y \in T : k <= y
  BY <1>6, Least
<1>8. f[k] = SpentStep(s, f, k) /\ f[k] \notin 0 .. remaining /\ k \in 0 .. n
  BY <1>3, <1>5, <1>7, SMT
<1>9. k # 0
  BY <1>8, SMT DEF SpentStep
<1>10. f[k - 1] \in 0 .. remaining /\ Cost[Passages[s][k]] \in Nat
  <2>1. k - 1 \in Nat /\ k - 1 \notin T /\ k - 1 <= n /\ k \in 1 .. n
    BY <1>3, <1>7, <1>8, <1>9, SMT
  <2> QED
    BY <1>3, <2>1
<1> DEFINE c == Cost[Passages[s][k]]
           before == f[k - 1]
<1>11. f[k] = before \/ (f[k] = before + c /\ before + c <= remaining)
  BY <1>8, <1>9 DEF SpentStep
<1> HIDE DEF c, before
<1>12. before \in 0 .. remaining /\ c \in Nat
  BY <1>10 DEF before, c
<1> QED
  BY <1>8, <1>11, <1>12, SMT

\* What the transaction has recorded leaves room for what it may still spend.
Within == tx # NoIndex => tx.recorded \in Nat /\ tx.recorded + remaining <= MaxIndexTokens

Good(ix) ==
  /\ ix.status \in [Snapshot -> IndexingStatus]
  /\ ix.key \in [Snapshot -> EmbeddingSpec \cup {NoIndex}]
  /\ Complete(ix)

IndexInv ==
  /\ spec \in EmbeddingSpec
  /\ remaining \in Nat
  /\ Good(db) /\ db.recorded \in 0 .. MaxIndexTokens
  /\ tx # NoIndex => Good(tx)
  /\ Within

LEMMA IndexInvInit == IndexInit => IndexInv
<1> SUFFICES ASSUME IndexInit PROVE IndexInv
  OBVIOUS
<1>1. spec \in EmbeddingSpec /\ tx = NoIndex /\ remaining = 0
  BY DEF IndexInit
<1>2. /\ db.status = [s \in Snapshot |-> "pending"]
      /\ db.key = [s \in Snapshot |-> NoIndex]
      /\ db.recorded = 0
  BY DEF IndexInit
<1>3. Good(db)
  BY <1>2 DEF Good, Complete, IndexingStatus
<1>4. 0 \in Nat /\ 0 \in 0 .. MaxIndexTokens
  BY IndexAssumption, SMT
<1> QED
  BY <1>1, <1>2, <1>3, <1>4 DEF IndexInv, Within

\* What is written about a page leaves the index good if a page that is noted as
\* indexed has all its passages among the old and the new embeddings.
LEMMA WrittenGood ==
  ASSUME IndexInv, tx # NoIndex, NEW s \in Snapshot, NEW status \in IndexingStatus,
         NEW k \in EmbeddingSpec \cup {NoIndex}, NEW passages, NEW tokens,
         status = "indexed" =>
           k = spec /\ \A x \in ToSet(Passages[s]) : <<x, spec>> \in tx.embedded \/ x \in passages
  PROVE  Good(Written(s, status, k, passages, tokens))
<1> DEFINE ix == Written(s, status, k, passages, tokens)
<1>1. Good(tx)
  BY DEF IndexInv
<1>2. /\ ix.status = [tx.status EXCEPT ![s] = status]
      /\ ix.key = [tx.key EXCEPT ![s] = k]
      /\ ix.chunked = tx.chunked \cup {s}
      /\ ix.embedded = tx.embedded \cup {<<x, spec>> : x \in passages}
  BY DEF Written
<1> HIDE DEF ix
<1>3. /\ ix.status \in [Snapshot -> IndexingStatus]
      /\ ix.key \in [Snapshot -> EmbeddingSpec \cup {NoIndex}]
      /\ ix.status[s] = status /\ ix.key[s] = k
      /\ \A t \in Snapshot \ {s} : ix.status[t] = tx.status[t] /\ ix.key[t] = tx.key[t]
  BY <1>1, <1>2 DEF Good
<1>4. ASSUME NEW t \in Snapshot, ix.status[t] = "indexed"
      PROVE  t \in ix.chunked /\ \A x \in ToSet(Passages[t]) : <<x, ix.key[t]>> \in ix.embedded
  <2>1. CASE t = s
    BY <1>2, <1>3, <1>4, <2>1
  <2>2. CASE t # s
    BY <1>1, <1>2, <1>3, <1>4, <2>2 DEF Good, Complete
  <2> QED
    BY <2>1, <2>2
<1>5. Good(ix)
  BY <1>3, <1>4 DEF Good, Complete
<1> QED
  BY <1>5 DEF ix

LEMMA IndexInvNext == IndexInv /\ [IndexNext]_indexVars => IndexInv'
<1> SUFFICES ASSUME IndexInv, [IndexNext]_indexVars PROVE IndexInv'
  OBVIOUS
<1>1. ASSUME NEW s \in Snapshot, Fetch(s) PROVE IndexInv'
  BY <1>1 DEF Fetch, IndexInv, Within
<1>2. ASSUME NEW s \in Snapshot, PassOver(s) PROVE IndexInv'
  <2>1. tx # NoIndex /\ Good(tx) /\ UNCHANGED <<spec, db, remaining>>
    BY <1>2 DEF PassOver, IndexInv
  <2>2. CASE tx' = tx
    BY <2>1, <2>2 DEF IndexInv, Within
  <2>3. CASE /\ tx'.status = [tx.status EXCEPT ![s] = "skipped"] /\ tx'.recorded = tx.recorded
             /\ tx'.key = tx.key /\ tx'.chunked = tx.chunked /\ tx'.embedded = tx.embedded
    <3>1. Good(tx')
      BY <2>1, <2>3 DEF Good, Complete, IndexingStatus
    <3> QED
      BY <2>1, <2>3, <3>1 DEF IndexInv, Within
  <2> QED
    BY <1>2, <2>2, <2>3 DEF PassOver
<1>3. ASSUME NEW s \in Snapshot, IndexOne(s) PROVE IndexInv'
  <2> DEFINE passages == At(s, Planned(s))
             cost == Spent(s)[Len(Passages[s])]
             status == IF passages = Pending(s) THEN "indexed" ELSE "partially_indexed"
  <2>1. /\ tx # NoIndex /\ UNCHANGED <<spec, db>> /\ spec \in EmbeddingSpec
        /\ tx' = Written(s, status, spec, passages, cost)
        /\ remaining' = remaining - cost
    BY <1>3 DEF IndexOne, ToIndex, IndexInv
  <2>2. /\ status \in IndexingStatus
        /\ status = "indexed" => passages = Pending(s)
    BY DEF IndexingStatus
  <2>3. cost \in 0 .. remaining
    BY SpentFits DEF IndexInv
  <2> HIDE DEF passages, status, cost
  <2>4. status = "indexed" =>
          \A x \in ToSet(Passages[s]) : <<x, spec>> \in tx.embedded \/ x \in passages
    BY <2>2 DEF Pending
  <2>5. Good(tx')
    BY <2>1, <2>2, <2>4, WrittenGood
  <2>6. tx'.recorded = tx.recorded + cost
    BY <2>1 DEF Written
  <2>7. /\ remaining' \in Nat /\ tx'.recorded \in Nat
        /\ tx'.recorded + remaining' <= MaxIndexTokens
    <3>1. tx.recorded \in Nat /\ remaining \in Nat /\ tx.recorded + remaining <= MaxIndexTokens
      BY <2>1 DEF IndexInv, Within
    <3> QED
      BY <2>1, <2>3, <2>6, <3>1, IndexAssumption, SMT
  <2> QED
    BY <2>1, <2>5, <2>7 DEF IndexInv, Within
<1>4. ASSUME NEW s \in Snapshot, FailOne(s) PROVE IndexInv'
  <2>1. PICK passages : /\ tx # NoIndex /\ UNCHANGED <<spec, db, remaining>>
                        /\ tx' = Written(s, "failed", tx.key[s], passages, 0)
    BY <1>4 DEF FailOne, ToIndex
  <2>2. tx.key[s] \in EmbeddingSpec \cup {NoIndex} /\ "failed" \in IndexingStatus
    BY <2>1 DEF IndexInv, Good, IndexingStatus
  <2>3. Good(tx')
    BY <2>1, <2>2, WrittenGood
  <2>4. tx'.recorded = tx.recorded
    <3>1. tx'.recorded = tx.recorded + 0 /\ tx.recorded \in Nat
      BY <2>1 DEF Written, IndexInv, Within
    <3> QED
      BY <3>1, SMT
  <2> QED
    BY <2>1, <2>3, <2>4 DEF IndexInv, Within
<1>5. ASSUME NEW k \in EmbeddingSpec, Reconfigure(k) PROVE IndexInv'
  BY <1>5 DEF Reconfigure, IndexInv, Within
<1>6. CASE BeginIndex
  <2>1. PICK left \in 0 .. MaxIndexTokens :
          LET unspent == IF db.recorded < MaxIndexTokens THEN MaxIndexTokens - db.recorded ELSE 0
          IN  remaining' = IF left < unspent THEN left ELSE unspent
    BY <1>6 DEF BeginIndex
  <2>2. db.recorded \in 0 .. MaxIndexTokens
    BY DEF IndexInv
  <2>3. remaining' \in Nat /\ db.recorded + remaining' <= MaxIndexTokens /\ db.recorded \in Nat
    BY <2>1, <2>2, IndexAssumption, SMT
  <2>4. tx' = db /\ UNCHANGED <<spec, db>>
    BY <1>6 DEF BeginIndex
  <2> QED
    BY <2>3, <2>4 DEF IndexInv, Within
<1>7. CASE EndIndex
  <2>1. tx # NoIndex /\ db' = tx /\ tx' = NoIndex /\ UNCHANGED <<spec, remaining>>
    BY <1>7 DEF EndIndex
  <2>2. tx.recorded \in Nat /\ remaining \in Nat /\ tx.recorded + remaining <= MaxIndexTokens
    BY <2>1 DEF IndexInv, Within
  <2>3. tx.recorded \in 0 .. MaxIndexTokens
    BY <2>2, IndexAssumption, SMT
  <2> QED
    BY <2>1, <2>3 DEF IndexInv, Within
<1>8. CASE CrashIndex
  BY <1>8 DEF CrashIndex, IndexInv, Within
<1>9. CASE UNCHANGED indexVars
  BY <1>9 DEF indexVars, IndexInv, Within
<1> QED
  BY <1>1, <1>2, <1>3, <1>4, <1>5, <1>6, <1>7, <1>8, <1>9, Zenon DEF IndexNext

\* A page that the committed index counts as indexed, and that is not looked at
\* again, has all its passages embedded under its spec: no failure in the middle
\* of a page, no spent allowance and no change of settings leaves a gap.  And the
\* executions of the phase together never record more than the mode allows.
THEOREM IndexAlwaysSound == IndexSpec => []IndexSound
<1>1. IndexInv => IndexSound
  BY IndexAssumption, SMT DEF IndexInv, Good, IndexSound
<1> QED
  BY <1>1, IndexInvInit, IndexInvNext, PTL DEF IndexSpec
=============================================================================
