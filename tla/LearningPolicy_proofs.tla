------------------------ MODULE LearningPolicy_proofs -----------------------
(***************************************************************************)
(* Proofs about the versions of a policy, for any number of sessions, runs *)
(* and versions.                                                           *)
(***************************************************************************)
EXTENDS LearningPolicy, WellFoundedInduction, TLAPS

-----------------------------------------------------------------------------
(* A set of versions has a newest one.                                     *)

LEMMA Lowest ==
  ASSUME NEW T \in SUBSET Nat, T # {}
  PROVE  \E x \in T : \A y \in T : x <= y
<1> DEFINE R == OpToRel(<, Nat)
<1>1. IsWellFoundedOn(R, Nat)
  BY NatLessThanWellFounded
<1>2. \A x, y \in Nat : x < y => <<x, y>> \in R
  BY DEF OpToRel
<1> HIDE DEF R
<1>3. PICK x \in T : \A y \in T : <<y, x>> \notin R
  BY <1>1, WFMin
<1>4. \A y \in T : ~(y < x)
  BY <1>2, <1>3
<1> QED
  BY <1>3, <1>4, SMT

LEMMA NewestIsOne ==
  ASSUME NEW n \in Nat, NEW S \in SUBSET (1 .. n), S # {}
  PROVE  Newest(S) \in S
<1> DEFINE T == {n - v : v \in S}
<1>1. T \in SUBSET Nat /\ T # {}
  <2>1. \A v \in S : n - v \in Nat
    BY SMT
  <2> QED
    BY <2>1
<1>2. PICK x \in T : \A y \in T : x <= y
  BY <1>1, Lowest
<1>3. PICK v \in S : x = n - v
  BY <1>2
<1>4. \A w \in S : v >= w
  BY <1>2, <1>3, SMT
<1>5. Max(S) \in S
  BY <1>3, <1>4 DEF Max
<1> QED
  BY <1>5 DEF Newest

-----------------------------------------------------------------------------
(* The inductive invariant.                                                *)

RollsBack(t) == t.op \in {"rollback", "judge", "choose"}

\* What a session that rolls back has loaded.
Loaded(t, versions) ==
    /\ {"op", "was", "wasnt", "now", "events"} \subseteq DOMAIN t
    /\ t.was \cup t.wasnt \subseteq versions
    /\ t.was \cap t.wasnt = {}
    /\ t.events \in Seq(Event)

\* A session that has rolled back once or twice and takes a version out of
\* service puts one in.  A second rollback starts from what the first one has
\* loaded, whatever it finds committed.
Balanced(t, versions) ==
    /\ Loaded(t, versions)
    /\ Len(t.events) = 0 => t.was = {} /\ t.wasnt = {} /\ t.now = {}
    /\ Len(t.events) = 1 =>
          \E x, y \in versions : x # y /\ t.was = {x} /\ t.wasnt = {y} /\ t.now = {y}
    /\ Len(t.events) <= 2 => (Off(t) # {} => On(t) # {})
    /\ t.op = "rollback" => Len(t.events) <= 2

AllBalanced == \A a \in Actor : RollsBack(tx[a]) => Balanced(tx[a], DOMAIN version)

PolicyInv ==
    /\ version \in Seq(BOOLEAN)
    /\ DOMAIN tx = Actor
    /\ AllBalanced

\* A step that changes one transaction and no version.
LEMMA TxStep ==
  ASSUME PolicyInv, UNCHANGED version, NEW a \in Actor, NEW t,
         tx' = [tx EXCEPT ![a] = t],
         RollsBack(t) => Balanced(t, DOMAIN version)
  PROVE  PolicyInv'
<1>1. DOMAIN tx = Actor
  BY DEF PolicyInv
<1>2. tx'[a] = t /\ \A b \in Actor : b # a => tx'[b] = tx[b]
  BY <1>1
<1>3. DOMAIN tx' = Actor
  BY <1>1
<1>5. ASSUME NEW b \in Actor, RollsBack(tx'[b]) PROVE Balanced(tx'[b], DOMAIN version)
  <2>1. CASE b = a
    BY <1>2, <1>5, <2>1
  <2>2. CASE b # a
    BY <1>2, <1>5, <2>2 DEF PolicyInv, AllBalanced
  <2> QED
    BY <2>1, <2>2
<1>6. AllBalanced'
  BY <1>5 DEF AllBalanced
<1> QED
  BY <1>3, <1>6 DEF PolicyInv

LEMMA BalancedMore ==
  ASSUME NEW t, NEW versions, NEW more, versions \subseteq more, Balanced(t, versions)
  PROVE  Balanced(t, more)
<1>1. Loaded(t, more)
  BY DEF Balanced, Loaded
<1>2. Len(t.events) = 1 =>
         \E x, y \in more : x # y /\ t.was = {x} /\ t.wasnt = {y} /\ t.now = {y}
  BY Zenon DEF Balanced
<1> QED
  BY <1>1, <1>2, Zenon DEF Balanced

\* The commit of one transaction, which ends it.
LEMMA CommitStep ==
  ASSUME PolicyInv, NEW a \in Actor, tx' = [tx EXCEPT ![a] = Idle],
         version' \in Seq(BOOLEAN), DOMAIN version \subseteq DOMAIN version'
  PROVE  PolicyInv'
<1>1. DOMAIN tx = Actor
  BY DEF PolicyInv
<1>2. tx'[a] = Idle /\ \A b \in Actor : b # a => tx'[b] = tx[b]
  BY <1>1
<1>3. ~RollsBack(Idle)
  BY DEF RollsBack, Idle
<1>4. ASSUME NEW b \in Actor, RollsBack(tx'[b]) PROVE Balanced(tx'[b], DOMAIN version')
  <2>1. b # a /\ tx'[b] = tx[b]
    BY <1>2, <1>3, <1>4
  <2>2. Balanced(tx[b], DOMAIN version)
    BY <1>4, <2>1 DEF PolicyInv, AllBalanced
  <2> QED
    BY <2>1, <2>2, BalancedMore
<1>5. AllBalanced'
  BY <1>4 DEF AllBalanced
<1> QED
  BY <1>1, <1>5 DEF PolicyInv

\* What a rollback writes keeps the versions.
LEMMA RewrittenKeeps ==
  ASSUME version \in Seq(BOOLEAN), NEW t, version' = Rewritten(t)
  PROVE  version' \in Seq(BOOLEAN) /\ DOMAIN version' = DOMAIN version
<1>1. PICK n \in Nat : DOMAIN version = 1 .. n
  BY SMT
<1>2. version' \in [1 .. n -> BOOLEAN] /\ DOMAIN version' = DOMAIN version
  BY <1>1, Zenon DEF Rewritten
<1> QED
  BY <1>1, <1>2, SMT

\* What a session writes after one rollback or two leaves a version active.
LEMMA RewrittenServes ==
  ASSUME version \in Seq(BOOLEAN), NEW t, Balanced(t, DOMAIN version), Len(t.events) <= 2,
         version' = Rewritten(t), Active # {}
  PROVE  Active' # {}
<1>1. DOMAIN version' = DOMAIN version
  BY RewrittenKeeps
<1>2. On(t) \subseteq DOMAIN version /\ On(t) \cap Off(t) = {}
  BY DEF Balanced, Loaded, On, Off
<1>3. CASE On(t) = {}
  <2>1. Off(t) = {}
    BY <1>3 DEF Balanced
  <2>2. \A v \in DOMAIN version : version[v] => version'[v]
    BY <2>1 DEF Rewritten
  <2> QED
    BY <1>1, <2>2 DEF Active
<1>4. CASE On(t) # {}
  <2>1. PICK v \in On(t) : v \in DOMAIN version /\ v \notin Off(t)
    BY <1>2, <1>4
  <2>2. version'[v]
    BY <2>1 DEF Rewritten
  <2> QED
    BY <1>1, <2>1, <2>2 DEF Active
<1> QED
  BY <1>3, <1>4

\* What is rolled back: a version that is active, for one that is not.
LEMMA SwapReads ==
  ASSUME version \in Seq(BOOLEAN), CanRollBack
  PROVE  /\ Newest(Active) \in DOMAIN version /\ Newest(Restorable) \in DOMAIN version
         /\ Newest(Active) # Newest(Restorable)
         /\ DOMAIN version \subseteq Nat
<1>1. DOMAIN version = 1 .. Len(version) /\ Len(version) \in Nat
  BY SMT
<1>2. Active \in SUBSET (1 .. Len(version)) /\ Active # {}
  BY <1>1 DEF Active, CanRollBack
<1>3. Restorable \in SUBSET (1 .. Len(version)) /\ Restorable # {}
  BY <1>1 DEF Restorable, CanRollBack
<1>4. Newest(Active) \in Active /\ Newest(Restorable) \in Restorable
  BY <1>1, <1>2, <1>3, NewestIsOne
<1>5. Newest(Active) \in DOMAIN version /\ Newest(Restorable) \in DOMAIN version
  BY <1>1, <1>2, <1>3, <1>4
<1>6. Newest(Active) # Newest(Restorable)
  BY <1>4 DEF Restorable
<1>7. DOMAIN version \subseteq Nat
  BY <1>1, SMT
<1> QED
  BY <1>5, <1>6, <1>7

\* The fields of a session after one more rollback.
LEMMA SwapFields ==
  ASSUME NEW t, {"op", "was", "wasnt", "now", "events"} \subseteq DOMAIN t
  PROVE  LET u == Swapped(t)
             current == Newest(Active)
             previous == Newest(Restorable)
         IN  /\ DOMAIN u = DOMAIN t /\ u.op = t.op
             /\ u.was = t.was \cup ({current} \ t.wasnt)
             /\ u.wasnt = t.wasnt \cup ({previous} \ t.was)
             /\ u.now = (t.now \ {current}) \cup {previous}
             /\ u.events = Append(t.events, "rolled_back")
<1> DEFINE was == t.was \cup ({Newest(Active)} \ t.wasnt)
           wasnt == t.wasnt \cup ({Newest(Restorable)} \ t.was)
           now == (t.now \ {Newest(Active)}) \cup {Newest(Restorable)}
           t1 == [t EXCEPT !.was = was]
           t2 == [t1 EXCEPT !.wasnt = wasnt]
           t3 == [t2 EXCEPT !.now = now]
           t4 == [t3 EXCEPT !.events = Append(t.events, "rolled_back")]
<1>1. Swapped(t) = t4
  BY DEF Swapped
<1> HIDE DEF was, wasnt, now
<1>2. DOMAIN t1 = DOMAIN t /\ t1.op = t.op /\ t1.was = was
  OBVIOUS
<1> HIDE DEF t1
<1>3. DOMAIN t2 = DOMAIN t /\ t2.op = t.op /\ t2.was = was /\ t2.wasnt = wasnt
  BY <1>2
<1> HIDE DEF t2
<1>4. DOMAIN t3 = DOMAIN t /\ t3.op = t.op /\ t3.was = was /\ t3.wasnt = wasnt /\ t3.now = now
  BY <1>3
<1> HIDE DEF t3
<1>5. /\ DOMAIN t4 = DOMAIN t /\ t4.op = t.op /\ t4.was = was /\ t4.wasnt = wasnt
      /\ t4.now = now /\ t4.events = Append(t.events, "rolled_back")
  BY <1>4
<1> QED
  BY <1>1, <1>5 DEF was, wasnt, now

LEMMA OneMore ==
  ASSUME NEW n \in Nat, NEW m, m = n + 1
  PROVE  /\ n = 0 => m = 1
         /\ m # 0
         /\ m = 1 => n = 0
         /\ m <= 2 => n = 0 \/ n = 1
BY SMT

LEMMA SwapBalanced ==
  ASSUME version \in Seq(BOOLEAN), NEW t, Balanced(t, DOMAIN version), CanRollBack,
         t.op = "rollback" => t.events = <<>>
  PROVE  Balanced(Swapped(t), DOMAIN version)
<1> DEFINE u == Swapped(t)
           x == Newest(Active)
           y == Newest(Restorable)
<1>1. x \in DOMAIN version /\ y \in DOMAIN version /\ x # y
  BY SwapReads
<1>2. Loaded(t, DOMAIN version)
  BY DEF Balanced
<1>3. /\ DOMAIN u = DOMAIN t /\ u.op = t.op
      /\ u.was = t.was \cup ({x} \ t.wasnt) /\ u.wasnt = t.wasnt \cup ({y} \ t.was)
      /\ u.now = (t.now \ {x}) \cup {y} /\ u.events = Append(t.events, "rolled_back")
  BY <1>2, SwapFields DEF Loaded
<1>4. /\ u.events \in Seq(Event) /\ Len(u.events) = Len(t.events) + 1 /\ Len(t.events) \in Nat
  <2>1. "rolled_back" \in Event /\ t.events \in Seq(Event)
    BY <1>2 DEF Event, Loaded
  <2> HIDE DEF u
  <2> QED BY <1>3, <2>1, SMT
<1>5. t.op = "rollback" => Len(t.events) = 0
  BY SMT
<1>10. /\ Len(t.events) = 0 => Len(u.events) = 1
       /\ Len(u.events) # 0
       /\ Len(u.events) = 1 => Len(t.events) = 0
       /\ Len(u.events) <= 2 => Len(t.events) = 0 \/ Len(t.events) = 1
  BY <1>4, OneMore, Zenon
<1>11. 0 # 1
  BY SMT
<1> HIDE DEF u, x, y
<1>6. Loaded(u, DOMAIN version)
  BY <1>1, <1>2, <1>3, <1>4 DEF Loaded
<1>7. ASSUME Len(t.events) = 0 PROVE Balanced(u, DOMAIN version)
  <2>1. u.was = {x} /\ u.wasnt = {y} /\ u.now = {y}
    BY <1>3, <1>7 DEF Balanced
  <2>2. \E p, q \in DOMAIN version : p # q /\ u.was = {p} /\ u.wasnt = {q} /\ u.now = {q}
    BY <1>1, <2>1
  <2>3. On(u) # {}
    BY <2>1 DEF On
  <2>4. u.op = "rollback" => Len(u.events) <= 2
    <3>1. Len(u.events) = 1
      BY <1>7, <1>10, Zenon
    <3> QED
      BY <3>1, SMT
  <2> QED
    BY <1>6, <1>10, <2>2, <2>3, <2>4, Zenon DEF Balanced
<1>8. ASSUME Len(t.events) = 1 PROVE Balanced(u, DOMAIN version)
  <2>1. PICK p, q \in DOMAIN version : p # q /\ t.was = {p} /\ t.wasnt = {q} /\ t.now = {q}
    BY <1>8 DEF Balanced
  <2>2. ASSUME Off(u) # {} PROVE On(u) # {}
    <3>1. CASE x # q
      BY <1>3, <2>1, <3>1 DEF On
    <3>2. CASE x = q /\ y # p
      BY <1>3, <2>1, <3>2 DEF On
    <3>3. CASE x = q /\ y = p
      BY <1>3, <2>1, <2>2, <3>3 DEF Off
    <3> QED
      BY <3>1, <3>2, <3>3
  <2>3. Len(u.events) # 1
    BY <1>8, <1>10, <1>11, Zenon
  <2>4. u.op # "rollback"
    BY <1>3, <1>5, <1>8, <1>11, Zenon
  <2> QED
    BY <1>6, <1>10, <2>2, <2>3, <2>4, Zenon DEF Balanced
<1>9. ASSUME Len(t.events) # 0 /\ Len(t.events) # 1 PROVE Balanced(u, DOMAIN version)
  <2>1. u.op # "rollback"
    BY <1>3, <1>5, <1>9, Zenon
  <2> QED
    BY <1>6, <1>9, <1>10, <2>1, Zenon DEF Balanced
<1> QED
  BY <1>7, <1>8, <1>9, Zenon DEF u

-----------------------------------------------------------------------------
(* The actions that touch versions or roll back.                           *)

LEMMA Appended ==
  ASSUME PolicyInv, NEW a \in Actor, CommitPromotion(a)
  PROVE  /\ version' \in Seq(BOOLEAN) /\ DOMAIN version \subseteq DOMAIN version'
         /\ Active' # {}
<1> DEFINE rest == [v \in DOMAIN version |-> version[v] /\ v \notin Superseded(tx[a].seen)]
<1>1. PICK n \in Nat : DOMAIN version = 1 .. n
  BY SMT DEF PolicyInv
<1>2. rest \in [1 .. n -> BOOLEAN]
  BY <1>1, Zenon
<1>3. rest \in Seq(BOOLEAN) /\ Len(rest) = n
  <2> HIDE DEF rest
  <2> QED
    BY <1>2, SMT
<1>4. version' = Append(rest, TRUE)
  BY DEF CommitPromotion
<1> HIDE DEF rest
<1>5. version' \in Seq(BOOLEAN) /\ DOMAIN version' = 1 .. (n + 1) /\ version'[n + 1] = TRUE
  BY <1>3, <1>4, SMT
<1>6. n + 1 \in DOMAIN version' /\ DOMAIN version \subseteq DOMAIN version'
  BY <1>1, <1>5, SMT
<1> QED
  BY <1>5, <1>6 DEF Active

LEMMA PromotionStep == ASSUME PolicyInv, NEW a \in Actor, CommitPromotion(a) PROVE PolicyInv'
BY Appended, CommitStep DEF CommitPromotion

\* A session that begins to roll back.
LEMMA FreshBalanced ==
  ASSUME NEW t, {"op", "was", "wasnt", "now", "events"} \subseteq DOMAIN t,
         t.was = {}, t.wasnt = {}, t.now = {}, t.events = <<>>, NEW versions
  PROVE  Balanced(t, versions)
<1>1. Len(t.events) = 0 /\ t.events \in Seq(Event)
  BY SMT
<1> QED
  BY <1>1 DEF Balanced, Loaded, Off

Operator == [op |-> "rollback", was |-> {}, wasnt |-> {}, now |-> {}, events |-> <<>>]

LEMMA OperatorBalanced == Balanced(Operator, DOMAIN version) /\ Operator.op = "rollback"
<1>1. /\ DOMAIN Operator = {"op", "was", "wasnt", "now", "events"}
      /\ Operator.was = {} /\ Operator.wasnt = {} /\ Operator.now = {} /\ Operator.events = <<>>
      /\ Operator.op = "rollback"
  BY DEF Operator
<1> QED
  BY <1>1, FreshBalanced

LEMMA OperatorStep == ASSUME PolicyInv, NEW a \in Actor, OperatorRollback(a) PROVE PolicyInv'
<1>1. CanRollBack /\ tx' = [tx EXCEPT ![a] = Swapped(Operator)] /\ UNCHANGED version
  BY DEF OperatorRollback, Operator
<1>2. Operator.events = <<>>
  BY DEF Operator
<1>3. Balanced(Swapped(Operator), DOMAIN version)
  BY <1>1, <1>2, OperatorBalanced, SwapBalanced DEF PolicyInv
<1> QED
  BY <1>1, <1>3, TxStep

LEMMA RollbackStep == ASSUME PolicyInv, NEW a \in Actor, CommitRollback(a) PROVE PolicyInv'
<1>1. version' = Rewritten(tx[a]) /\ tx' = [tx EXCEPT ![a] = Idle]
  BY DEF CommitRollback
<1>2. version' \in Seq(BOOLEAN) /\ DOMAIN version' = DOMAIN version
  BY <1>1, RewrittenKeeps DEF PolicyInv
<1> QED
  BY <1>1, <1>2, CommitStep

LEMMA ObserveStep ==
  ASSUME PolicyInv, NEW a \in Actor, NEW r \in Run, NEW quality \in {0, 1}, Observe(a, r, quality)
  PROVE  PolicyInv'
<1> DEFINE s == Sampled(r, quality)
           todo == {v \in OpenWindows : Regressed(WithSample(s)[v])}
           queues == quality = 0 /\ experiment[r] = "none"
           t == [op |-> "judge", run |-> r, sample |-> s, queues |-> queues, todo |-> todo,
                 on_trial |-> 0, done |-> {},
                 was |-> {}, wasnt |-> {}, now |-> {}, events |-> <<>>]
<1>1. tx' = [tx EXCEPT ![a] = t] /\ UNCHANGED version
  BY DEF Observe
<1>2. Balanced(t, DOMAIN version)
  <2> HIDE DEF s, todo, queues
  <2>1. DOMAIN t = {"op", "run", "sample", "queues", "todo", "on_trial", "done",
                    "was", "wasnt", "now", "events"}
    OBVIOUS
  <2>2. t.was = {} /\ t.wasnt = {} /\ t.now = {} /\ t.events = <<>>
    OBVIOUS
  <2> HIDE DEF t
  <2> QED
    BY <2>1, <2>2, FreshBalanced
<1> HIDE DEF t
<1> QED
  BY <1>1, <1>2, TxStep

\* Parts of a pass that say nothing of versions.
Kept(t, u) ==
    /\ DOMAIN u = DOMAIN t /\ u.op \in {"judge", "choose"}
    /\ u.was = t.was /\ u.wasnt = t.wasnt /\ u.now = t.now /\ u.events = t.events

LEMMA KeptBalanced ==
  ASSUME NEW t, NEW u, NEW versions, Kept(t, u), Balanced(t, versions)
  PROVE  Balanced(u, versions)
<1>1. Loaded(u, versions) /\ Off(u) = Off(t) /\ On(u) = On(t) /\ u.op # "rollback"
  BY DEF Kept, Balanced, Loaded, Off, On
<1> QED
  BY <1>1, Zenon DEF Kept, Balanced

LEMMA JudgeStep ==
  ASSUME PolicyInv, NEW a \in Actor, NEW v \in Version, PassOver(a, v) \/ Condemn(a, v)
  PROVE  PolicyInv'
<1>1. Balanced(tx[a], DOMAIN version) /\ DOMAIN tx = Actor /\ tx[a].op = "judge"
  BY DEF PassOver, Condemn, PolicyInv, AllBalanced, RollsBack
<1>0. {"op", "was", "wasnt", "now", "events"} \subseteq DOMAIN tx[a]
  BY <1>1 DEF Balanced, Loaded
<1>2. CASE PassOver(a, v)
  <2> DEFINE u == [tx[a] EXCEPT !.todo = @ \ {v}]
  <2>1. Kept(tx[a], u)
    BY <1>0, <1>1 DEF Kept
  <2>2. tx' = [tx EXCEPT ![a] = u] /\ UNCHANGED version
    BY <1>1, <1>2 DEF PassOver
  <2> HIDE DEF u
  <2> QED
    BY <1>1, <2>1, <2>2, KeptBalanced, TxStep
<1>3. CASE Condemn(a, v)
  <2> DEFINE u1 == [tx[a] EXCEPT !.op = "choose"]
             u2 == [u1 EXCEPT !.on_trial = v]
             u == [u2 EXCEPT !.todo = @ \ {v}]
  <2>1. Kept(tx[a], u1)
    BY <1>0 DEF Kept
  <2>2. Kept(u1, u2)
    BY <1>0 DEF Kept
  <2>3. Kept(u2, u)
    BY <1>0 DEF Kept
  <2>4. tx' = [tx EXCEPT ![a] = u] /\ UNCHANGED version
    BY <1>1, <1>3 DEF Condemn
  <2> HIDE DEF u1, u2, u
  <2>5. Balanced(u, DOMAIN version)
    BY <1>1, <2>1, <2>2, <2>3, KeptBalanced
  <2> QED
    BY <2>4, <2>5, TxStep
<1> QED
  BY <1>2, <1>3

LEMMA AutoStep == ASSUME PolicyInv, NEW a \in Actor, AutoRollback(a) PROVE PolicyInv'
<1>1. Balanced(tx[a], DOMAIN version) /\ DOMAIN tx = Actor /\ tx[a].op = "choose"
  BY DEF AutoRollback, PolicyInv, AllBalanced, RollsBack
<1>0. {"op", "was", "wasnt", "now", "events"} \subseteq DOMAIN tx[a]
  BY <1>1 DEF Balanced, Loaded
<1>2. CASE CanRollBack
  <2> DEFINE t == Swapped(tx[a])
             u1 == [t EXCEPT !.op = "judge"]
             u2 == [u1 EXCEPT !.on_trial = 0]
             u == [u2 EXCEPT !.done = @ \cup {tx[a].on_trial}]
  <2>1. Balanced(t, DOMAIN version) /\ DOMAIN t = DOMAIN tx[a]
    BY <1>0, <1>1, <1>2, SwapBalanced, SwapFields DEF PolicyInv
  <2>2. tx' = [tx EXCEPT ![a] = u] /\ UNCHANGED version
    BY <1>2 DEF AutoRollback
  <2> HIDE DEF t
  <2>3. Kept(t, u1)
    BY <1>0, <2>1 DEF Kept
  <2>4. Kept(u1, u2)
    BY <1>0, <2>1 DEF Kept
  <2>5. Kept(u2, u)
    BY <1>0, <2>1 DEF Kept
  <2> HIDE DEF u1, u2, u
  <2>6. Balanced(u, DOMAIN version)
    BY <2>1, <2>3, <2>4, <2>5, KeptBalanced
  <2> QED
    BY <2>2, <2>6, TxStep
<1>3. CASE ~CanRollBack
  <2> DEFINE u1 == [tx[a] EXCEPT !.op = "judge"]
             u == [u1 EXCEPT !.on_trial = 0]
  <2>1. Kept(tx[a], u1)
    BY <1>0 DEF Kept
  <2>2. Kept(u1, u)
    BY <1>0 DEF Kept
  <2>3. tx' = [tx EXCEPT ![a] = u] /\ UNCHANGED version
    BY <1>3 DEF AutoRollback
  <2> HIDE DEF u1, u
  <2>4. Balanced(u, DOMAIN version)
    BY <1>1, <2>1, <2>2, KeptBalanced
  <2> QED
    BY <2>3, <2>4, TxStep
<1> QED
  BY <1>2, <1>3

LEMMA ObservationStep == ASSUME PolicyInv, NEW a \in Actor, CommitObservation(a) PROVE PolicyInv'
<1>1. version' = Rewritten(tx[a]) /\ tx' = [tx EXCEPT ![a] = Idle]
  BY DEF CommitObservation
<1>2. version' \in Seq(BOOLEAN) /\ DOMAIN version' = DOMAIN version
  BY <1>1, RewrittenKeeps DEF PolicyInv
<1> QED
  BY <1>1, <1>2, CommitStep

\* Transactions about experiments, and those that begin or give up.
LEMMA OtherStep ==
  ASSUME PolicyInv, NEW a \in Actor,
         \/ BeginPromotion(a) \/ CompleteExperiments(a) \/ Abort(a)
         \/ \E r \in Run : ClaimExperiment(a, r)
  PROVE  PolicyInv'
<1>1. PICK t : tx' = [tx EXCEPT ![a] = t] /\ t.op \in {"promote", "experiment", "idle"}
  <2>1. \A claims, times :
           [op |-> "experiment", claims |-> claims, times |-> times].op = "experiment"
    OBVIOUS
  <2>2. Idle.op = "idle" /\ [op |-> "promote", seen |-> Active].op = "promote"
    BY DEF Idle
  <2> QED
    BY <2>1, <2>2, Zenon DEF BeginPromotion, ClaimExperiment, CompleteExperiments, Abort
<1>2. UNCHANGED version /\ ~RollsBack(t)
  BY <1>1 DEF BeginPromotion, ClaimExperiment, CompleteExperiments, Abort, RollsBack
<1> QED
  BY <1>1, <1>2, TxStep

-----------------------------------------------------------------------------
(* The theorem.                                                            *)

LEMMA InitInv == ASSUME Init PROVE PolicyInv
<1>1. version = <<>> /\ tx = [a \in Actor |-> Idle]
  BY DEF Init
<1>2. \A a \in Actor : ~RollsBack(tx[a])
  BY <1>1 DEF RollsBack, Idle
<1> QED
  BY <1>1, <1>2, SMT DEF PolicyInv, AllBalanced

LEMMA StepInv == ASSUME PolicyInv, [Next]_vars PROVE PolicyInv'
<1>1. CASE UNCHANGED <<version, tx>>
  BY <1>1 DEF PolicyInv, AllBalanced
<1>2. CASE DayPasses \/ (\E v \in Version : CloseWindow(v)) \/ (\E r \in Run : StartRun(r))
  BY <1>1, <1>2 DEF DayPasses, CloseWindow, StartRun
<1>3. CASE UNCHANGED vars
  BY <1>1, <1>3 DEF vars
<1>4. ASSUME NEW a \in Actor, CommitPromotion(a) \/ OperatorRollback(a) \/ CommitRollback(a)
      PROVE  PolicyInv'
  BY <1>4, PromotionStep, OperatorStep, RollbackStep
<1>5. ASSUME NEW a \in Actor, NEW r \in Run, NEW quality \in {0, 1}, Observe(a, r, quality)
      PROVE  PolicyInv'
  BY <1>5, ObserveStep
<1>6. ASSUME NEW a \in Actor, NEW v \in Version, PassOver(a, v) \/ Condemn(a, v)
      PROVE  PolicyInv'
  BY <1>6, JudgeStep
<1>7. ASSUME NEW a \in Actor, AutoRollback(a) \/ CommitObservation(a)
      PROVE  PolicyInv'
  BY <1>7, AutoStep, ObservationStep
<1>8. ASSUME NEW a \in Actor,
             \/ BeginPromotion(a) \/ CompleteExperiments(a) \/ Abort(a)
             \/ \E r \in Run : ClaimExperiment(a, r)
      PROVE  PolicyInv'
  BY <1>8, OtherStep
<1> QED
  BY <1>2, <1>3, <1>4, <1>5, <1>6, <1>7, <1>8, Zenon DEF Next

LEMMA StepServes ==
  ASSUME PolicyInv, [Next]_vars, Active # {}, Active' = {}
  PROVE  \E a \in Actor : tx[a].op = "judge" /\ Len(tx[a].events) > 2
<1>1. ~UNCHANGED version
  BY DEF Active
<1>2. \A a \in Actor : ~CommitPromotion(a)
  BY Appended
<1>3. PICK a \in Actor : CommitRollback(a) \/ CommitObservation(a)
  BY <1>1, <1>2, Zenon DEF Next, vars, DayPasses, CloseWindow, StartRun, BeginPromotion,
     OperatorRollback, Observe, PassOver, Condemn, AutoRollback, ClaimExperiment,
     CompleteExperiments, Abort
<1>4. version' = Rewritten(tx[a]) /\ tx[a].op \in {"rollback", "judge"}
  BY <1>3 DEF CommitRollback, CommitObservation
<1>5. Balanced(tx[a], DOMAIN version)
  BY <1>4 DEF PolicyInv, AllBalanced, RollsBack
<1>6. ~(Len(tx[a].events) <= 2)
  BY <1>4, <1>5, RewrittenServes DEF PolicyInv
<1>7. Len(tx[a].events) \in Nat
  BY <1>5, SMT DEF Balanced, Loaded
<1>8. Len(tx[a].events) > 2
  BY <1>6, <1>7, SMT
<1> QED
  BY <1>4, <1>5, <1>6, <1>8 DEF Balanced

(* However many sessions promote, roll back and judge windows on stale     *)
(* reads, only a pass that rolls back for a third window can commit and    *)
(* leave a policy without an active version that had one.                  *)
THEOREM AlwaysServed == Spec => StaysServed
<1>1. Init => PolicyInv
  BY InitInv
<1>2. PolicyInv /\ [Next]_vars => PolicyInv'
  BY StepInv
<1>3. PolicyInv /\ [Next]_vars
        => [Active # {} /\ Active' = {} =>
               \E a \in Actor : tx[a].op = "judge" /\ Len(tx[a].events) > 2]_vars
  BY StepServes
<1> QED
  BY <1>1, <1>2, <1>3, PTL DEF Spec, StaysServed

-----------------------------------------------------------------------------
(* The types of the rows and of the transactions.                          *)

Window == [status : WindowStatus, samples : Nat, good : Nat]
Sample == [at : Nat, samples : Nat, good : Nat]
Rollback == [op : {"rollback"}, was : SUBSET Nat, wasnt : SUBSET Nat, now : SUBSET Nat,
             events : Seq(Event)]
Judgement == [op : {"judge", "choose"}, run : Run, sample : Sample, queues : BOOLEAN,
              todo : SUBSET Nat, on_trial : Nat, done : SUBSET Nat,
              was : SUBSET Nat, wasnt : SUBSET Nat, now : SUBSET Nat, events : Seq(Event)]
Experiments == [op : {"experiment"}, claims : Nat, times : [Run -> Nat]]

Typed(t) ==
    /\ t.op \in {"idle", "promote", "rollback", "judge", "choose", "experiment"}
    /\ t.op = "rollback" => t \in Rollback
    /\ t.op \in {"judge", "choose"} => t \in Judgement /\ t.sample.good <= t.sample.samples
    /\ t.op = "experiment" => t \in Experiments /\ \A r \in Run : t.times[r] <= t.claims

\* The rows alone: PolicyTypeOK without the transactions.
VersionsOK == version \in Seq(BOOLEAN) /\ Len(version) <= MaxVersions
WindowsOK ==
    /\ window \in Seq(Window)
    /\ \A v \in DOMAIN window : window[v].good <= window[v].samples
RecentOK(events) == events \in Seq(Event) /\ Len(events) <= 2
RunsOK ==
    /\ used \in [Run -> Snapshot]
    /\ observed \in [Run -> 0 .. MaxObservations]
    /\ experiment \in [Run -> {"none", "pending", "completed"}]
    /\ audited \in [Run -> Nat]

TypesInv ==
    /\ VersionsOK /\ WindowsOK /\ Len(window) = Len(version)
    /\ RecentOK(recent) /\ RunsOK
    /\ DOMAIN tx = Actor /\ \A a \in Actor : Typed(tx[a])

LEMMA TypesImply == ASSUME TypesInv PROVE PolicyTypeOK
BY DEF TypesInv, VersionsOK, WindowsOK, RecentOK, RunsOK, PolicyTypeOK, Window

\* The rest of the state stays typed when one transaction changes.
LEMMA TypedStep ==
  ASSUME DOMAIN tx = Actor, \A b \in Actor : Typed(tx[b]), NEW a \in Actor, NEW t, Typed(t),
         tx' = [tx EXCEPT ![a] = t]
  PROVE  DOMAIN tx' = Actor /\ \A b \in Actor : Typed(tx'[b])
<1>1. tx'[a] = t /\ \A b \in Actor : b # a => tx'[b] = tx[b]
  BY Zenon
<1>2. ASSUME NEW b \in Actor PROVE Typed(tx'[b])
  BY <1>1, Zenon
<1> QED
  BY <1>2

LEMMA IdleTyped == Typed(Idle)
BY DEF Typed, Idle

\* A step that changes one transaction only.
LEMMA TypesTx ==
  ASSUME TypesInv, NEW a \in Actor, NEW t, Typed(t), tx' = [tx EXCEPT ![a] = t],
         UNCHANGED <<version, window, recent, used, observed, experiment, audited>>
  PROVE  TypesInv'
<1>1. DOMAIN tx' = Actor /\ \A b \in Actor : Typed(tx'[b])
  BY TypedStep DEF TypesInv
<1>2. VersionsOK' /\ WindowsOK' /\ (Len(window) = Len(version))' /\ RecentOK(recent') /\ RunsOK'
  BY DEF TypesInv, VersionsOK, WindowsOK, RecentOK, RunsOK
<1> QED
  BY <1>1, <1>2 DEF TypesInv

-----------------------------------------------------------------------------
(* The operators that compute rows.                                        *)

LEMMA LastTwoOK == ASSUME NEW events \in Seq(Event) PROVE RecentOK(LastTwo(events))
<1>1. CASE Len(events) <= 2
  BY <1>1 DEF LastTwo, RecentOK
<1>2. CASE ~(Len(events) <= 2)
  <2> DEFINE n == Len(events)
  <2>1. n \in Nat /\ n - 1 \in 1 .. n /\ n - (n - 1) + 1 = 2
    BY <1>2, SMT
  <2>2. LastTwo(events) = SubSeq(events, n - 1, n)
    BY <1>2 DEF LastTwo
  <2>3. \A i \in 1 .. 2 : events[i + (n - 1) - 1] \in Event
    BY <2>1, SMT
  <2>4. SubSeq(events, n - 1, n) \in Seq(Event) /\ Len(SubSeq(events, n - 1, n)) = 2
    BY <2>1, SMT
  <2> QED
    BY <2>2, <2>4 DEF RecentOK
<1> QED
  BY <1>1, <1>2

\* A sample that has been added to the open windows.
LEMMA WithSampleOK ==
  ASSUME WindowsOK, NEW s \in Sample, s.good <= s.samples
  PROVE  /\ DOMAIN WithSample(s) = DOMAIN window
         /\ \A v \in DOMAIN window : /\ WithSample(s)[v] \in Window
                                     /\ WithSample(s)[v].good <= WithSample(s)[v].samples
<1>1. \A v \in DOMAIN window : window[v] \in Window /\ window[v].good <= window[v].samples
  BY SMT DEF WindowsOK
<1>2. s.samples \in Nat /\ s.good \in Nat
  BY DEF Sample
<1>3. DOMAIN WithSample(s) = DOMAIN window
  BY DEF WithSample
<1>4. ASSUME NEW v \in DOMAIN window
      PROVE  /\ WithSample(s)[v] \in Window
             /\ WithSample(s)[v].good <= WithSample(s)[v].samples
  <2>1. CASE v # s.at
    BY <1>1, <1>4, <2>1 DEF WithSample
  <2>2. CASE v = s.at
    <3> DEFINE w1 == [window[v] EXCEPT !.samples = s.samples]
               w == [w1 EXCEPT !.good = s.good]
    <3>1. w1 \in Window /\ w1.samples = s.samples
      BY <1>1, <1>2 DEF Window
    <3> HIDE DEF w1
    <3>2. w \in Window /\ w.samples = s.samples /\ w.good = s.good
      BY <1>2, <3>1 DEF Window
    <3> HIDE DEF w
    <3>3. WithSample(s)[v] = w
      BY <2>2 DEF WithSample, w, w1
    <3> QED
      BY <3>2, <3>3
  <2> QED
    BY <2>1, <2>2
<1> QED
  BY <1>3, <1>4

LEMMA SampledOK ==
  ASSUME TypesInv, NEW r \in Run, NEW quality \in {0, 1}
  PROVE  /\ Sampled(r, quality) \in Sample
         /\ Sampled(r, quality).good <= Sampled(r, quality).samples
<1>1. CASE used[r] = "baseline" \/ OpenWindows = {}
  <2>1. Sampled(r, quality) = NoSample
    BY <1>1 DEF Sampled
  <2> QED
    BY <2>1 DEF NoSample, Sample
<1>2. CASE ~(used[r] = "baseline" \/ OpenWindows = {})
  <2> DEFINE v == Newest(OpenWindows)
             s == [at |-> v, samples |-> window[v].samples + 1, good |-> window[v].good + quality]
  <2>1. PICK n \in Nat : DOMAIN window = 1 .. n
    BY SMT DEF TypesInv, WindowsOK
  <2>2. OpenWindows \in SUBSET (1 .. n) /\ OpenWindows # {}
    BY <1>2, <2>1 DEF OpenWindows
  <2>3. v \in DOMAIN window /\ v \in Nat
    <3>1. v \in OpenWindows
      BY <2>2, NewestIsOne
    <3>2. v \in 1 .. n
      BY <2>2, <3>1
    <3> HIDE DEF v
    <3> QED
      BY <2>1, <3>2, SMT
  <2>4. window[v] \in Window /\ window[v].good <= window[v].samples
    BY <2>3, SMT DEF TypesInv, WindowsOK
  <2>5. Sampled(r, quality) = s
    BY <1>2 DEF Sampled
  <2> HIDE DEF v
  <2>6. s \in Sample /\ s.good <= s.samples
    BY <2>3, <2>4 DEF Window, Sample
  <2> QED
    BY <2>5, <2>6
<1> QED
  BY <1>1, <1>2

-----------------------------------------------------------------------------
(* One lemma per action that changes a transaction only.                   *)

\* One more rollback rewrites four fields of a transaction of either kind.
LEMMA SwapTyped ==
  ASSUME version \in Seq(BOOLEAN), NEW t, Typed(t),
         t.op \in {"rollback", "judge", "choose"}, CanRollBack
  PROVE  Typed(Swapped(t))
<1> DEFINE current == Newest(Active)
           previous == Newest(Restorable)
           was == t.was \cup ({current} \ t.wasnt)
           wasnt == t.wasnt \cup ({previous} \ t.was)
           now == (t.now \ {current}) \cup {previous}
           events == Append(t.events, "rolled_back")
           t1 == [t EXCEPT !.was = was]
           t2 == [t1 EXCEPT !.wasnt = wasnt]
           t3 == [t2 EXCEPT !.now = now]
           t4 == [t3 EXCEPT !.events = events]
<1>1. current \in Nat /\ previous \in Nat
  BY SwapReads
<1>2. /\ t.was \in SUBSET Nat /\ t.wasnt \in SUBSET Nat /\ t.now \in SUBSET Nat
      /\ t.events \in Seq(Event)
  BY DEF Typed, Rollback, Judgement
<1>5. Swapped(t) = t4
  BY DEF Swapped
<1> HIDE DEF current, previous
<1>3. was \in SUBSET Nat /\ wasnt \in SUBSET Nat /\ now \in SUBSET Nat
  BY <1>1, <1>2
<1>4. events \in Seq(Event)
  <2>1. "rolled_back" \in Event
    BY DEF Event
  <2> QED
    BY <1>2, <2>1, SMT
<1> HIDE DEF was, wasnt, now, events
<1>6. CASE t.op = "rollback"
  <2>1. t \in Rollback
    BY <1>6 DEF Typed
  <2>2. t1 \in Rollback
    BY <1>3, <2>1 DEF Rollback
  <2> HIDE DEF t1
  <2>3. t2 \in Rollback
    BY <1>3, <2>2 DEF Rollback
  <2> HIDE DEF t2
  <2>4. t3 \in Rollback
    BY <1>3, <2>3 DEF Rollback
  <2> HIDE DEF t3
  <2>5. t4 \in Rollback
    BY <1>4, <2>4 DEF Rollback
  <2> HIDE DEF t4
  <2>6. t4.op = "rollback"
    BY <2>5 DEF Rollback
  <2> QED
    BY <1>5, <2>5, <2>6 DEF Typed
<1>7. CASE t.op \in {"judge", "choose"}
  <2>1. t \in Judgement /\ t.sample.good <= t.sample.samples
    BY <1>7 DEF Typed
  <2>2. t1 \in Judgement /\ t1.sample = t.sample
    BY <1>3, <2>1 DEF Judgement
  <2> HIDE DEF t1
  <2>3. t2 \in Judgement /\ t2.sample = t.sample
    BY <1>3, <2>2 DEF Judgement
  <2> HIDE DEF t2
  <2>4. t3 \in Judgement /\ t3.sample = t.sample
    BY <1>3, <2>3 DEF Judgement
  <2> HIDE DEF t3
  <2>5. t4 \in Judgement /\ t4.sample = t.sample
    BY <1>4, <2>4 DEF Judgement
  <2> HIDE DEF t4
  <2>6. t4.op \in {"judge", "choose"}
    BY <2>5 DEF Judgement
  <2> QED
    BY <1>5, <2>1, <2>5, <2>6 DEF Typed
<1> QED
  BY <1>6, <1>7

LEMMA JudgementTyped ==
  ASSUME NEW t \in Judgement, t.sample.good <= t.sample.samples
  PROVE  Typed(t)
<1>1. t.op \in {"judge", "choose"}
  BY DEF Judgement
<1> QED
  BY <1>1 DEF Typed

LEMMA OperatorTypes ==
  ASSUME PolicyInv, TypesInv, NEW a \in Actor, OperatorRollback(a)
  PROVE  TypesInv'
<1>1. CanRollBack /\ tx' = [tx EXCEPT ![a] = Swapped(Operator)]
  BY DEF OperatorRollback, Operator
<1>2. Operator \in Rollback /\ Operator.op = "rollback"
  BY SMT DEF Rollback, Operator
<1>3. Typed(Operator)
  BY <1>2 DEF Typed
<1>4. Typed(Swapped(Operator))
  BY <1>1, <1>2, <1>3, SwapTyped DEF PolicyInv
<1> QED
  BY <1>1, <1>4, TypesTx DEF OperatorRollback

LEMMA ObserveTypes ==
  ASSUME TypesInv, NEW a \in Actor, NEW r \in Run, NEW quality \in {0, 1}, Observe(a, r, quality)
  PROVE  TypesInv'
<1> DEFINE s == Sampled(r, quality)
           todo == {v \in OpenWindows : Regressed(WithSample(s)[v])}
           queues == quality = 0 /\ experiment[r] = "none"
           t == [op |-> "judge", run |-> r, sample |-> s, queues |-> queues, todo |-> todo,
                 on_trial |-> 0, done |-> {},
                 was |-> {}, wasnt |-> {}, now |-> {}, events |-> <<>>]
<1>1. s \in Sample /\ s.good <= s.samples
  BY SampledOK
<1>2. queues \in BOOLEAN
  OBVIOUS
<1>3. todo \in SUBSET Nat
  <2>1. DOMAIN window \in SUBSET Nat
    BY SMT DEF TypesInv, WindowsOK
  <2> QED
    BY <2>1 DEF OpenWindows
<1>4. tx' = [tx EXCEPT ![a] = t]
  BY DEF Observe
<1> HIDE DEF s, todo, queues
<1>5. t \in Judgement /\ t.sample = s
  BY <1>1, <1>2, <1>3, SMT DEF Judgement
<1> HIDE DEF t
<1>6. Typed(t)
  BY <1>1, <1>5, JudgementTyped
<1> QED
  BY <1>4, <1>6, TypesTx DEF Observe

LEMMA JudgeTypes ==
  ASSUME TypesInv, NEW a \in Actor, NEW v \in Version, PassOver(a, v) \/ Condemn(a, v)
  PROVE  TypesInv'
<1>1. tx[a] \in Judgement /\ tx[a].sample.good <= tx[a].sample.samples
  BY DEF PassOver, Condemn, TypesInv, Typed
<1>2. v \in Nat
  BY PolicyBounds, SMT DEF Version
<1> DEFINE todo == tx[a].todo \ {v}
<1>3. todo \in SUBSET Nat
  BY <1>1 DEF Judgement
<1>4. CASE PassOver(a, v)
  <2> DEFINE u == [tx[a] EXCEPT !.todo = todo]
  <2>1. tx' = [tx EXCEPT ![a] = u]
    BY <1>1, <1>4 DEF PassOver, TypesInv, Judgement
  <2> HIDE DEF todo
  <2>2. u \in Judgement /\ u.sample = tx[a].sample
    BY <1>1, <1>3 DEF Judgement
  <2> HIDE DEF u
  <2>3. Typed(u)
    BY <1>1, <2>2, JudgementTyped
  <2> QED
    BY <1>4, <2>1, <2>3, TypesTx DEF PassOver
<1>5. CASE Condemn(a, v)
  <2> DEFINE u1 == [tx[a] EXCEPT !.op = "choose"]
             u2 == [u1 EXCEPT !.on_trial = v]
             u == [u2 EXCEPT !.todo = todo]
  <2>1. tx' = [tx EXCEPT ![a] = u]
    BY <1>1, <1>5 DEF Condemn, TypesInv, Judgement
  <2> HIDE DEF todo
  <2>2. u1 \in Judgement /\ u1.sample = tx[a].sample
    BY <1>1 DEF Judgement
  <2> HIDE DEF u1
  <2>3. u2 \in Judgement /\ u2.sample = tx[a].sample
    BY <1>2, <2>2 DEF Judgement
  <2> HIDE DEF u2
  <2>4. u \in Judgement /\ u.sample = tx[a].sample
    BY <1>3, <2>3 DEF Judgement
  <2> HIDE DEF u
  <2>5. Typed(u)
    BY <1>1, <2>4, JudgementTyped
  <2> QED
    BY <1>5, <2>1, <2>5, TypesTx DEF Condemn
<1> QED
  BY <1>4, <1>5

LEMMA AutoTypes ==
  ASSUME PolicyInv, TypesInv, NEW a \in Actor, AutoRollback(a)
  PROVE  TypesInv'
<1>1. tx[a] \in Judgement /\ tx[a].sample.good <= tx[a].sample.samples /\ tx[a].op = "choose"
  BY DEF AutoRollback, TypesInv, Typed
<1>2. Balanced(tx[a], DOMAIN version) /\ DOMAIN tx = Actor /\ version \in Seq(BOOLEAN)
  BY DEF AutoRollback, PolicyInv, AllBalanced, RollsBack
<1>5. {"op", "was", "wasnt", "now", "events"} \subseteq DOMAIN tx[a]
  BY <1>2 DEF Balanced, Loaded
<1>3. CASE CanRollBack
  <2> DEFINE t == Swapped(tx[a])
             u1 == [t EXCEPT !.op = "judge"]
             u2 == [u1 EXCEPT !.on_trial = 0]
             u == [u2 EXCEPT !.done = u2.done \cup {tx[a].on_trial}]
  <2>1. Typed(t) /\ t.op = "choose"
    BY <1>1, <1>2, <1>3, <1>5, SwapTyped, SwapFields DEF TypesInv
  <2>2. t \in Judgement /\ t.sample.good <= t.sample.samples
    BY <2>1 DEF Typed
  <2>3. tx[a].on_trial \in Nat
    BY <1>1 DEF Judgement
  <2>4. tx' = [tx EXCEPT ![a] = [Swapped(tx[a]) EXCEPT !.op = "judge", !.on_trial = 0,
                                    !.done = @ \cup {tx[a].on_trial}]]
    BY <1>3 DEF AutoRollback
  <2>5. tx' = [tx EXCEPT ![a] = u]
    BY <2>2, <2>4 DEF Judgement
  <2> HIDE DEF t
  <2>6. u1 \in Judgement /\ u1.sample = t.sample
    BY <2>2 DEF Judgement
  <2> HIDE DEF u1
  <2>7. u2 \in Judgement /\ u2.sample = t.sample
    BY <2>6 DEF Judgement
  <2> HIDE DEF u2
  <2>8. u2.done \cup {tx[a].on_trial} \in SUBSET Nat
    BY <2>3, <2>7 DEF Judgement
  <2>9. u \in Judgement /\ u.sample = t.sample
    BY <2>7, <2>8 DEF Judgement
  <2> HIDE DEF u
  <2>10. Typed(u)
    BY <2>2, <2>9, JudgementTyped
  <2> QED
    BY <2>5, <2>10, TypesTx DEF AutoRollback
<1>4. CASE ~CanRollBack
  <2> DEFINE u1 == [tx[a] EXCEPT !.op = "judge"]
             u == [u1 EXCEPT !.on_trial = 0]
  <2>1. tx' = [tx EXCEPT ![a] = u]
    BY <1>4 DEF AutoRollback
  <2>2. u1 \in Judgement /\ u1.sample = tx[a].sample
    BY <1>1 DEF Judgement
  <2> HIDE DEF u1
  <2>3. u \in Judgement /\ u.sample = tx[a].sample
    BY <2>2 DEF Judgement
  <2> HIDE DEF u
  <2>4. Typed(u)
    BY <1>1, <2>3, JudgementTyped
  <2> QED
    BY <1>4, <2>1, <2>4, TypesTx DEF AutoRollback
<1> QED
  BY <1>3, <1>4

LEMMA BeginTypes ==
  ASSUME TypesInv, NEW a \in Actor, BeginPromotion(a) \/ Abort(a)
  PROVE  TypesInv'
<1>1. PICK t : tx' = [tx EXCEPT ![a] = t] /\ Typed(t)
  <2>1. Typed([op |-> "promote", seen |-> Active])
    BY DEF Typed
  <2> QED
    BY <2>1, IdleTyped DEF BeginPromotion, Abort
<1> QED
  BY <1>1, TypesTx DEF BeginPromotion, Abort

\* A poll that claims: each job at most as often as the poll has claimed.
LEMMA PollTyped ==
  ASSUME TypesInv, NEW a \in Actor, tx[a] = Idle \/ tx[a].op = "experiment"
  PROVE  /\ Poll(a).claims \in Nat /\ Poll(a).times \in [Run -> Nat]
         /\ \A r \in Run : Poll(a).times[r] <= Poll(a).claims
<1>1. CASE tx[a] = Idle
  <2> DEFINE p == [op |-> "experiment", claims |-> 0, times |-> [r \in Run |-> 0]]
  <2>1. Poll(a) = p
    BY <1>1 DEF Poll
  <2>2. p.claims = 0 /\ p.times = [r \in Run |-> 0]
    OBVIOUS
  <2> HIDE DEF p
  <2> QED
    BY <2>1, <2>2, SMT
<1>2. CASE tx[a] # Idle
  <2>1. Poll(a) = tx[a] /\ tx[a].op = "experiment"
    BY <1>2 DEF Poll
  <2> QED
    BY <2>1 DEF TypesInv, Typed, Experiments
<1> QED
  BY <1>1, <1>2

LEMMA ClaimTypes ==
  ASSUME TypesInv, NEW a \in Actor, NEW r \in Run, ClaimExperiment(a, r)
  PROVE  TypesInv'
<1> DEFINE claims == Poll(a).claims + 1
           times == [Poll(a).times EXCEPT ![r] = Poll(a).times[r] + 1]
           t == [op |-> "experiment", claims |-> claims, times |-> times]
<1>1. /\ Poll(a).claims \in Nat /\ Poll(a).times \in [Run -> Nat]
      /\ \A q \in Run : Poll(a).times[q] <= Poll(a).claims
  BY PollTyped DEF ClaimExperiment
<1>2. tx' = [tx EXCEPT ![a] = t]
  BY DEF ClaimExperiment
<1>3. claims \in Nat
  BY <1>1, SMT
<1>4. times \in [Run -> Nat]
  <2>1. Poll(a).times[r] + 1 \in Nat
    BY <1>1, SMT
  <2> QED
    BY <1>1, <2>1
<1>5. ASSUME NEW q \in Run PROVE times[q] <= claims
  <2>1. Poll(a).times[q] \in Nat /\ Poll(a).times[q] <= Poll(a).claims
    BY <1>1
  <2>2. times[q] = Poll(a).times[q] \/ times[q] = Poll(a).times[q] + 1
    BY <1>1
  <2> HIDE DEF times
  <2> QED
    BY <1>1, <2>1, <2>2, SMT
<1> HIDE DEF claims, times
<1>6. t \in Experiments /\ t.op = "experiment" /\ t.times = times /\ t.claims = claims
  BY <1>3, <1>4 DEF Experiments
<1> HIDE DEF t
<1>7. Typed(t)
  BY <1>5, <1>6 DEF Typed
<1> QED
  BY <1>2, <1>7, TypesTx DEF ClaimExperiment

-----------------------------------------------------------------------------
(* One lemma per action that commits rows.                                 *)

\* What a transaction writes keeps the number of versions.
LEMMA RewrittenOK ==
  ASSUME VersionsOK, NEW t, version' = Rewritten(t)
  PROVE  VersionsOK' /\ Len(version') = Len(version)
<1>1. DOMAIN version = 1 .. Len(version) /\ Len(version) \in Nat
  BY SMT DEF VersionsOK
<1>2. version' \in [1 .. Len(version) -> BOOLEAN]
  BY <1>1, Zenon DEF Rewritten
<1>3. version' \in Seq(BOOLEAN) /\ Len(version') = Len(version)
  BY <1>1, <1>2, SMT
<1> QED
  BY <1>3 DEF VersionsOK

LEMMA PromotionTypes ==
  ASSUME TypesInv, NEW a \in Actor, CommitPromotion(a)
  PROVE  TypesInv'
<1> DEFINE n == Len(version)
           rest == [v \in DOMAIN version |-> version[v] /\ v \notin Superseded(tx[a].seen)]
           opened == [status |-> "active", samples |-> 0, good |-> 0]
<1>1. DOMAIN version = 1 .. n /\ n \in Nat
  BY SMT DEF TypesInv, VersionsOK
<1>2. rest \in [1 .. n -> BOOLEAN]
  BY <1>1, Zenon
<1>3. version' = Append(rest, TRUE) /\ window' = Append(window, opened)
        /\ recent' = LastTwo(Append(recent, "promoted"))
  BY DEF CommitPromotion
<1>4. n < MaxVersions
  BY DEF CommitPromotion
<1> HIDE DEF rest
<1>5. rest \in Seq(BOOLEAN) /\ Len(rest) = n
  BY <1>1, <1>2, SMT
<1>6. VersionsOK' /\ Len(version') = n + 1
  <2>1. version' \in Seq(BOOLEAN) /\ Len(version') = n + 1
    BY <1>3, <1>5, SMT
  <2> HIDE DEF n
  <2>2. n + 1 <= MaxVersions
    BY <1>1, <1>4, PolicyBounds, SMT
  <2> QED
    BY <2>1, <2>2 DEF VersionsOK
<1>7. opened \in Window /\ opened.good <= opened.samples
  BY DEF Window, WindowStatus
<1>8. WindowsOK' /\ Len(window') = n + 1
  <2>1. window \in Seq(Window) /\ Len(window) = n
        /\ \A v \in DOMAIN window : window[v].good <= window[v].samples
    BY DEF TypesInv, WindowsOK
  <2> HIDE DEF opened, n
  <2>2. window' \in Seq(Window) /\ Len(window') = n + 1
    BY <1>3, <1>7, <2>1, SMT
  <2>3. ASSUME NEW v \in DOMAIN window' PROVE window'[v].good <= window'[v].samples
    <3>1. v \in 1 .. n \/ v = n + 1
      BY <1>1, <2>2, SMT
    <3>2. CASE v = n + 1
      <4>1. window'[v] = opened
        BY <1>3, <2>1, <3>2, SMT
      <4> QED
        BY <1>7, <4>1
    <3>3. CASE v \in 1 .. n
      <4>1. window'[v] = window[v] /\ v \in DOMAIN window
        BY <1>3, <2>1, <3>3, SMT
      <4> QED
        BY <2>1, <4>1
    <3> QED
      BY <3>1, <3>2, <3>3
  <2> QED
    BY <2>2, <2>3 DEF WindowsOK
<1>9. RecentOK(recent')
  <2>1. "promoted" \in Event
    BY DEF Event
  <2>2. Append(recent, "promoted") \in Seq(Event)
    BY <2>1, SMT DEF TypesInv, RecentOK
  <2> QED
    BY <1>3, <2>2, LastTwoOK
<1>10. RunsOK'
  BY DEF CommitPromotion, TypesInv, RunsOK
<1>11. DOMAIN tx' = Actor /\ \A b \in Actor : Typed(tx'[b])
  BY IdleTyped, TypedStep DEF CommitPromotion, TypesInv
<1> QED
  BY <1>6, <1>8, <1>9, <1>10, <1>11 DEF TypesInv

\* The events of a rollback become the newest two.
LEMMA RecentStep ==
  ASSUME RecentOK(recent), NEW events \in Seq(Event)
  PROVE  RecentOK(LastTwo(recent \o events))
<1>1. recent \o events \in Seq(Event)
  BY SMT DEF RecentOK
<1> QED
  BY <1>1, LastTwoOK

LEMMA RollbackTypes ==
  ASSUME TypesInv, NEW a \in Actor, CommitRollback(a)
  PROVE  TypesInv'
<1>1. tx[a] \in Rollback
  BY DEF CommitRollback, TypesInv, Typed
<1>2. tx[a].events \in Seq(Event)
  BY <1>1 DEF Rollback
<1>3. VersionsOK' /\ Len(version') = Len(version)
  BY RewrittenOK DEF CommitRollback, TypesInv
<1>4. RecentOK(recent')
  BY <1>2, RecentStep DEF CommitRollback, TypesInv
<1>5. WindowsOK' /\ window' = window /\ RunsOK'
  BY DEF CommitRollback, TypesInv, WindowsOK, RunsOK
<1>6. DOMAIN tx' = Actor /\ \A b \in Actor : Typed(tx'[b])
  BY IdleTyped, TypedStep DEF CommitRollback, TypesInv
<1> QED
  BY <1>3, <1>4, <1>5, <1>6 DEF TypesInv

\* Rows that are windows make a sequence of windows.
LEMMA WindowsFrom ==
  ASSUME WindowsOK, NEW row, row = [v \in DOMAIN window |-> row[v]],
         \A v \in DOMAIN window : row[v] \in Window /\ row[v].good <= row[v].samples
  PROVE  /\ row \in Seq(Window) /\ Len(row) = Len(window)
         /\ \A v \in DOMAIN row : row[v].good <= row[v].samples
<1>1. DOMAIN window = 1 .. Len(window) /\ Len(window) \in Nat
  BY SMT DEF WindowsOK
<1>2. DOMAIN row = DOMAIN window /\ row \in [1 .. Len(window) -> Window]
  BY <1>1, Zenon
<1>3. row \in Seq(Window) /\ Len(row) = Len(window)
  BY <1>1, <1>2, SMT
<1> QED
  BY <1>2, <1>3

LEMMA ObservationTypes ==
  ASSUME TypesInv, NEW a \in Actor, CommitObservation(a)
  PROVE  TypesInv'
<1> DEFINE t == tx[a]
<1>1. t \in Judgement /\ t.sample.good <= t.sample.samples
  BY DEF CommitObservation, TypesInv, Typed
<1>2. /\ observed[t.run] < MaxObservations
      /\ version' = Rewritten(t)
      /\ window' = [v \in DOMAIN window |->
                       IF v \in t.done
                       THEN [WithSample(t.sample)[v] EXCEPT !.status = "closed"]
                       ELSE WithSample(t.sample)[v]]
      /\ recent' = LastTwo(recent \o t.events)
      /\ observed' = [observed EXCEPT ![t.run] = @ + 1]
      /\ experiment' = [experiment EXCEPT ![t.run] = IF t.queues THEN "pending" ELSE @]
      /\ tx' = [tx EXCEPT ![a] = Idle]
      /\ used' = used /\ audited' = audited
  BY DEF CommitObservation
<1> HIDE DEF t
<1>3. /\ t.run \in Run /\ t.sample \in Sample /\ t.events \in Seq(Event) /\ t.queues \in BOOLEAN
  BY <1>1 DEF Judgement
<1>4. VersionsOK' /\ Len(version') = Len(version)
  BY <1>2, RewrittenOK DEF TypesInv
<1>5. RecentOK(recent')
  BY <1>2, <1>3, RecentStep DEF TypesInv
<1>6. WindowsOK' /\ Len(window') = Len(window)
  <2>1. WindowsOK
    BY DEF TypesInv
  <2>2. \A v \in DOMAIN window : /\ WithSample(t.sample)[v] \in Window
                                 /\ WithSample(t.sample)[v].good <= WithSample(t.sample)[v].samples
    BY <1>1, <1>3, <2>1, WithSampleOK
  <2>3. \A w \in Window : LET u == [w EXCEPT !.status = "closed"]
                          IN  u \in Window /\ u.good = w.good /\ u.samples = w.samples
    BY DEF Window, WindowStatus
  <2>4. \A v \in DOMAIN window : window'[v] \in Window /\ window'[v].good <= window'[v].samples
    BY <1>2, <2>2, <2>3
  <2>5. window' = [v \in DOMAIN window |-> window'[v]]
    BY <1>2, Zenon
  <2>6. /\ window' \in Seq(Window) /\ Len(window') = Len(window)
        /\ \A v \in DOMAIN window' : window'[v].good <= window'[v].samples
    BY <2>1, <2>4, <2>5, WindowsFrom
  <2> QED
    BY <2>6 DEF WindowsOK
<1>7. RunsOK'
  <2>1. observed[t.run] \in Nat /\ observed[t.run] + 1 \in 0 .. MaxObservations
    BY <1>2, <1>3, PolicyBounds, SMT DEF TypesInv, RunsOK
  <2>2. observed' \in [Run -> 0 .. MaxObservations]
    BY <1>2, <2>1 DEF TypesInv, RunsOK
  <2>3. experiment' \in [Run -> {"none", "pending", "completed"}]
    BY <1>2, <1>3 DEF TypesInv, RunsOK
  <2> QED
    BY <1>2, <2>2, <2>3 DEF TypesInv, RunsOK
<1>8. DOMAIN tx' = Actor /\ \A b \in Actor : Typed(tx'[b])
  BY <1>2, IdleTyped, TypedStep DEF TypesInv
<1> QED
  BY <1>4, <1>5, <1>6, <1>7, <1>8 DEF TypesInv

LEMMA ExperimentTypes ==
  ASSUME TypesInv, NEW a \in Actor, CompleteExperiments(a)
  PROVE  TypesInv'
<1>1. RunsOK'
  <2>1. tx[a].times \in [Run -> Nat]
    BY DEF CompleteExperiments, TypesInv, Typed, Experiments
  <2>2. \A r \in Run : audited[r] \in Nat /\ tx[a].times[r] \in Nat
    BY <2>1 DEF TypesInv, RunsOK
  <2>3. \A r \in Run : audited[r] + tx[a].times[r] \in Nat
    BY <2>2, SMT
  <2>4. audited' \in [Run -> Nat]
    BY <2>3 DEF CompleteExperiments
  <2> QED
    BY <2>4 DEF CompleteExperiments, TypesInv, RunsOK
<1>2. VersionsOK' /\ WindowsOK' /\ RecentOK(recent') /\ (Len(window) = Len(version))'
  BY DEF CompleteExperiments, TypesInv, VersionsOK, WindowsOK
<1>3. DOMAIN tx' = Actor /\ \A b \in Actor : Typed(tx'[b])
  BY IdleTyped, TypedStep DEF CompleteExperiments, TypesInv
<1> QED
  BY <1>1, <1>2, <1>3 DEF TypesInv

\* The steps of no transaction: a run starts, a window expires, a day passes.
LEMMA StartTypes == ASSUME TypesInv, NEW r \in Run, StartRun(r) PROVE TypesInv'
<1>1. used' \in [Run -> Snapshot]
  BY DEF StartRun, TypesInv, RunsOK, Snapshot
<1> QED
  BY <1>1 DEF StartRun, TypesInv, RunsOK, VersionsOK, WindowsOK

LEMMA CloseTypes == ASSUME TypesInv, NEW v \in Version, CloseWindow(v) PROVE TypesInv'
<1>1. WindowsOK' /\ Len(window') = Len(window)
  <2> DEFINE u == [window[v] EXCEPT !.status = "closed"]
  <2>1. v \in DOMAIN window /\ window' = [window EXCEPT ![v] = u]
    BY DEF CloseWindow, OpenWindows
  <2>2. window \in Seq(Window) /\ \A w \in DOMAIN window : window[w].good <= window[w].samples
    BY DEF TypesInv, WindowsOK
  <2>3. window[v] \in Window
    BY <2>1, <2>2, SMT
  <2>4. u \in Window /\ u.good = window[v].good /\ u.samples = window[v].samples
    BY <2>3 DEF Window, WindowStatus
  <2> HIDE DEF u
  <2>5. window' \in Seq(Window) /\ Len(window') = Len(window) /\ DOMAIN window' = DOMAIN window
    BY <2>1, <2>2, <2>4, SMT
  <2>6. \A w \in DOMAIN window : window'[w].good <= window'[w].samples
    BY <2>1, <2>2, <2>4
  <2> QED
    BY <2>5, <2>6 DEF WindowsOK
<1> QED
  BY <1>1 DEF CloseWindow, TypesInv, VersionsOK, RunsOK

LEMMA DayTypes == ASSUME TypesInv, DayPasses PROVE TypesInv'
<1>1. RecentOK(recent')
  BY SMT DEF DayPasses, RecentOK
<1> QED
  BY <1>1 DEF DayPasses, TypesInv, VersionsOK, WindowsOK, RunsOK

LEMMA InitTypes == ASSUME Init PROVE TypesInv
<1>1. VersionsOK /\ WindowsOK /\ Len(window) = Len(version) /\ RecentOK(recent)
  BY PolicyBounds, SMT DEF Init, VersionsOK, WindowsOK, RecentOK
<1>2. RunsOK
  BY PolicyBounds, SMT DEF Init, RunsOK, Snapshot
<1>3. DOMAIN tx = Actor /\ \A a \in Actor : Typed(tx[a])
  BY IdleTyped DEF Init
<1> QED
  BY <1>1, <1>2, <1>3 DEF TypesInv

LEMMA StepTypes == ASSUME PolicyInv, TypesInv, [Next]_vars PROVE TypesInv'
<1>1. CASE UNCHANGED vars
  BY <1>1 DEF vars, TypesInv, VersionsOK, WindowsOK, RunsOK
<1>2. CASE DayPasses \/ (\E v \in Version : CloseWindow(v)) \/ (\E r \in Run : StartRun(r))
  BY <1>2, DayTypes, CloseTypes, StartTypes
<1>3. ASSUME NEW a \in Actor, CommitPromotion(a) \/ OperatorRollback(a) \/ CommitRollback(a)
      PROVE  TypesInv'
  BY <1>3, PromotionTypes, OperatorTypes, RollbackTypes
<1>4. ASSUME NEW a \in Actor, NEW r \in Run, NEW quality \in {0, 1}, Observe(a, r, quality)
      PROVE  TypesInv'
  BY <1>4, ObserveTypes
<1>5. ASSUME NEW a \in Actor, NEW v \in Version, PassOver(a, v) \/ Condemn(a, v)
      PROVE  TypesInv'
  BY <1>5, JudgeTypes
<1>6. ASSUME NEW a \in Actor, AutoRollback(a) \/ CommitObservation(a)
      PROVE  TypesInv'
  BY <1>6, AutoTypes, ObservationTypes
<1>7. ASSUME NEW a \in Actor,
             \/ BeginPromotion(a) \/ CompleteExperiments(a) \/ Abort(a)
             \/ \E r \in Run : ClaimExperiment(a, r)
      PROVE  TypesInv'
  BY <1>7, BeginTypes, ClaimTypes, ExperimentTypes
<1> QED
  BY <1>1, <1>2, <1>3, <1>4, <1>5, <1>6, <1>7, Zenon DEF Next

(* The rows keep their types, whatever sessions overlap: every version has *)
(* its window, whose good runs are among its runs, and the cooldown reads  *)
(* at most two events.                                                     *)
THEOREM PolicyTypeCorrect == Spec => []PolicyTypeOK
<1>1. Init => PolicyInv /\ TypesInv
  BY InitInv, InitTypes
<1>2. PolicyInv /\ TypesInv /\ [Next]_vars => (PolicyInv /\ TypesInv)'
  BY StepInv, StepTypes
<1>3. PolicyInv /\ TypesInv => PolicyTypeOK
  BY TypesImply
<1> QED
  BY <1>1, <1>2, <1>3, PTL DEF Spec

-----------------------------------------------------------------------------
(* Experiments: an open transaction holds pending jobs that no other holds. *)

Holds(a, r) == tx[a].op = "experiment" /\ tx[a].times[r] > 0

HeldPending == \A a \in Actor, r \in Run : Holds(a, r) => Pending(r)
HeldOnce == \A a, b \in Actor, r \in Run : Holds(a, r) /\ Holds(b, r) => a = b
AuditedDone == \A r \in Run : audited[r] > 0 => experiment[r] = "completed"

ExperimentInv == AuditedDone /\ HeldPending /\ HeldOnce

\* A step after which no transaction holds a job it did not hold, and every
\* held job is as pending as it was.
LEMMA HeldLess ==
  ASSUME ExperimentInv,
         \A b \in Actor, r \in Run : Holds(b, r)' => Holds(b, r) /\ Pending(r)',
         AuditedDone'
  PROVE  ExperimentInv'
BY DEF ExperimentInv, HeldPending, HeldOnce

\* A transaction that is no experiment holds nothing.
LEMMA OtherTx ==
  ASSUME ExperimentInv, DOMAIN tx = Actor, NEW a \in Actor, NEW t, t.op # "experiment",
         tx' = [tx EXCEPT ![a] = t], UNCHANGED <<experiment, audited>>
  PROVE  ExperimentInv'
<1>1. tx'[a] = t /\ \A b \in Actor : b # a => tx'[b] = tx[b]
  BY Zenon
<1>2. \A b \in Actor, r \in Run : Holds(b, r)' => Holds(b, r)
  BY <1>1 DEF Holds
<1>3. \A b \in Actor, r \in Run : Holds(b, r)' => Holds(b, r) /\ Pending(r)'
  BY <1>2 DEF ExperimentInv, HeldPending, Pending
<1>4. AuditedDone'
  BY DEF ExperimentInv, AuditedDone
<1> QED
  BY <1>3, <1>4, HeldLess

\* A claim passes over what others hold; what the session holds itself it may
\* claim again.
LEMMA ClaimOnce ==
  ASSUME ExperimentInv, TypesInv, NEW a \in Actor, NEW r \in Run, ClaimExperiment(a, r)
  PROVE  ExperimentInv'
<1> DEFINE t == [op |-> "experiment", claims |-> Poll(a).claims + 1,
                 times |-> [Poll(a).times EXCEPT ![r] = Poll(a).times[r] + 1]]
<1>1. tx'[a] = t /\ \A b \in Actor : b # a => tx'[b] = tx[b]
  BY Zenon DEF TypesInv, ClaimExperiment
<1>2. UNCHANGED <<experiment, audited>>
  BY DEF ClaimExperiment
<1>3. Pending(r) /\ \A b \in Actor \ {a} : ~Holds(b, r)
  BY DEF ClaimExperiment, Claimable, LockedJobs, Holds
<1>4. ASSUME NEW q \in Run, Holds(a, q)', q # r PROVE Holds(a, q)
  <2>1. Poll(a).times \in [Run -> Nat]
    BY PollTyped DEF ClaimExperiment
  <2>2. t.times = [Poll(a).times EXCEPT ![r] = Poll(a).times[r] + 1]
    OBVIOUS
  <2> HIDE DEF t
  <2>3. Poll(a).times[q] > 0
    BY <1>1, <1>4, <2>1, <2>2 DEF Holds
  <2>4. CASE tx[a] = Idle
    <3>1. Poll(a).times[q] = 0
      BY <2>4 DEF Poll
    <3> QED
      BY <2>3, <3>1, SMT
  <2>5. CASE tx[a] # Idle
    BY <2>3, <2>5 DEF Poll, ClaimExperiment, Holds
  <2> QED
    BY <2>4, <2>5
<1> HIDE DEF t
<1>5. \A b \in Actor, q \in Run : b # a => (Holds(b, q)' <=> Holds(b, q))
  BY <1>1 DEF Holds
<1>6. AuditedDone'
  BY <1>2 DEF ExperimentInv, AuditedDone
<1>7. HeldPending'
  <2> SUFFICES ASSUME NEW b \in Actor, NEW q \in Run, Holds(b, q)' PROVE Pending(q)'
    BY DEF HeldPending
  <2>1. Pending(q)
    BY <1>3, <1>4, <1>5 DEF ExperimentInv, HeldPending
  <2> QED
    BY <1>2, <2>1 DEF Pending
<1>8. HeldOnce'
  <2> SUFFICES ASSUME NEW b \in Actor, NEW c \in Actor, NEW q \in Run, Holds(b, q)', Holds(c, q)'
               PROVE  b = c
    BY DEF HeldOnce
  <2>1. CASE q = r
    BY <1>3, <1>5, <2>1
  <2>2. CASE q # r
    <3>1. Holds(b, q) /\ Holds(c, q)
      BY <1>4, <1>5, <2>2
    <3> QED
      BY <3>1 DEF ExperimentInv, HeldOnce
  <2> QED
    BY <2>1, <2>2
<1> QED
  BY <1>6, <1>7, <1>8 DEF ExperimentInv

\* What a poll commits: each of its jobs as often as it ran it.
LEMMA Committed ==
  ASSUME TypesInv, NEW a \in Actor, CompleteExperiments(a)
  PROVE  /\ tx[a].op = "experiment"
         /\ \A r \in Run :
               /\ audited[r] \in Nat /\ tx[a].times[r] \in Nat /\ tx[a].times[r] <= MaxClaims
               /\ audited'[r] = audited[r] + tx[a].times[r]
               /\ experiment'[r] = IF tx[a].times[r] > 0 THEN "completed" ELSE experiment[r]
<1>1. tx[a].op = "experiment" /\ tx[a].claims = MaxClaims
  BY DEF CompleteExperiments
<1>2. tx[a] \in Experiments /\ \A r \in Run : tx[a].times[r] <= tx[a].claims
  BY <1>1 DEF TypesInv, Typed
<1>3. tx[a].times \in [Run -> Nat] /\ audited \in [Run -> Nat]
  BY <1>2 DEF Experiments, TypesInv, RunsOK
<1> QED
  BY <1>1, <1>2, <1>3 DEF CompleteExperiments

LEMMA CompleteOnce ==
  ASSUME ExperimentInv, TypesInv, NEW a \in Actor, CompleteExperiments(a)
  PROVE  ExperimentInv'
<1>1. tx'[a] = Idle /\ \A b \in Actor : b # a => tx'[b] = tx[b]
  BY Zenon DEF TypesInv, CompleteExperiments
<1>2. ASSUME NEW b \in Actor, NEW r \in Run, Holds(b, r)'
      PROVE  Holds(b, r) /\ Pending(r)'
  <2>1. b # a
    BY <1>1, <1>2 DEF Holds, Idle
  <2>2. Holds(b, r)
    BY <1>1, <1>2, <2>1 DEF Holds
  <2>3. ~(tx[a].times[r] > 0)
    BY <2>1, <2>2, Committed DEF ExperimentInv, HeldOnce, Holds
  <2>4. experiment'[r] = experiment[r]
    BY <2>3, Committed
  <2> QED
    BY <2>2, <2>4 DEF ExperimentInv, HeldPending, Pending
<1>3. ASSUME NEW r \in Run, audited'[r] > 0 PROVE experiment'[r] = "completed"
  <2>1. CASE tx[a].times[r] > 0
    BY <2>1, Committed
  <2>2. CASE ~(tx[a].times[r] > 0)
    <3>1. audited[r] > 0
      BY <1>3, <2>2, Committed, SMT
    <3> QED
      BY <2>2, <3>1, Committed DEF ExperimentInv, AuditedDone
  <2> QED
    BY <2>1, <2>2
<1>4. AuditedDone'
  BY <1>3 DEF AuditedDone
<1> QED
  BY <1>2, <1>4, HeldLess

\* A learning case is queued once: its run had none.
LEMMA ObservationOnce ==
  ASSUME ExperimentInv, TypesInv, NEW a \in Actor, CommitObservation(a)
  PROVE  ExperimentInv'
<1>1. tx'[a] = Idle /\ \A b \in Actor : b # a => tx'[b] = tx[b]
  BY Zenon DEF TypesInv, CommitObservation
<1> DEFINE t == tx[a]
<1>2. /\ experiment' = [experiment EXCEPT ![t.run] = IF t.queues THEN "pending" ELSE @]
      /\ audited' = audited
      /\ t.queues => experiment[t.run] = "none"
  BY DEF CommitObservation
<1>3. DOMAIN experiment = Run
  BY DEF TypesInv, RunsOK
<1> HIDE DEF t
<1>4. \A r \in Run :
         \/ experiment'[r] = experiment[r]
         \/ experiment[r] = "none" /\ experiment'[r] = "pending"
  BY <1>2, <1>3
<1>5. \A b \in Actor, r \in Run : Holds(b, r)' => Holds(b, r)
  BY <1>1 DEF Holds, Idle
<1>6. \A b \in Actor, r \in Run : Holds(b, r)' => Holds(b, r) /\ Pending(r)'
  BY <1>4, <1>5 DEF ExperimentInv, HeldPending, Pending
<1>7. AuditedDone'
  BY <1>2, <1>4 DEF ExperimentInv, AuditedDone
<1> QED
  BY <1>6, <1>7, HeldLess

\* Every other transaction is about versions and windows.
LEMMA VersionsOnce ==
  ASSUME ExperimentInv, PolicyInv, TypesInv, NEW a \in Actor,
         \/ BeginPromotion(a) \/ CommitPromotion(a) \/ OperatorRollback(a) \/ CommitRollback(a)
         \/ \E r \in Run, quality \in {0, 1} : Observe(a, r, quality)
         \/ \E v \in Version : PassOver(a, v) \/ Condemn(a, v)
         \/ AutoRollback(a) \/ Abort(a)
  PROVE  ExperimentInv'
<1>1. ASSUME NEW t, t.op # "experiment", tx' = [tx EXCEPT ![a] = t],
             UNCHANGED <<experiment, audited>>
      PROVE  ExperimentInv'
  BY <1>1, OtherTx DEF TypesInv
<1>2. Idle.op # "experiment" /\ [op |-> "promote", seen |-> Active].op # "experiment"
  BY DEF Idle
<1>3. CASE BeginPromotion(a) \/ CommitPromotion(a) \/ CommitRollback(a) \/ Abort(a)
  BY <1>1, <1>2, <1>3 DEF BeginPromotion, CommitPromotion, CommitRollback, Abort
<1>4. CASE OperatorRollback(a)
  <2>1. CanRollBack /\ tx' = [tx EXCEPT ![a] = Swapped(Operator)]
    BY <1>4 DEF OperatorRollback, Operator
  <2>2. Swapped(Operator).op = "rollback"
    BY OperatorBalanced, SwapFields DEF Balanced, Loaded
  <2> QED
    BY <1>1, <1>4, <2>1, <2>2 DEF OperatorRollback
<1>5. ASSUME NEW r \in Run, NEW quality \in {0, 1}, Observe(a, r, quality)
      PROVE  ExperimentInv'
  <2> DEFINE s == Sampled(r, quality)
             todo == {v \in OpenWindows : Regressed(WithSample(s)[v])}
             queues == quality = 0 /\ experiment[r] = "none"
             t == [op |-> "judge", run |-> r, sample |-> s, queues |-> queues, todo |-> todo,
                   on_trial |-> 0, done |-> {},
                   was |-> {}, wasnt |-> {}, now |-> {}, events |-> <<>>]
  <2>1. tx' = [tx EXCEPT ![a] = t] /\ UNCHANGED <<experiment, audited>>
    BY <1>5 DEF Observe
  <2> HIDE DEF s, todo, queues
  <2>2. t.op # "experiment"
    OBVIOUS
  <2> HIDE DEF t
  <2> QED
    BY <1>1, <2>1, <2>2
<1>6. ASSUME NEW v \in Version, PassOver(a, v) \/ Condemn(a, v)
      PROVE  ExperimentInv'
  <2>1. tx[a] \in Judgement
    BY <1>6 DEF PassOver, Condemn, TypesInv, Typed
  <2>2. DOMAIN tx[a] = {"op", "run", "sample", "queues", "todo", "on_trial", "done",
                        "was", "wasnt", "now", "events"} /\ tx[a].op \in {"judge", "choose"}
    BY <2>1 DEF Judgement
  <2>3. [tx[a] EXCEPT !.todo = tx[a].todo \ {v}].op # "experiment"
    BY <2>2
  <2>4. [tx[a] EXCEPT !.op = "choose", !.on_trial = v, !.todo = tx[a].todo \ {v}].op # "experiment"
    BY <2>2
  <2> QED
    BY <1>1, <1>6, <2>3, <2>4 DEF PassOver, Condemn, TypesInv
<1>7. CASE AutoRollback(a)
  <2>1. tx[a] \in Judgement
    BY <1>7 DEF AutoRollback, TypesInv, Typed
  <2>2. DOMAIN tx[a] = {"op", "run", "sample", "queues", "todo", "on_trial", "done",
                        "was", "wasnt", "now", "events"}
    BY <2>1 DEF Judgement
  <2>3. CASE CanRollBack
    <3> DEFINE t == Swapped(tx[a])
               u == [t EXCEPT !.op = "judge", !.on_trial = 0, !.done = @ \cup {tx[a].on_trial}]
    <3>1. DOMAIN t = DOMAIN tx[a]
      BY <2>2, SwapFields
    <3>2. tx' = [tx EXCEPT ![a] = u]
      BY <1>7, <2>3 DEF AutoRollback
    <3> HIDE DEF t
    <3>3. u.op = "judge"
      BY <2>2, <3>1
    <3> HIDE DEF u
    <3> QED
      BY <1>1, <1>7, <3>2, <3>3 DEF AutoRollback
  <2>4. CASE ~CanRollBack
    <3>1. [tx[a] EXCEPT !.op = "judge", !.on_trial = 0].op = "judge"
      BY <2>2
    <3> QED
      BY <1>1, <1>7, <2>4, <3>1 DEF AutoRollback
  <2> QED
    BY <2>3, <2>4
<1> QED
  BY <1>3, <1>4, <1>5, <1>6, <1>7

LEMMA StepOnce == ASSUME ExperimentInv, PolicyInv, TypesInv, [Next]_vars PROVE ExperimentInv'
<1>1. CASE UNCHANGED <<experiment, audited, tx>>
  BY <1>1 DEF ExperimentInv, AuditedDone, HeldPending, HeldOnce, Holds, Pending
<1>2. CASE DayPasses \/ (\E v \in Version : CloseWindow(v)) \/ (\E r \in Run : StartRun(r))
  BY <1>1, <1>2 DEF DayPasses, CloseWindow, StartRun
<1>3. CASE UNCHANGED vars
  BY <1>1, <1>3 DEF vars
<1>4. ASSUME NEW a \in Actor,
             \/ BeginPromotion(a) \/ CommitPromotion(a) \/ OperatorRollback(a) \/ CommitRollback(a)
             \/ \E r \in Run, quality \in {0, 1} : Observe(a, r, quality)
             \/ \E v \in Version : PassOver(a, v) \/ Condemn(a, v)
             \/ AutoRollback(a) \/ Abort(a)
      PROVE  ExperimentInv'
  BY <1>4, VersionsOnce
<1>5. ASSUME NEW a \in Actor,
             \/ \E r \in Run : ClaimExperiment(a, r)
             \/ CompleteExperiments(a) \/ CommitObservation(a)
      PROVE  ExperimentInv'
  BY <1>5, ClaimOnce, CompleteOnce, ObservationOnce
<1> QED
  BY <1>2, <1>3, <1>4, <1>5, Zenon DEF Next

\* The audit grows by what one poll commits, of jobs that were still pending.
LEMMA StepAudits ==
  ASSUME ExperimentInv, TypesInv, [Next]_vars, NEW r \in Run, audited'[r] # audited[r]
  PROVE  /\ audited[r] = 0 /\ audited'[r] <= MaxClaims
         /\ Pending(r) /\ experiment'[r] = "completed"
<1>1. PICK a \in Actor : CompleteExperiments(a)
  <2>1. ~UNCHANGED audited
    OBVIOUS
  <2> QED
    BY <2>1, Zenon DEF Next, vars, DayPasses, CloseWindow, StartRun, BeginPromotion,
       CommitPromotion, OperatorRollback, CommitRollback, Observe, PassOver, Condemn,
       AutoRollback, CommitObservation, ClaimExperiment, Abort
<1>2. /\ audited[r] \in Nat /\ tx[a].times[r] \in Nat /\ tx[a].times[r] <= MaxClaims
      /\ audited'[r] = audited[r] + tx[a].times[r]
      /\ experiment'[r] = IF tx[a].times[r] > 0 THEN "completed" ELSE experiment[r]
      /\ tx[a].op = "experiment"
  BY <1>1, Committed
<1>3. tx[a].times[r] > 0
  BY <1>2, SMT
<1>4. Pending(r)
  BY <1>2, <1>3 DEF ExperimentInv, HeldPending, Holds
<1>5. ~(audited[r] > 0)
  BY <1>4 DEF ExperimentInv, AuditedDone, Pending
<1>6. audited[r] = 0 /\ audited'[r] <= MaxClaims
  BY <1>2, <1>5, SMT
<1> QED
  BY <1>2, <1>3, <1>4, <1>6

(* However many idle workers poll, crash and commit over one another, the  *)
(* results of an experiment reach the audit with one commit of one poll,   *)
(* and the job is completed with it.                                       *)
THEOREM ExperimentsRunOnce == Spec => ExperimentOnce
<1>1. Init => PolicyInv /\ TypesInv
  BY InitInv, InitTypes
<1>2. Init => ExperimentInv
  BY DEF Init, ExperimentInv, AuditedDone, HeldPending, HeldOnce, Holds, Idle
<1>3. PolicyInv /\ TypesInv /\ [Next]_vars => (PolicyInv /\ TypesInv)'
  BY StepInv, StepTypes
<1>4. ExperimentInv /\ PolicyInv /\ TypesInv /\ [Next]_vars => ExperimentInv'
  BY StepOnce
<1>5. ExperimentInv /\ TypesInv /\ [Next]_vars
        => [\A r \in Run : audited'[r] # audited[r] =>
               /\ audited[r] = 0 /\ audited'[r] <= MaxClaims
               /\ Pending(r) /\ experiment'[r] = "completed"]_vars
  BY StepAudits
<1> QED
  BY <1>1, <1>2, <1>3, <1>4, <1>5, PTL DEF Spec, ExperimentOnce

-----------------------------------------------------------------------------
(* A promotion that no other change of the versions overlaps.              *)

\* Only a promotion makes the list of versions longer.
LEMMA OnlyPromotionGrows ==
  ASSUME TypesInv, [Next]_vars, Len(version') > Len(version)
  PROVE  \E b \in Actor : CommitPromotion(b)
<1>1. ~UNCHANGED version
  BY SMT DEF TypesInv, VersionsOK
<1>2. \A b \in Actor : version' # Rewritten(tx[b])
  BY RewrittenOK, SMT DEF TypesInv, VersionsOK
<1> QED
  BY <1>1, <1>2, Zenon DEF Next, vars, DayPasses, CloseWindow, StartRun, BeginPromotion,
     OperatorRollback, CommitRollback, Observe, PassOver, Condemn, AutoRollback,
     CommitObservation, ClaimExperiment, CompleteExperiments, Abort

LEMMA AppendKeeps ==
  ASSUME NEW S, NEW seq \in Seq(S), NEW e \in S
  PROVE  \A i \in 1 .. Len(seq) : Append(seq, e)[i] = seq[i]
BY SMT

LEMMA PromotionHeals ==
  ASSUME TypesInv, [Next]_vars, NEW a \in Actor, tx[a].op = "promote", tx'[a] = Idle,
         Len(version') > Len(version), tx[a].seen = Active
  PROVE  {v \in DOMAIN version' : version'[v]} = {Len(version')}
<1>1. PICK b \in Actor : CommitPromotion(b)
  BY OnlyPromotionGrows
<1>2. b = a
  <2>1. b # a => tx'[a] = tx[a]
    BY <1>1 DEF CommitPromotion, TypesInv
  <2> QED
    BY <2>1 DEF Idle
<1> DEFINE n == Len(version)
           rest == [v \in DOMAIN version |-> version[v] /\ v \notin Superseded(tx[a].seen)]
<1>3. version' = Append(rest, TRUE)
  BY <1>1, <1>2 DEF CommitPromotion
<1>4. DOMAIN version = 1 .. n /\ n \in Nat
  BY SMT DEF TypesInv, VersionsOK
<1>5. rest \in [1 .. n -> BOOLEAN]
  BY <1>4, Zenon
<1>6. \A v \in 1 .. n : ~rest[v]
  BY <1>4 DEF Superseded, Active
<1> HIDE DEF rest, n
<1>7. rest \in Seq(BOOLEAN) /\ Len(rest) = n
  BY <1>4, <1>5, SMT
<1>8. /\ Len(version') = n + 1 /\ DOMAIN version' = 1 .. (n + 1)
      /\ version'[n + 1]
  BY <1>3, <1>4, <1>7, SMT
<1>11. \A v \in 1 .. n : version'[v] = rest[v]
  <2>1. TRUE \in BOOLEAN
    OBVIOUS
  <2>2. \A v \in 1 .. Len(rest) : Append(rest, TRUE)[v] = rest[v]
    BY <1>7, <2>1, AppendKeeps, Zenon
  <2> QED
    BY <1>3, <1>7, <2>2, Zenon
<1>9. \A v \in 1 .. (n + 1) : v = n + 1 \/ v \in 1 .. n
  BY <1>4, SMT
<1>10. n + 1 \in 1 .. (n + 1)
  BY <1>4, SMT
<1> QED
  BY <1>6, <1>8, <1>9, <1>10, <1>11, Zenon

(* A promotion whose read of the active versions is still true when it     *)
(* commits leaves exactly the version it promoted in service, whatever     *)
(* races left several of them active before.                               *)
THEOREM PromotionsHeal == Spec => PromotionHealsRace
<1>1. Init => PolicyInv /\ TypesInv
  BY InitInv, InitTypes
<1>2. PolicyInv /\ TypesInv /\ [Next]_vars => (PolicyInv /\ TypesInv)'
  BY StepInv, StepTypes
<1>3. TypesInv /\ [Next]_vars
        => [\A a \in Actor :
               tx[a].op = "promote" /\ tx'[a] = Idle /\ Len(version') > Len(version)
                 /\ tx[a].seen = Active
               => {v \in DOMAIN version' : version'[v]} = {Len(version')}]_vars
  BY PromotionHeals
<1> QED
  BY <1>1, <1>2, <1>3, PTL DEF Spec, PromotionHealsRace
=============================================================================
