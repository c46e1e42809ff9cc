--------------------------- MODULE Monitors_proofs ---------------------------
(***************************************************************************)
(* Proofs about the dispatch of monitors, for any monitors, owners,        *)
(* workers, clients, quotas and batches.                                   *)
(***************************************************************************)
EXTENDS Monitors, FiniteSetTheorems, SequenceTheorems, WellFoundedInduction, TLAPS

-----------------------------------------------------------------------------
(* What Without leaves of an agenda.  It is recursive, and nothing is known *)
(* of a recursive function before it is shown to exist: by the least        *)
(* number for which it would not.                                           *)

LEMMA Least ==
  ASSUME NEW T \in SUBSET Nat, T # {}
  PROVE  \E x \in T : \A y \in T : x <= y
<1> DEFINE R == OpToRel(<, Nat)
<1>1. IsWellFoundedOn(R, Nat)
  BY NatLessThanWellFounded
<1>2. \A x, y \in Nat : x < y => <<x, y>> \in R
  BY DEF OpToRel
<1> HIDE DEF R
<1>3. PICK x \in T : \A y \in T : <<y, x>> \notin R
  BY <1>1, WFMin
<1>4. \A y \in T : ~(y < x)
  BY <1>2, <1>3
<1> QED
  BY <1>3, <1>4, SMT

\* One step of kept, and the equation that defines it up to n.
Step(ms, queue, g, i) ==
  IF i = 0 THEN <<>>
  ELSE IF queue[i] \in ms THEN g[i - 1] ELSE Append(g[i - 1], queue[i])

Keeps(ms, queue, g, n) == g = [i \in 0..n |-> Step(ms, queue, g, i)]

LEMMA KeptExists ==
  ASSUME NEW ms, NEW queue, NEW n \in Nat
  PROVE  \E g : Keeps(ms, queue, g, n)
<1> DEFINE T == {k \in Nat : ~\E g : Keeps(ms, queue, g, k)}
<1>1. SUFFICES ASSUME T # {} PROVE FALSE
  OBVIOUS
<1>2. PICK k \in T : \A y \in T : k <= y
  BY <1>1, Least
<1>3. CASE k = 0
  <2> DEFINE g == [i \in 0..0 |-> <<>>]
  <2>1. \A i \in 0..0 : Step(ms, queue, g, i) = <<>>
    BY SMT DEF Step
  <2>2. Keeps(ms, queue, g, 0)
    BY <2>1 DEF Keeps
  <2> QED
    BY <1>2, <1>3, <2>2
<1>4. CASE k # 0
  <2>1. k - 1 \in Nat /\ k - 1 \notin T
    BY <1>2, <1>4, SMT
  <2>2. PICK h : Keeps(ms, queue, h, k - 1)
    BY <2>1
  <2> DEFINE g == [i \in 0..k |-> IF i = k THEN Step(ms, queue, h, k) ELSE h[i]]
  <2>3. \A i \in 0..(k - 1) : h[i] = Step(ms, queue, h, i)
    BY <2>2 DEF Keeps
  <2>4. \A i \in 0..k : i > 0 => g[i - 1] = h[i - 1]
    BY <2>1, SMT
  <2>5. \A i \in 0..k : Step(ms, queue, g, i) = Step(ms, queue, h, i)
    <3> HIDE DEF g
    <3> QED BY <2>4 DEF Step
  <2>6. \A i \in 0..k : g[i] = Step(ms, queue, g, i)
    <3>1. TAKE i \in 0..k
    <3>2. CASE i = k
      BY <2>5, <3>2
    <3>3. CASE i # k
      <4>1. i \in 0..(k - 1)
        BY <2>1, <3>3, SMT
      <4> QED
        BY <2>3, <2>5, <3>3, <4>1
    <3> QED BY <3>2, <3>3
  <2>7. g = [i \in 0..k |-> Step(ms, queue, g, i)]
    <3>1. g = [i \in 0..k |-> g[i]]
      OBVIOUS
    <3> HIDE DEF g
    <3> QED BY <2>6, <3>1
  <2>8. Keeps(ms, queue, g, k)
    BY <2>7 DEF Keeps
  <2> QED
    BY <1>2, <2>8
<1> QED
  BY <1>3, <1>4

LEMMA WithoutIs ==
  ASSUME NEW S, NEW ms, NEW queue \in Seq(S)
  PROVE  Without(ms, queue) \in Seq(S \ ms)
<1> DEFINE f == CHOOSE g : Keeps(ms, queue, g, Len(queue))
           T == {k \in Nat : k <= Len(queue) /\ f[k] \notin Seq(S \ ms)}
<1>1. Without(ms, queue) = f[Len(queue)]
  BY DEF Without, Keeps, Step
<1>2. Len(queue) \in Nat /\ Keeps(ms, queue, f, Len(queue))
  BY KeptExists
<1>3. \A i \in 0..Len(queue) : f[i] = Step(ms, queue, f, i)
  BY <1>2 DEF Keeps
<1> HIDE DEF f
<1>4. SUFFICES ASSUME T # {} PROVE FALSE
  BY <1>1, <1>2
<1>5. PICK k \in T : \A y \in T : k <= y
  BY <1>4, Least
<1>6. f[k] = Step(ms, queue, f, k) /\ f[k] \notin Seq(S \ ms) /\ k \in 0..Len(queue)
  BY <1>3, <1>5, <1>2
<1>7. k # 0
  <2>1. <<>> \in Seq(S \ ms)
    OBVIOUS
  <2> QED
    BY <1>6, <2>1 DEF Step
<1>8. f[k - 1] \in Seq(S \ ms) /\ queue[k] \in S
  BY <1>5, <1>6, <1>7, <1>2, SMT
<1>9. queue[k] \notin ms => Append(f[k - 1], queue[k]) \in Seq(S \ ms)
  BY <1>8
<1> QED
  BY <1>6, <1>7, <1>8, <1>9 DEF Step

-----------------------------------------------------------------------------
(* The kinds of runs, and the rows of tx.                                  *)

LEMMA Kinds ==
  ASSUME NEW m \in Monitor, NEW n \in Monitor, NEW o \in Owner, NEW c \in BOOLEAN
  PROVE  /\ MonitorRun(m) \in Kind /\ UserRun(o, c) \in Kind
         /\ MonitorRun(m).owner = OwnerOf[m] /\ MonitorRun(m).monitor = m
         /\ MonitorRun(m).checked = TRUE
         /\ UserRun(o, c).owner = o /\ UserRun(o, c).monitor = None
         /\ UserRun(o, c).checked = c
         /\ MonitorRun(m) # UserRun(o, c)
         /\ MonitorRun(m) = MonitorRun(n) => m = n
<1>1. None # m
  BY MonitorsAssumption
<1>2. MonitorRun(m) \in Kind /\ UserRun(o, c) \in Kind
  BY DEF Kind
<1>3. MonitorRun(m).monitor = m /\ MonitorRun(n).monitor = n /\ UserRun(o, c).monitor = None
  BY DEF MonitorRun, UserRun
<1>4. /\ MonitorRun(m).owner = OwnerOf[m] /\ MonitorRun(m).checked = TRUE
      /\ UserRun(o, c).owner = o /\ UserRun(o, c).checked = c
  BY DEF MonitorRun, UserRun
<1> QED
  BY <1>1, <1>2, <1>3, <1>4

LEMMA UserKinds ==
  ASSUME NEW o \in Owner, NEW c \in BOOLEAN
  PROVE  UserRun(o, c) \in Kind
BY DEF Kind

LEMMA KindCases ==
  ASSUME NEW k \in Kind
  PROVE  \/ \E m \in Monitor : k = MonitorRun(m) \/ k = Returned(MonitorRun(m))
         \/ \E o \in Owner : \E c \in BOOLEAN : k = UserRun(o, c)
BY DEF Kind

LEMMA ReturnedKinds ==
  ASSUME NEW k \in Kind
  PROVE  /\ Returned(k) \in Kind /\ Returned(k).checked = FALSE
         /\ Returned(k).owner = k.owner /\ Returned(k).monitor = k.monitor
<1>1. /\ Returned(k).checked = FALSE
      /\ Returned(k).owner = k.owner /\ Returned(k).monitor = k.monitor
  BY DEF Returned
<1>2. ASSUME NEW m \in Monitor, k = MonitorRun(m) \/ k = Returned(MonitorRun(m))
      PROVE  Returned(k) \in Kind
  <2>1. k.owner = MonitorRun(m).owner /\ k.monitor = MonitorRun(m).monitor
    BY <1>2 DEF Returned
  <2>2. Returned(k) = Returned(MonitorRun(m))
    BY <2>1 DEF Returned
  <2> QED BY <2>2 DEF Kind
<1>3. ASSUME NEW o \in Owner, NEW c \in BOOLEAN, k = UserRun(o, c)
      PROVE  Returned(k) \in Kind
  <2>1. k.owner = o /\ k.monitor = None
    BY <1>3 DEF UserRun
  <2>2. Returned(k) = UserRun(o, FALSE)
    BY <2>1 DEF Returned, UserRun
  <2> QED BY <2>2, UserKinds
<1> QED
  BY <1>1, <1>2, <1>3, KindCases

LEMMA MonitorKinds ==
  ASSUME NEW m \in Monitor
  PROVE  /\ MonitorRun(m) \in Kind /\ MonitorRun(m).checked
         /\ MonitorRun(m).owner = OwnerOf[m] /\ MonitorRun(m).monitor = m
         /\ m # None
<1>1. MonitorRun(m) \in Kind
  BY DEF Kind
<1>2. /\ MonitorRun(m).checked /\ MonitorRun(m).owner = OwnerOf[m]
      /\ MonitorRun(m).monitor = m
  BY DEF MonitorRun
<1> QED
  BY <1>1, <1>2, MonitorsAssumption

LEMMA NoTxRow ==
  /\ NoTx \in TxRow
  /\ NoTx.pc = "idle" /\ NoTx.todo = <<>> /\ NoTx.made = {}
  /\ NoTx.rows = {} /\ NoTx.keys = {}
BY DEF NoTx, TxRow

LEMMA DecidedRow ==
  ASSUME MonitorsTypeOK, NEW p \in Process, NEW m \in Monitor, Looking(p, m),
         NEW later \in SUBSET Monitor, NEW made \in SUBSET Kind,
         OwnerOf[m] # None => OwnerOf[m] \in Owner,
         Decide(p, m, later, made)
  PROVE  /\ tx' \in [Process -> TxRow]
         /\ \A q \in Process \ {p} : tx'[q] = tx[q]
         /\ tx'[p].pc = "dispatching"
         /\ tx'[p].todo = Tail(tx[p].todo)
         /\ tx'[p].made = tx[p].made \cup made
         /\ tx'[p].rows = tx[p].rows
         /\ tx'[p].keys = IF OwnerOf[m] = None THEN tx[p].keys
                                              ELSE tx[p].keys \cup {OwnerOf[m]}
<1> DEFINE rest == Tail(tx[p].todo)
           r1 == [tx[p] EXCEPT !.todo = rest]
           r2 == [r1 EXCEPT !.later = tx[p].later \cup later]
           r3 == [r2 EXCEPT !.made = tx[p].made \cup made]
           keys == IF OwnerOf[m] = None THEN tx[p].keys ELSE tx[p].keys \cup {OwnerOf[m]}
           row == [r3 EXCEPT !.keys = keys]
<1>1. tx[p] \in TxRow /\ tx[p].todo \in Seq(Monitor) /\ tx[p].todo # <<>>
  BY DEF MonitorsTypeOK, Looking, TxRow
<1>2. tx' = [tx EXCEPT ![p] = row]
  BY DEF Decide
<1>3. /\ r1 \in TxRow /\ r1.todo = rest /\ r1.pc = tx[p].pc
      /\ r1.made = tx[p].made /\ r1.rows = tx[p].rows /\ r1.keys = tx[p].keys
  <2>1. rest \in Seq(Monitor)
    BY <1>1
  <2> HIDE DEF rest
  <2> QED BY <1>1, <2>1 DEF TxRow
<1>4. /\ r2 \in TxRow /\ r2.todo = rest /\ r2.pc = tx[p].pc
      /\ r2.made = tx[p].made /\ r2.rows = tx[p].rows /\ r2.keys = tx[p].keys
  <2> HIDE DEF r1
  <2> QED BY <1>1, <1>3 DEF TxRow
<1>5. /\ r3 \in TxRow /\ r3.todo = rest /\ r3.pc = tx[p].pc
      /\ r3.made = tx[p].made \cup made /\ r3.rows = tx[p].rows /\ r3.keys = tx[p].keys
  <2> HIDE DEF r2
  <2> QED BY <1>1, <1>4 DEF TxRow
<1>6. /\ row \in TxRow /\ row.todo = rest /\ row.pc = tx[p].pc
      /\ row.made = tx[p].made \cup made /\ row.rows = tx[p].rows /\ row.keys = keys
  <2>1. keys \in SUBSET Owner
    BY <1>1 DEF TxRow
  <2> HIDE DEF r3, keys
  <2> QED BY <1>1, <1>5, <2>1 DEF TxRow
<1> HIDE DEF row
<1> QED
  BY <1>2, <1>6 DEF MonitorsTypeOK, Looking

-----------------------------------------------------------------------------
(* Locks.  Two transactions never hold the same row or the same key, and a *)
(* transaction holds the rows it looks at and what its runs count for.  A  *)
(* request that has yet to bump a monitor has one.                         *)

Claims(p) ==
  /\ tx[p].todo \in Seq(tx[p].rows)
  /\ \A k \in tx[p].made : /\ k.checked /\ k.owner \in tx[p].keys
                           /\ k.monitor # None => k.monitor \in tx[p].rows
  /\ tx[p].pc \notin {"dispatching", "inserting"} =>
       tx[p].rows = {} /\ tx[p].made = {} /\ tx[p].keys = {}
  /\ tx[p].pc = "bumping" => tx[p].target \in Monitor

Apart(p, q) == tx[p].rows \cap tx[q].rows = {} /\ tx[p].keys \cap tx[q].keys = {}

LocksHeld ==
  /\ \A p \in Process : Claims(p)
  /\ \A p \in Process : \A q \in Process \ {p} : Apart(p, q)

LEMMA OneRowChanges ==
  ASSUME LocksHeld, NEW p \in Process,
         \A q \in Process \ {p} : tx'[q] = tx[q],
         Claims(p)',
         \A q \in Process \ {p} : Apart(p, q)'
  PROVE  LocksHeld'
<1>1. \A q \in Process : Claims(q)'
  BY DEF LocksHeld, Claims
<1>2. ASSUME NEW q \in Process, NEW r \in Process \ {q} PROVE Apart(q, r)'
  <2>1. CASE q = p
    BY <2>1
  <2>2. CASE q # p /\ r = p
    BY <2>2 DEF Apart
  <2>3. CASE q # p /\ r # p
    BY <2>3 DEF LocksHeld, Apart
  <2> QED BY <2>1, <2>2, <2>3
<1> QED
  BY <1>1, <1>2 DEF LocksHeld

\* A transaction that ends.
LEMMA TxEnds ==
  ASSUME MonitorsTypeOK, LocksHeld, NEW p \in Process, tx' = [tx EXCEPT ![p] = NoTx]
  PROVE  /\ tx' \in [Process -> TxRow] /\ LocksHeld'
         /\ \A q \in Process \ {p} : tx'[q] = tx[q]
         /\ tx'[p].made = {}
<1>1. tx' \in [Process -> TxRow] /\ tx'[p] = NoTx /\ \A q \in Process \ {p} : tx'[q] = tx[q]
  BY NoTxRow DEF MonitorsTypeOK
<1>2. <<>> \in Seq({})
  OBVIOUS
<1>3. Claims(p)' /\ \A q \in Process \ {p} : Apart(p, q)'
  BY <1>1, <1>2, NoTxRow DEF Claims, Apart
<1> QED
  BY <1>1, <1>3, OneRowChanges, NoTxRow

\* What the claim of a dispatch takes is free.
LEMMA ClaimedFree ==
  ASSUME MonitorsTypeOK, NEW p \in Process
  PROVE  /\ Claimed(p) \in Seq(ToSet(Claimed(p)))
         /\ ToSet(Claimed(p)) \in SUBSET Monitor
         /\ \A m \in ToSet(Claimed(p)) : RowFree(p, m)
<1> DEFINE busy == {m \in Monitor : monitor[m] # "enabled" \/ ~RowFree(p, m)}
           c == Claimable(p)
           n == IF Len(c) < Batch THEN Len(c) ELSE Batch
<1>1. c \in Seq(Monitor \ busy)
  BY WithoutIs DEF Claimable, MonitorsTypeOK
<1>2. Claimed(p) = SubSeq(c, 1, n)
  BY DEF Claimed
<1>3. n \in Nat /\ n <= Len(c) /\ 1 \in Int
  BY <1>1, MonitorsAssumption, SMT
<1> HIDE DEF c, n
<1>4. \A i \in 1..n : c[i] \in Monitor \ busy
  BY <1>1, <1>3, SMT
<1>5. Claimed(p) \in Seq(Monitor \ busy)
  <2> HIDE DEF busy
  <2>1. SubSeq(c, 1, n) \in Seq(Monitor \ busy)
    BY <1>3, <1>4, SubSeqProperties, SMT
  <2> QED BY <1>2, <2>1
<1>6. ToSet(Claimed(p)) \subseteq Monitor \ busy
  BY <1>5, LenProperties, ElementOfSeq DEF ToSet
<1>7. Claimed(p) \in Seq(ToSet(Claimed(p)))
  BY <1>5, LenProperties DEF ToSet
<1> QED
  BY <1>6, <1>7

LEMMA ClaimDueRow ==
  ASSUME MonitorsTypeOK, LocksHeld, NEW p \in Process, ClaimDue(p)
  PROVE  /\ tx' \in [Process -> TxRow] /\ LocksHeld'
         /\ \A q \in Process : tx'[q].made = tx[q].made
<1> DEFINE claimed == Claimed(p)
           held == ToSet(claimed)
           r1 == [tx[p] EXCEPT !.pc = "dispatching"]
           r2 == [r1 EXCEPT !.todo = claimed]
           row == [r2 EXCEPT !.rows = held]
<1>1. /\ tx[p] \in TxRow /\ tx[p].keys = {} /\ tx[p].made = {}
  BY DEF MonitorsTypeOK, LocksHeld, Claims, ClaimDue
<1>2. tx' = [tx EXCEPT ![p] = row]
  BY DEF ClaimDue
<1>3. claimed \in Seq(held) /\ held \in SUBSET Monitor /\ \A m \in held : RowFree(p, m)
  BY ClaimedFree
<1> HIDE DEF claimed, held
<1>4. claimed \in Seq(Monitor)
  BY <1>3
<1>5. /\ r1 \in TxRow /\ r1.pc = "dispatching" /\ r1.made = {} /\ r1.keys = {}
  BY <1>1 DEF TxRow
<1>6. /\ r2 \in TxRow /\ r2.pc = "dispatching" /\ r2.made = {} /\ r2.keys = {}
      /\ r2.todo = claimed
  <2> HIDE DEF r1
  <2> QED BY <1>4, <1>5 DEF TxRow
<1>7. /\ row \in TxRow /\ row.pc = "dispatching" /\ row.made = {} /\ row.keys = {}
      /\ row.todo = claimed /\ row.rows = held
  <2> HIDE DEF r2
  <2> QED BY <1>3, <1>6 DEF TxRow
<1> HIDE DEF row
<1>8. tx' \in [Process -> TxRow] /\ tx'[p] = row /\ \A q \in Process \ {p} : tx'[q] = tx[q]
  BY <1>2, <1>7 DEF MonitorsTypeOK
<1>9. Claims(p)'
  BY <1>3, <1>7, <1>8 DEF Claims
<1>10. \A q \in Process \ {p} : Apart(p, q)'
  BY <1>3, <1>7, <1>8 DEF Apart, RowFree
<1> QED
  BY <1>1, <1>7, <1>8, <1>9, <1>10, OneRowChanges

LEMMA DecideHeld ==
  ASSUME MonitorsTypeOK, LocksHeld, NEW p \in Process, NEW m \in Monitor,
         Looking(p, m), QuotaLock(p, OwnerOf[m]),
         NEW later \in SUBSET Monitor, NEW made \in SUBSET {MonitorRun(m)},
         OwnerOf[m] = None => made = {},
         Decide(p, m, later, made)
  PROVE  /\ tx' \in [Process -> TxRow] /\ LocksHeld'
         /\ \A q \in Process \ {p} : tx'[q] = tx[q]
         /\ tx'[p].made = tx[p].made \cup made
         /\ m \in tx[p].rows
<1> DEFINE row == tx'[p]
<1>1. OwnerOf[m] # None => OwnerOf[m] \in Owner
  BY MonitorsAssumption
<1>2. made \in SUBSET Kind
  BY DEF Kind
<1>3. /\ tx' \in [Process -> TxRow]
      /\ \A q \in Process \ {p} : tx'[q] = tx[q]
      /\ row.pc = "dispatching"
      /\ row.todo = Tail(tx[p].todo)
      /\ row.made = tx[p].made \cup made
      /\ row.rows = tx[p].rows
      /\ row.keys = IF OwnerOf[m] = None THEN tx[p].keys ELSE tx[p].keys \cup {OwnerOf[m]}
  BY <1>1, <1>2, DecidedRow, Zenon
<1> HIDE DEF row
<1>4. /\ tx[p].todo \in Seq(tx[p].rows) /\ tx[p].todo # <<>> /\ m = Head(tx[p].todo)
  BY DEF LocksHeld, Claims, Looking
<1>5. m \in tx[p].rows /\ Tail(tx[p].todo) \in Seq(tx[p].rows)
  BY <1>4, HeadTailProperties, Zenon
<1>6. \A k \in row.made : /\ k.checked /\ k.owner \in row.keys
                          /\ k.monitor # None => k.monitor \in row.rows
  <2>1. TAKE k \in row.made
  <2>2. CASE k \in tx[p].made
    BY <1>3, <2>2 DEF LocksHeld, Claims
  <2>3. CASE k \in made
    BY <1>3, <1>5, <2>3 DEF MonitorRun
  <2> QED BY <1>3, <2>2, <2>3
<1>7. Claims(p)'
  BY <1>3, <1>5, <1>6 DEF Claims, row
<1>8. \A q \in Process \ {p} : Apart(p, q)'
  <2>1. TAKE q \in Process \ {p}
  <2>2. Apart(p, q)
    BY DEF LocksHeld
  <2>3. OwnerOf[m] # None => OwnerOf[m] \notin tx[q].keys
    BY DEF QuotaLock, KeyFree
  <2> QED BY <1>3, <2>2, <2>3 DEF Apart, row
<1> QED
  BY <1>3, <1>5, <1>7, <1>8, OneRowChanges DEF row

\* A client's request that takes no lock: run-now, before and after its bump.
LEMMA RequestRow ==
  ASSUME MonitorsTypeOK, LocksHeld, NEW c \in Process,
         tx[c].pc \in {"idle", "bumping", "claiming"},
         NEW target \in Monitor, NEW pc \in {"bumping", "claiming"},
         tx' = [tx EXCEPT ![c] = [[tx[c] EXCEPT !.pc = pc] EXCEPT !.target = target]]
  PROVE  /\ tx' \in [Process -> TxRow] /\ LocksHeld'
         /\ \A q \in Process : tx'[q].made = tx[q].made
<1> DEFINE r1 == [tx[c] EXCEPT !.pc = pc]
           row == [r1 EXCEPT !.target = target]
<1>1. tx[c] \in TxRow /\ Claims(c) /\ tx[c].rows = {} /\ tx[c].made = {} /\ tx[c].keys = {}
  BY DEF MonitorsTypeOK, LocksHeld, Claims
<1>2. /\ r1 \in TxRow /\ r1.pc = pc /\ r1.todo = tx[c].todo
      /\ r1.rows = {} /\ r1.made = {} /\ r1.keys = {}
  BY <1>1 DEF TxRow
<1>3. /\ row \in TxRow /\ row.pc = pc /\ row.todo = tx[c].todo
      /\ row.rows = {} /\ row.made = {} /\ row.keys = {}
  <2> HIDE DEF r1
  <2> QED BY <1>2 DEF TxRow
<1> HIDE DEF row
<1>4. tx' \in [Process -> TxRow] /\ tx'[c] = row /\ \A q \in Process \ {c} : tx'[q] = tx[q]
  BY <1>3 DEF MonitorsTypeOK, row
<1>5. Claims(c)' /\ \A q \in Process \ {c} : Apart(c, q)'
  BY <1>1, <1>3, <1>4 DEF Claims, Apart
<1> QED
  BY <1>1, <1>3, <1>4, <1>5, OneRowChanges

LEMMA CreateRunRow ==
  ASSUME MonitorsTypeOK, LocksHeld, NEW c \in Process, NEW o \in Owner, CreateRun(c, o)
  PROVE  /\ tx' \in [Process -> TxRow] /\ LocksHeld'
         /\ \A q \in Process \ {c} : tx'[q] = tx[q]
         /\ tx[c].made = {} /\ tx'[c].made = {UserRun(o, TRUE)}
<1> DEFINE made == {UserRun(o, TRUE)}
           r1 == [tx[c] EXCEPT !.pc = "inserting"]
           r2 == [r1 EXCEPT !.made = made]
           row == [r2 EXCEPT !.keys = {o}]
<1>1. /\ tx[c] \in TxRow /\ Claims(c) /\ tx[c].rows = {} /\ tx[c].made = {} /\ tx[c].keys = {}
  BY DEF MonitorsTypeOK, LocksHeld, Claims, CreateRun
<1>2. tx' = [tx EXCEPT ![c] = row]
  BY DEF CreateRun
<1>3. /\ made \in SUBSET Kind
      /\ \A k \in made : k.checked /\ k.owner = o /\ k.monitor = None
  <2>1. UserRun(o, TRUE) \in Kind
    BY UserKinds
  <2>2. /\ UserRun(o, TRUE).checked /\ UserRun(o, TRUE).owner = o
        /\ UserRun(o, TRUE).monitor = None
    BY DEF UserRun
  <2> QED BY <2>1, <2>2
<1>4. /\ r1 \in TxRow /\ r1.pc = "inserting" /\ r1.todo = tx[c].todo /\ r1.rows = {}
  BY <1>1 DEF TxRow
<1>5. /\ r2 \in TxRow /\ r2.pc = "inserting" /\ r2.todo = tx[c].todo /\ r2.rows = {}
      /\ r2.made = made
  <2> HIDE DEF r1, made
  <2> QED BY <1>3, <1>4 DEF TxRow
<1>6. /\ row \in TxRow /\ row.pc = "inserting" /\ row.todo = tx[c].todo /\ row.rows = {}
      /\ row.made = made /\ row.keys = {o}
  <2> HIDE DEF r2, made
  <2> QED BY <1>5 DEF TxRow
<1> HIDE DEF row
<1>7. tx' \in [Process -> TxRow] /\ tx'[c] = row /\ \A q \in Process \ {c} : tx'[q] = tx[q]
  BY <1>2, <1>6 DEF MonitorsTypeOK
<1>8. Claims(c)'
  BY <1>1, <1>3, <1>6, <1>7 DEF Claims
<1>9. \A q \in Process \ {c} : Apart(c, q)'
  <2>1. \A q \in Process \ {c} : o \notin tx[q].keys
    BY MonitorsAssumption DEF CreateRun, QuotaLock, KeyFree
  <2> HIDE DEF made
  <2> QED BY <1>6, <1>7, <2>1 DEF Apart
<1> QED
  BY <1>1, <1>6, <1>7, <1>8, <1>9, OneRowChanges

-----------------------------------------------------------------------------
(* Counting runs.                                                          *)

CheckedKinds(o) == {k \in KindsOf(o) : k.checked}

LEMMA ImageFinite ==
  ASSUME NEW f, IsFiniteSet(DOMAIN f), f = [x \in DOMAIN f |-> f[x]]
  PROVE  IsFiniteSet({f[x] : x \in DOMAIN f})
<1>1. f \in Surjection(DOMAIN f, {f[x] : x \in DOMAIN f})
  BY DEF Surjection
<1> QED
  BY <1>1, FS_Surjection, Zenon

LEMMA KindsFinite ==
  ASSUME NEW o
  PROVE  IsFiniteSet(KindsOf(o))
<1> DEFINE M == {MonitorRun(m) : m \in Monitor}
           R == {Returned(MonitorRun(m)) : m \in Monitor}
           U == {UserRun(o, TRUE)} \cup {UserRun(o, FALSE)}
           f == [m \in Monitor |-> MonitorRun(m)]
           g == [m \in Monitor |-> Returned(MonitorRun(m))]
<1>1. IsFiniteSet(M)
  <2>1. IsFiniteSet({f[m] : m \in DOMAIN f})
    <3>1. IsFiniteSet(DOMAIN f) /\ f = [m \in DOMAIN f |-> f[m]]
      BY MonitorsAssumption
    <3> HIDE DEF f
    <3> QED BY <3>1, ImageFinite
  <2>2. M = {f[m] : m \in DOMAIN f}
    OBVIOUS
  <2> QED BY <2>1, <2>2
<1>1a. IsFiniteSet(R)
  <2>1. IsFiniteSet({g[m] : m \in DOMAIN g})
    <3>1. IsFiniteSet(DOMAIN g) /\ g = [m \in DOMAIN g |-> g[m]]
      BY MonitorsAssumption
    <3> HIDE DEF g
    <3> QED BY <3>1, ImageFinite
  <2>2. R = {g[m] : m \in DOMAIN g}
    OBVIOUS
  <2> QED BY <2>1, <2>2
<1>2. IsFiniteSet(U)
  BY FS_AddElement, FS_Singleton
<1>3. ASSUME NEW k \in KindsOf(o) PROVE k \in (M \cup R) \cup U
  <2>1. CASE k \in M \cup R
    BY <2>1
  <2>2. CASE \E p \in Owner : \E c \in BOOLEAN : k = UserRun(p, c)
    <3>1. PICK p \in Owner, c \in BOOLEAN : k = UserRun(p, c)
      BY <2>2
    <3>2. p = o
      BY <3>1 DEF KindsOf, UserRun
    <3> QED BY <3>1, <3>2
  <2> QED BY <2>1, <2>2, KindCases DEF KindsOf
<1> HIDE DEF M, R, U
<1>4. IsFiniteSet(M \cup R)
  BY <1>1, <1>1a, FS_Union
<1>5. IsFiniteSet((M \cup R) \cup U)
  BY <1>2, <1>4, FS_Union
<1> QED
  BY <1>3, <1>5, FS_Subset

\* As many numbered units of each kind as count says.
Units(count, kinds) == UNION {{k} \X (1..count[k]) : k \in kinds}

View(p) == [k \in Kind |-> Visible(p, k)]

LEMMA UnitsIs ==
  ASSUME NEW count, NEW kinds, NEW x
  PROVE  x \in Units(count, kinds) <=> \E k \in kinds : \E i \in 1..count[k] : x = <<k, i>>
BY DEF Units

LEMMA UnitsFinite ==
  ASSUME NEW count \in [Kind -> Nat], NEW o, NEW kinds \in SUBSET KindsOf(o)
  PROVE  IsFiniteSet(Units(count, kinds)) /\ Cardinality(Units(count, kinds)) \in Nat
<1> DEFINE Part(k) == {k} \X (1..count[k])
           f == [k \in kinds |-> Part(k)]
<1>1. IsFiniteSet(kinds)
  BY KindsFinite, FS_Subset
<1>2. ASSUME NEW k \in kinds PROVE IsFiniteSet(Part(k))
  <2>1. count[k] \in Int
    BY DEF KindsOf
  <2>2. IsFiniteSet(1..count[k])
    BY <2>1, FS_Interval
  <2> QED BY <2>2, FS_Singleton, FS_Product
<1>3. IsFiniteSet({Part(k) : k \in kinds})
  <2>1. IsFiniteSet({f[k] : k \in DOMAIN f})
    <3>1. IsFiniteSet(DOMAIN f) /\ f = [k \in DOMAIN f |-> f[k]]
      BY <1>1
    <3> HIDE DEF f
    <3> QED BY <3>1, ImageFinite
  <2>2. {Part(k) : k \in kinds} = {f[k] : k \in DOMAIN f}
    BY Zenon
  <2> QED BY <2>1, <2>2
<1>4. IsFiniteSet(UNION {Part(k) : k \in kinds})
  BY <1>2, <1>3, FS_UNION
<1> QED
  BY <1>4, FS_CardinalityType DEF Units

LEMMA UnitsFewer ==
  ASSUME NEW f \in [Kind -> Nat], NEW g \in [Kind -> Nat], NEW o,
         NEW kinds \in SUBSET KindsOf(o), \A k \in kinds : g[k] <= f[k]
  PROVE  Cardinality(Units(g, kinds)) <= Cardinality(Units(f, kinds))
<1>1. ASSUME NEW x \in Units(g, kinds) PROVE x \in Units(f, kinds)
  <2>0. PICK k \in kinds : \E i \in 1..g[k] : x = <<k, i>>
    BY UnitsIs
  <2>1. PICK i \in 1..g[k] : x = <<k, i>>
    BY <2>0
  <2>2. f[k] \in Nat /\ g[k] \in Nat /\ g[k] <= f[k]
    BY DEF KindsOf
  <2>3. i \in 1..f[k]
    BY <2>2, SMT
  <2> QED BY <2>1, <2>3, UnitsIs
<1> QED
  BY <1>1, UnitsFinite, FS_Subset

LEMMA UnitsOneMore ==
  ASSUME NEW f \in [Kind -> Nat], NEW g \in [Kind -> Nat], NEW o,
         NEW kinds \in SUBSET KindsOf(o), NEW k0 \in kinds, g[k0] <= f[k0] + 1,
         \A k \in kinds \ {k0} : g[k] <= f[k]
  PROVE  Cardinality(Units(g, kinds)) <= Cardinality(Units(f, kinds)) + 1
<1> DEFINE new == <<k0, f[k0] + 1>>
           U == Units(f, kinds)
           V == Units(g, kinds)
<1>1. ASSUME NEW x \in V PROVE x \in U \cup {new}
  <2>0. PICK k \in kinds : \E i \in 1..g[k] : x = <<k, i>>
    BY <1>1, UnitsIs
  <2>1. PICK i \in 1..g[k] : x = <<k, i>>
    BY <2>0
  <2>2. f[k] \in Nat /\ g[k] \in Nat
    BY DEF KindsOf
  <2>3. i \in 1..f[k] \/ (k = k0 /\ i = f[k0] + 1)
    BY <2>2, SMT
  <2> QED BY <2>1, <2>3, UnitsIs
<1>2. IsFiniteSet(U) /\ Cardinality(U) \in Nat /\ Cardinality(V) \in Nat
  BY UnitsFinite
<1> HIDE DEF new, U, V
<1>3. IsFiniteSet(U \cup {new}) /\ Cardinality(U \cup {new}) <= Cardinality(U) + 1
  BY <1>2, FS_AddElement, SMT
<1>4. Cardinality(V) <= Cardinality(U \cup {new})
  BY <1>1, <1>3, FS_Subset
<1>5. Cardinality(U \cup {new}) \in Nat
  BY <1>3, FS_CardinalityType
<1>6. Cardinality(V) <= Cardinality(U) + 1
  BY <1>2, <1>3, <1>4, <1>5, SMT
<1> QED
  BY <1>6 DEF U, V

LEMMA UnitsOneLess ==
  ASSUME NEW f \in [Kind -> Nat], NEW g \in [Kind -> Nat], NEW o,
         NEW kinds \in SUBSET KindsOf(o), NEW k0 \in kinds, f[k0] = 1, g[k0] = 0,
         \A k \in kinds \ {k0} : g[k] <= f[k]
  PROVE  Cardinality(Units(g, kinds)) + 1 <= Cardinality(Units(f, kinds))
<1> DEFINE old == <<k0, 1>>
           U == Units(f, kinds)
           V == Units(g, kinds)
<1>1. ASSUME NEW x \in V PROVE x \in U \ {old}
  <2>0. PICK k \in kinds : \E i \in 1..g[k] : x = <<k, i>>
    BY <1>1, UnitsIs
  <2>1. PICK i \in 1..g[k] : x = <<k, i>>
    BY <2>0
  <2>2. f[k] \in Nat /\ g[k] \in Nat
    BY DEF KindsOf
  <2>3. i \in 1..f[k] /\ k # k0
    BY <2>2, SMT
  <2> QED BY <2>1, <2>3, UnitsIs
<1>2. old \in U
  BY UnitsIs, SMT
<1>3. IsFiniteSet(U) /\ Cardinality(U) \in Nat /\ Cardinality(V) \in Nat
  BY UnitsFinite
<1> HIDE DEF old, U, V
<1>4. IsFiniteSet(U \ {old}) /\ Cardinality(U \ {old}) = Cardinality(U) - 1
  BY <1>2, <1>3, FS_RemoveElement, SMT
<1>5. Cardinality(V) <= Cardinality(U \ {old})
  BY <1>1, <1>4, FS_Subset
<1>6. Cardinality(V) + 1 <= Cardinality(U)
  BY <1>3, <1>4, <1>5, SMT
<1> QED
  BY <1>6 DEF U, V

-----------------------------------------------------------------------------
(* Runs.  A committed or pending run of a monitor is its only one, and no  *)
(* transaction sees more counted runs of an owner than the quota.          *)

OneEach ==
  \A m \in Monitor :
    /\ runs[MonitorRun(m)] <= 1
    /\ \A p \in Process : MonitorRun(m) \in tx[p].made => runs[MonitorRun(m)] = 0

Within(count, o) == Cardinality(Units(count, CheckedKinds(o))) <= RunQuota

Spare == \A o \in Owner : Within(runs, o) /\ \A p \in Process : Within(View(p), o)

LEMMA ViewType ==
  ASSUME runs \in [Kind -> Nat], NEW p
  PROVE  View(p) \in [Kind -> Nat]
BY DEF View, Visible

LEMMA WithinFewer ==
  ASSUME NEW o, NEW f \in [Kind -> Nat], NEW g \in [Kind -> Nat], Within(f, o),
         \A k \in Kind : k.owner = o /\ k.checked => g[k] <= f[k]
  PROVE  Within(g, o)
<1>1. \A k \in CheckedKinds(o) : g[k] <= f[k]
  BY DEF CheckedKinds, KindsOf
<1>2. CheckedKinds(o) \in SUBSET KindsOf(o)
  BY DEF CheckedKinds
<1>3. Cardinality(Units(g, CheckedKinds(o))) <= Cardinality(Units(f, CheckedKinds(o)))
  BY <1>1, <1>2, UnitsFewer
<1>4. /\ Cardinality(Units(g, CheckedKinds(o))) \in Nat
      /\ Cardinality(Units(f, CheckedKinds(o))) \in Nat /\ RunQuota \in Nat
  BY <1>2, UnitsFinite, MonitorsAssumption
<1> QED
  BY <1>3, <1>4, SMT DEF Within

LEMMA ActiveRunsType ==
  ASSUME runs \in [Kind -> Nat], NEW p, NEW o
  PROVE  ActiveRuns(p, o) \in Nat
<1>1. Seen(p, KindsOf(o)) = Units(View(p), KindsOf(o))
  BY DEF Seen, Units, View, KindsOf
<1> QED
  BY <1>1, ViewType, UnitsFinite DEF ActiveRuns

\* No run that counts is added.
LEMMA FewerUses ==
  ASSUME MonitorsTypeOK, OneEach, Spare, runs' \in [Kind -> Nat],
         \A k \in Kind : k.checked => runs'[k] <= runs[k],
         \A q \in Process : tx'[q].made \subseteq tx[q].made
  PROVE  OneEach' /\ Spare'
<1>1. runs \in [Kind -> Nat]
  BY DEF MonitorsTypeOK
<1>2. OneEach'
  <2>1. ASSUME NEW m \in Monitor
        PROVE  /\ runs'[MonitorRun(m)] <= 1
               /\ \A p \in Process : MonitorRun(m) \in tx'[p].made => runs'[MonitorRun(m)] = 0
    <3>1. MonitorRun(m) \in Kind /\ MonitorRun(m).checked
      BY MonitorKinds
    <3>2. /\ runs[MonitorRun(m)] <= 1
          /\ \A p \in Process : MonitorRun(m) \in tx[p].made => runs[MonitorRun(m)] = 0
      BY DEF OneEach
    <3> QED BY <1>1, <3>1, <3>2, SMT
  <2> QED BY <2>1 DEF OneEach
<1>3. ASSUME NEW o \in Owner PROVE Within(runs', o)
  BY <1>1, WithinFewer DEF Spare
<1>4. ASSUME NEW o \in Owner, NEW q \in Process PROVE Within(View(q)', o)
  <2>1. View(q) \in [Kind -> Nat] /\ View(q)' \in [Kind -> Nat]
    BY <1>1, ViewType DEF View, Visible
  <2>2. ASSUME NEW k \in Kind, k.checked PROVE View(q)'[k] <= View(q)[k]
    BY <1>1, <2>2 DEF View, Visible
  <2> QED BY <2>1, <2>2, WithinFewer DEF Spare
<1> QED
  BY <1>2, <1>3, <1>4 DEF Spare, Within, View, Visible

\* The owner of a new run has one to spare.
LEMMA OneMoreUse ==
  ASSUME MonitorsTypeOK, OneEach, Spare, NEW p \in Process, NEW k0 \in Kind,
         k0.owner \in Owner, k0.checked,
         ActiveRuns(p, k0.owner) < RunQuota,
         \A m \in Monitor : k0 = MonitorRun(m) => runs[k0] = 0,
         UNCHANGED runs,
         tx'[p].made = tx[p].made \cup {k0},
         \A q \in Process \ {p} : tx'[q] = tx[q]
  PROVE  OneEach' /\ Spare'
<1>1. runs \in [Kind -> Nat]
  BY DEF MonitorsTypeOK
<1>2. OneEach'
  BY DEF OneEach
<1>3. ASSUME NEW o \in Owner, NEW q \in Process, q # p PROVE Within(View(q)', o)
  BY <1>3 DEF Spare, View, Visible
<1>4. View(p) \in [Kind -> Nat] /\ View(p)' \in [Kind -> Nat]
  BY <1>1, ViewType DEF View, Visible
<1>5. \A k \in Kind \ {k0} : View(p)'[k] = View(p)[k]
  BY <1>1 DEF View, Visible
<1>6. View(p)'[k0] <= View(p)[k0] + 1
  BY <1>1 DEF View, Visible
<1>7. ASSUME NEW o \in Owner, o # k0.owner PROVE Within(View(p)', o)
  <2>1. ASSUME NEW k \in Kind, k.owner = o PROVE View(p)'[k] <= View(p)[k]
    BY <1>4, <1>5, <1>7, <2>1
  <2> QED BY <1>4, <2>1, WithinFewer DEF Spare
<1>8. Within(View(p)', k0.owner)
  <2> DEFINE o == k0.owner
             K == CheckedKinds(o)
             c == Cardinality(Units(View(p), K))
             d == Cardinality(Units(View(p)', K))
  <2>1. k0 \in K /\ K \in SUBSET KindsOf(o) /\ KindsOf(o) \in SUBSET KindsOf(o)
    BY DEF CheckedKinds, KindsOf
  <2>2. Seen(p, KindsOf(o)) = Units(View(p), KindsOf(o))
    BY DEF Seen, Units, View, KindsOf
  <2>3. Units(View(p), K) \subseteq Units(View(p), KindsOf(o))
    BY <2>1 DEF Units
  <2>4. c <= ActiveRuns(p, o)
    BY <1>4, <2>1, <2>2, <2>3, UnitsFinite, FS_Subset DEF ActiveRuns
  <2>5. \A k \in K \ {k0} : View(p)'[k] <= View(p)[k]
    BY <1>4, <1>5 DEF CheckedKinds, KindsOf
  <2>6. d <= c + 1
    <3> HIDE DEF K
    <3> QED BY <1>4, <1>6, <2>1, <2>5, UnitsOneMore
  <2>7. c \in Nat /\ d \in Nat /\ ActiveRuns(p, o) \in Nat /\ RunQuota \in Nat
    <3> HIDE DEF K
    <3> QED BY <1>4, <2>1, <2>2, UnitsFinite, MonitorsAssumption DEF ActiveRuns
  <2>8. d <= RunQuota
    <3> HIDE DEF c, d
    <3> QED BY <2>4, <2>6, <2>7, SMT
  <2> QED BY <2>8 DEF Within
<1>9. \A o \in Owner : \A q \in Process : Within(View(q)', o)
  BY <1>3, <1>7, <1>8
<1>10. \A o \in Owner : Within(runs', o)
  BY DEF Spare
<1> QED
  BY <1>2, <1>9, <1>10 DEF Spare, Within, View, Visible

\* What a transaction commits was within the quota in its own view, and every
\* other view shows no more of the owners whose keys it held.
LEMMA PublishedUses ==
  ASSUME MonitorsTypeOK, LocksHeld, OneEach, Spare, NEW p \in Process,
         Publish(p), tx' = [tx EXCEPT ![p] = NoTx]
  PROVE  runs' \in [Kind -> Nat] /\ OneEach' /\ Spare'
<1>1. runs \in [Kind -> Nat] /\ runs' = View(p) /\ runs' \in [Kind -> Nat]
  BY ViewType DEF MonitorsTypeOK, Publish, View
<1>2. tx'[p].made = {} /\ \A q \in Process \ {p} : tx'[q] = tx[q]
  BY TxEnds
<1>3. ASSUME NEW k \in Kind
      PROVE  runs'[k] = IF k \in tx[p].made THEN runs[k] + 1 ELSE runs[k]
  BY <1>1 DEF View, Visible
<1>4. ASSUME NEW q \in Process \ {p}, NEW k \in Kind, k \in tx[p].made, NEW l \in Kind,
             l \in tx[q].made
      PROVE  k.owner # l.owner /\ (k.monitor # None => k.monitor # l.monitor)
  BY <1>4 DEF LocksHeld, Claims, Apart
<1>5. ASSUME NEW m \in Monitor
      PROVE  /\ runs'[MonitorRun(m)] <= 1
             /\ \A q \in Process : MonitorRun(m) \in tx'[q].made => runs'[MonitorRun(m)] = 0
  <2> DEFINE k == MonitorRun(m)
  <2>1. k \in Kind /\ k.monitor = m /\ m # None
    BY MonitorKinds
  <2>2. /\ runs[k] <= 1
        /\ \A q \in Process : k \in tx[q].made => runs[k] = 0
    BY DEF OneEach
  <2> HIDE DEF k
  <2>3. runs'[k] <= 1
    BY <1>1, <1>3, <2>1, <2>2
  <2>4. ASSUME NEW q \in Process, k \in tx'[q].made PROVE runs'[k] = 0
    BY <1>2, <1>3, <1>4, <2>1, <2>2, <2>4
  <2> QED BY <2>3, <2>4 DEF k
<1>6. ASSUME NEW o \in Owner PROVE Within(runs', o)
  BY <1>1 DEF Spare
<1>7. \A q \in Process : View(q)' \in [Kind -> Nat]
  BY <1>1, ViewType DEF View, Visible
<1>8. ASSUME NEW o \in Owner, NEW q \in Process PROVE Within(View(q)', o)
  <2>1. CASE q = p
    <3>1. \A k \in Kind : View(q)'[k] <= runs'[k]
      BY <1>1, <1>2, <2>1 DEF View, Visible
    <3> QED BY <1>1, <1>6, <1>7, <3>1, WithinFewer
  <2>2. CASE q # p /\ \E k \in Kind : k \in tx[p].made /\ k.owner = o
    <3>1. \A l \in Kind : l.owner = o => l \notin tx'[q].made
      BY <1>2, <1>4, <2>2
    <3>2. \A l \in Kind : l.owner = o => View(q)'[l] <= runs'[l]
      BY <1>1, <3>1 DEF View, Visible
    <3> QED BY <1>1, <1>6, <1>7, <3>2, WithinFewer
  <2>3. CASE q # p /\ ~\E k \in Kind : k \in tx[p].made /\ k.owner = o
    <3>1. \A l \in Kind : l.owner = o => runs'[l] = runs[l]
      BY <1>3, <2>3
    <3>2. View(q) \in [Kind -> Nat]
      BY <1>1, ViewType
    <3>3. \A l \in Kind : l.owner = o => View(q)'[l] <= View(q)[l]
      BY <1>1, <1>2, <2>3, <3>1 DEF View, Visible
    <3> QED BY <1>7, <3>2, <3>3, WithinFewer DEF Spare
  <2> QED BY <2>1, <2>2, <2>3
<1> QED
  BY <1>1, <1>5, <1>6, <1>8 DEF OneEach, Spare, Within, View, Visible

\* What a deleted monitor leaves of a count.
LEMMA OrphanedIs ==
  ASSUME NEW m \in Monitor, NEW count \in [Kind -> Nat], NEW after, after = Orphaned(m, count)
  PROVE  /\ after \in [Kind -> Nat]
         /\ after[MonitorRun(m)] = 0
         /\ UserRun(OwnerOf[m], TRUE) \in Kind =>
              after[UserRun(OwnerOf[m], TRUE)]
                = count[UserRun(OwnerOf[m], TRUE)] + count[MonitorRun(m)]
         /\ \A k \in Kind \ {MonitorRun(m), UserRun(OwnerOf[m], TRUE)} :
              k.checked => after[k] = count[k]
<1> DEFINE k0 == MonitorRun(m)
           k1 == UserRun(OwnerOf[m], TRUE)
           k2 == Returned(MonitorRun(m))
           k3 == UserRun(OwnerOf[m], FALSE)
<1>1. /\ k0 \in Kind /\ k2 \in Kind /\ k0.checked = TRUE /\ k2.checked = FALSE
      /\ k1.checked = TRUE /\ k3.checked = FALSE /\ k0.monitor = m /\ k2.monitor = m
      /\ k1.monitor = None /\ k3.monitor = None /\ m # None
  BY MonitorKinds, ReturnedKinds DEF UserRun, MonitorRun
<1>2. /\ k0 # k1 /\ k0 # k2 /\ k0 # k3 /\ k1 # k2 /\ k1 # k3 /\ k2 # k3
  <2> HIDE DEF k0, k1, k2, k3
  <2> QED BY <1>1
<1> DEFINE a == count[k1] + count[k0]
           b == count[k3] + count[k2]
<1>3. after = [count EXCEPT ![k0] = 0, ![k2] = 0, ![k1] = a, ![k3] = b]
  BY DEF Orphaned
<1>4. /\ k1 \in Kind => a \in Nat
      /\ k3 \in Kind => b \in Nat
  <2> HIDE DEF k0, k1, k2, k3
  <2> QED BY <1>1
<1> HIDE DEF k0, k1, k2, k3, a, b
<1>5. \A k \in Kind : after[k] = IF k = k3 THEN b ELSE IF k = k1 THEN a
                                 ELSE IF k = k2 \/ k = k0 THEN 0 ELSE count[k]
  BY <1>3
<1>6. after \in [Kind -> Nat]
  <2>1. ASSUME NEW k \in Kind PROVE after[k] \in Nat
    BY <1>4, <1>5
  <2>2. after = [k \in Kind |-> after[k]]
    BY <1>3
  <2> QED BY <2>1, <2>2
<1>7. /\ after[k0] = 0
      /\ k1 \in Kind => after[k1] = a
      /\ \A k \in Kind \ {k0, k1} : k.checked => after[k] = count[k]
  BY <1>1, <1>2, <1>5
<1> QED
  BY <1>6, <1>7 DEF k0, k1, a

\* The runs of a deleted monitor go on counting for its owner.
LEMMA DeletedUses ==
  ASSUME MonitorsTypeOK, LocksHeld, OneEach, Spare, NEW m \in Monitor, DeleteMonitor(m)
  PROVE  runs' \in [Kind -> Nat] /\ OneEach' /\ Spare'
<1> DEFINE k0 == MonitorRun(m)
           k1 == UserRun(OwnerOf[m], TRUE)
           r == runs[k0]
<1>1. /\ k0 \in Kind /\ k0.checked /\ k0.owner = OwnerOf[m] /\ k0.monitor = m /\ m # None
      /\ k1.owner = OwnerOf[m] /\ k1.checked = TRUE /\ k1.monitor = None
  BY MonitorKinds DEF UserRun
<1>2. runs \in [Kind -> Nat] /\ runs' = Orphaned(m, runs)
  BY DEF MonitorsTypeOK, DeleteMonitor
<1>3. r \in {0, 1} /\ \A n \in Monitor : MonitorRun(n) # k1
  <2>1. r <= 1
    BY DEF OneEach
  <2>2. r \in Nat
    BY <1>1, <1>2
  <2>3. ASSUME NEW n \in Monitor PROVE MonitorRun(n) # k1
    <3>1. MonitorRun(n).monitor # None
      BY MonitorKinds
    <3> HIDE DEF k1
    <3> QED BY <1>1, <3>1
  <2> HIDE DEF k0, k1, r
  <2> QED BY <2>1, <2>2, <2>3
<1>4. \A q \in Process : tx'[q] = tx[q] /\ k0 \notin tx[q].made
  BY <1>1 DEF DeleteMonitor, LocksHeld, Claims
<1>5. /\ runs' \in [Kind -> Nat] /\ runs'[k0] = 0
      /\ \A k \in Kind \ {k0, k1} : k.checked => runs'[k] = runs[k]
      /\ k1 \in Kind => runs'[k1] = runs[k1] + r
  BY <1>2, OrphanedIs
<1> HIDE DEF k0, k1
<1>4a. k0 # k1
  BY <1>1
<1>6. OneEach'
  <2>1. ASSUME NEW n \in Monitor
        PROVE  /\ runs'[MonitorRun(n)] <= 1
               /\ \A q \in Process : MonitorRun(n) \in tx'[q].made => runs'[MonitorRun(n)] = 0
    BY <1>3, <1>4, <1>5, MonitorKinds DEF OneEach
  <2> QED BY <2>1 DEF OneEach
\* Any count that does not show the deleted monitor's run twice.
<1>7. ASSUME NEW o \in Owner, NEW f \in [Kind -> Nat], NEW g \in [Kind -> Nat], Within(f, o),
             f[k0] = r, g[k0] = 0, k1 \in Kind => g[k1] = f[k1] + r,
             \A k \in Kind \ {k0, k1} : k.checked => g[k] = f[k]
      PROVE  Within(g, o)
  <2>1. CASE r = 0 \/ o # OwnerOf[m]
    <3>1. \A k \in Kind : k.owner = o /\ k.checked => g[k] <= f[k]
      BY <1>1, <1>7, <2>1
    <3> QED BY <1>7, <3>1, WithinFewer
  <2>2. CASE r = 1 /\ o = OwnerOf[m]
    <3> DEFINE K == CheckedKinds(o)
               h == [f EXCEPT ![k0] = 0]
    <3>1. k1 \in Kind
      BY <2>2, UserKinds DEF k1
    <3>2. k0 \in K /\ k1 \in K /\ K \in SUBSET KindsOf(o)
      BY <1>1, <2>2, <3>1 DEF CheckedKinds, KindsOf
    <3>3. K \subseteq Kind
      BY DEF CheckedKinds, KindsOf
    <3>4. h \in [Kind -> Nat] /\ h[k0] = 0 /\ \A k \in Kind \ {k0} : h[k] = f[k]
      BY <1>1, <1>7
    <3> HIDE DEF K, h
    <3>5. Cardinality(Units(h, K)) + 1 <= Cardinality(Units(f, K))
      BY <1>7, <2>2, <3>2, <3>3, <3>4, UnitsOneLess
    <3>6. Cardinality(Units(g, K)) <= Cardinality(Units(h, K)) + 1
      <4>1. g[k1] <= h[k1] + 1 /\ \A k \in K \ {k1} : g[k] <= h[k]
        BY <1>1, <1>3, <1>7, <2>2, <3>1, <3>3, <3>4 DEF K, CheckedKinds
      <4> QED BY <1>7, <3>2, <3>4, <4>1, UnitsOneMore
    <3>7. /\ Cardinality(Units(f, K)) \in Nat /\ Cardinality(Units(g, K)) \in Nat
          /\ Cardinality(Units(h, K)) \in Nat /\ RunQuota \in Nat
      BY <1>7, <3>2, <3>4, UnitsFinite, MonitorsAssumption
    <3> QED BY <1>7, <3>5, <3>6, <3>7, SMT DEF Within, K
  <2> QED BY <1>3, <2>1, <2>2
<1>8. ASSUME NEW o \in Owner PROVE Within(runs', o)
  <2>1. Within(runs, o)
    BY DEF Spare
  <2> QED BY <1>2, <1>5, <1>7, <2>1, Zenon
<1>9. ASSUME NEW o \in Owner, NEW q \in Process PROVE Within(View(q)', o)
  <2>1. View(q) \in [Kind -> Nat] /\ View(q)' \in [Kind -> Nat]
    BY <1>2, <1>5, ViewType DEF View, Visible
  <2>2. View(q)[k0] = r /\ View(q)'[k0] = 0
    BY <1>1, <1>3, <1>4, <1>5 DEF View, Visible
  <2>5. k1 \in Kind => View(q)'[k1] = View(q)[k1] + r
    BY <1>2, <1>3, <1>4, <1>5 DEF View, Visible
  <2>3. \A k \in Kind \ {k0, k1} : k.checked => View(q)'[k] = View(q)[k]
    BY <1>4, <1>5 DEF View, Visible
  <2>4. Within(View(q), o)
    BY DEF Spare
  <2> QED BY <1>7, <2>1, <2>2, <2>3, <2>4, <2>5, Zenon
<1> QED
  BY <1>5, <1>6, <1>8, <1>9 DEF Spare, Within, View, Visible

-----------------------------------------------------------------------------
(* The invariant, and that every action keeps it.                          *)

\* What may be brought back has given up the place it was counted for.
LateUncounted == \A k \in Kind : k.checked => late[k] = 0

MonitorsInv == MonitorsTypeOK /\ LocksHeld /\ OneEach /\ Spare /\ LateUncounted

LEMMA AgendaType ==
  ASSUME agenda \in Seq(Monitor), NEW ms
  PROVE  Without(ms, agenda) \in Seq(Monitor)
<1>1. Without(ms, agenda) \in Seq(Monitor \ ms)
  BY WithoutIs
<1> QED
  BY <1>1

LEMMA CallType ==
  ASSUME calls \in 0..MaxCalls, Call
  PROVE  calls' \in 0..MaxCalls
BY MonitorsAssumption DEF Call

\* Steps that leave the runs alone and create none.
LEMMA SameUses ==
  ASSUME MonitorsInv, UNCHANGED runs, \A q \in Process : tx'[q].made \subseteq tx[q].made
  PROVE  OneEach' /\ Spare' /\ runs' \in [Kind -> Nat]
<1>1. runs' \in [Kind -> Nat] /\ \A k \in Kind : runs'[k] <= runs[k]
  BY DEF MonitorsInv, MonitorsTypeOK
<1> QED
  BY <1>1, FewerUses DEF MonitorsInv

\* Steps that leave the transactions alone.
LEMMA SameLocks ==
  ASSUME MonitorsInv, UNCHANGED tx
  PROVE  LocksHeld' /\ tx' \in [Process -> TxRow]
         /\ \A q \in Process : tx'[q].made = tx[q].made
BY DEF MonitorsInv, MonitorsTypeOK, LocksHeld, Claims, Apart

LEMMA ClaimDueKeeps ==
  ASSUME MonitorsInv, NEW p \in Process, ClaimDue(p)
  PROVE  MonitorsInv'
<1>1. /\ tx' \in [Process -> TxRow] /\ LocksHeld'
      /\ \A q \in Process : tx'[q].made = tx[q].made
  BY ClaimDueRow DEF MonitorsInv
<1>2. UNCHANGED <<monitor, agenda, runs, late, calls>>
  BY DEF ClaimDue
<1>3. OneEach' /\ Spare'
  BY <1>1, <1>2, SameUses
<1> QED
  BY <1>1, <1>2, <1>3 DEF MonitorsInv, MonitorsTypeOK, LateUncounted

\* Postpone, Skip, LaunchFails: nothing is created.
LEMMA DecideNoRunKeeps ==
  ASSUME MonitorsInv, NEW p \in Process, NEW m \in Monitor,
         Postpone(p, m) \/ Skip(p, m) \/ LaunchFails(p, m)
  PROVE  MonitorsInv'
<1>1. PICK later \in SUBSET Monitor : Decide(p, m, later, {})
  BY DEF Postpone, Skip, LaunchFails
<1>2. Looking(p, m) /\ QuotaLock(p, OwnerOf[m])
  BY DEF Postpone, Skip, LaunchFails
<1>3. /\ tx' \in [Process -> TxRow] /\ LocksHeld'
      /\ \A q \in Process \ {p} : tx'[q] = tx[q]
      /\ tx'[p].made = tx[p].made \cup {}
  BY <1>1, <1>2, DecideHeld DEF MonitorsInv
<1>4. UNCHANGED <<monitor, agenda, runs, late>>
  BY DEF Postpone, Skip, LaunchFails
<1>5. calls' \in 0..MaxCalls
  BY CallType DEF Postpone, Skip, LaunchFails, MonitorsInv, MonitorsTypeOK
<1>6. OneEach' /\ Spare'
  BY <1>3, <1>4, SameUses
<1> QED
  BY <1>3, <1>4, <1>5, <1>6 DEF MonitorsInv, MonitorsTypeOK, LateUncounted

LEMMA LaunchKeeps ==
  ASSUME MonitorsInv, NEW p \in Process, NEW m \in Monitor, Launch(p, m)
  PROVE  MonitorsInv'
<1> DEFINE k == MonitorRun(m)
<1>1. /\ Looking(p, m) /\ QuotaLock(p, OwnerOf[m]) /\ Decide(p, m, {m}, {k})
      /\ OwnerOf[m] # None /\ ~(ActiveRuns(p, OwnerOf[m]) >= RunQuota)
      /\ ~(Visible(p, k) > 0) /\ UNCHANGED <<monitor, agenda, runs, late, calls>>
  BY DEF Launch, MayLaunch, AtQuota, HasActiveRun
<1>2. /\ tx' \in [Process -> TxRow] /\ LocksHeld'
      /\ \A q \in Process \ {p} : tx'[q] = tx[q]
      /\ tx'[p].made = tx[p].made \cup {k}
  <2>1. {m} \in SUBSET Monitor /\ {k} \in SUBSET {MonitorRun(m)}
    OBVIOUS
  <2> QED BY <1>1, <2>1, DecideHeld, Zenon DEF MonitorsInv
<1>3. /\ k \in Kind /\ k.checked /\ k.owner = OwnerOf[m] /\ k.monitor = m /\ m # None
      /\ OwnerOf[m] \in Owner
  BY <1>1, MonitorKinds, MonitorsAssumption
<1> HIDE DEF k
<1>4. runs[k] = 0
  <2>1. runs[k] \in Nat
    BY <1>3 DEF MonitorsInv, MonitorsTypeOK
  <2> QED BY <1>1, <2>1 DEF Visible
<1>5. ActiveRuns(p, k.owner) < RunQuota
  <2>1. ActiveRuns(p, k.owner) \in Nat
    BY ActiveRunsType DEF MonitorsInv, MonitorsTypeOK
  <2>2. RunQuota \in Nat
    BY MonitorsAssumption
  <2> QED BY <1>1, <1>3, <2>1, <2>2, SMT
<1>6. OneEach' /\ Spare'
  BY <1>1, <1>2, <1>3, <1>4, <1>5, OneMoreUse DEF MonitorsInv
<1> QED
  BY <1>1, <1>2, <1>6 DEF MonitorsInv, MonitorsTypeOK, LateUncounted

LEMMA CreateRunKeeps ==
  ASSUME MonitorsInv, NEW c \in Process, NEW o \in Owner, CreateRun(c, o)
  PROVE  MonitorsInv'
<1> DEFINE k == UserRun(o, TRUE)
<1>1. /\ ActiveRuns(c, o) < RunQuota /\ Call /\ UNCHANGED <<monitor, agenda, runs, late>>
  BY DEF CreateRun
<1>2. /\ tx' \in [Process -> TxRow] /\ LocksHeld'
      /\ \A q \in Process \ {c} : tx'[q] = tx[q]
      /\ tx[c].made = {} /\ tx'[c].made = {k}
  BY CreateRunRow DEF MonitorsInv
<1>3. k \in Kind /\ k.checked /\ k.owner = o /\ k.monitor = None
  BY UserKinds DEF UserRun
<1> HIDE DEF k
<1>4. \A m \in Monitor : k # MonitorRun(m)
  BY <1>3, MonitorKinds
<1>5. tx'[c].made = tx[c].made \cup {k}
  BY <1>2
<1>6. OneEach' /\ Spare'
  BY <1>1, <1>2, <1>3, <1>4, <1>5, OneMoreUse DEF MonitorsInv
<1>7. calls' \in 0..MaxCalls
  BY <1>1, CallType DEF MonitorsInv, MonitorsTypeOK
<1> QED
  BY <1>1, <1>2, <1>6, <1>7 DEF MonitorsInv, MonitorsTypeOK, LateUncounted

LEMMA CommitKeeps ==
  ASSUME MonitorsInv, NEW p \in Process, CommitDispatch(p) \/ CommitInsert(p)
  PROVE  MonitorsInv'
<1>1. Publish(p) /\ tx' = [tx EXCEPT ![p] = NoTx] /\ UNCHANGED <<monitor, late, calls>>
  BY DEF CommitDispatch, CommitInsert
<1>2. agenda' \in Seq(Monitor)
  BY AgendaType DEF CommitDispatch, CommitInsert, MonitorsInv, MonitorsTypeOK
<1>3. runs' \in [Kind -> Nat] /\ OneEach' /\ Spare'
  BY <1>1, PublishedUses DEF MonitorsInv
<1>4. tx' \in [Process -> TxRow] /\ LocksHeld'
  BY <1>1, TxEnds DEF MonitorsInv
<1> QED
  BY <1>1, <1>2, <1>3, <1>4 DEF MonitorsInv, MonitorsTypeOK, LateUncounted

LEMMA FaultKeeps ==
  ASSUME MonitorsInv, NEW p \in Process, Fault(p)
  PROVE  MonitorsInv'
<1>1. /\ tx' = [tx EXCEPT ![p] = NoTx] /\ UNCHANGED <<monitor, agenda, runs, late>>
      /\ calls' \in {calls, calls + 1} /\ calls' <= MaxCalls
  BY DEF Fault
<1>2. calls' \in 0..MaxCalls
  BY <1>1, MonitorsAssumption DEF MonitorsInv, MonitorsTypeOK
<1>3. /\ tx' \in [Process -> TxRow] /\ LocksHeld' /\ tx'[p].made = {}
      /\ \A q \in Process \ {p} : tx'[q] = tx[q]
  BY <1>1, TxEnds DEF MonitorsInv
<1>4. \A q \in Process : tx'[q].made \subseteq tx[q].made
  BY <1>3
<1>5. OneEach' /\ Spare'
  BY <1>1, <1>4, SameUses
<1> QED
  BY <1>1, <1>2, <1>3, <1>5 DEF MonitorsInv, MonitorsTypeOK, LateUncounted

\* CreateMonitor, PatchMonitor, BecomeDue: the monitors and the agenda only.
LEMMA TablesKeep ==
  ASSUME MonitorsInv, UNCHANGED <<runs, late, tx>>, calls' \in 0..MaxCalls,
         monitor' \in [Monitor -> {"absent", "disabled", "enabled"}], agenda' \in Seq(Monitor)
  PROVE  MonitorsInv'
<1>1. OneEach' /\ Spare' /\ runs' \in [Kind -> Nat]
  BY SameUses
<1>2. LocksHeld' /\ tx' \in [Process -> TxRow]
  BY SameLocks
<1> QED
  BY <1>1, <1>2 DEF MonitorsInv, MonitorsTypeOK, LateUncounted

LEMMA MonitorsApiKeeps ==
  ASSUME MonitorsInv, NEW m \in Monitor,
         \/ \E c \in Client : CreateMonitor(c, m)
         \/ \E s \in {"disabled", "enabled"} : PatchMonitor(m, s)
         \/ BecomeDue(m)
  PROVE  MonitorsInv'
<1>1. /\ monitor \in [Monitor -> {"absent", "disabled", "enabled"}]
      /\ agenda \in Seq(Monitor) /\ calls \in 0..MaxCalls
  BY DEF MonitorsInv, MonitorsTypeOK
<1>2. UNCHANGED <<runs, late, tx>> /\ (UNCHANGED calls \/ Call)
  BY DEF CreateMonitor, PatchMonitor, BecomeDue
<1>3. UNCHANGED monitor \/ \E s \in {"disabled", "enabled"} : monitor' = [monitor EXCEPT ![m] = s]
  BY DEF CreateMonitor, PatchMonitor, BecomeDue
<1>4. \/ UNCHANGED agenda \/ agenda' = Without({m}, agenda) \/ agenda' = Append(agenda, m)
  BY DEF CreateMonitor, PatchMonitor, BecomeDue
<1>5. agenda' \in Seq(Monitor)
  BY <1>1, <1>4, AgendaType
<1>6. monitor' \in [Monitor -> {"absent", "disabled", "enabled"}]
  BY <1>1, <1>3
<1> QED
  BY <1>1, <1>2, <1>5, <1>6, CallType, TablesKeep

LEMMA DeleteKeeps ==
  ASSUME MonitorsInv, NEW m \in Monitor, DeleteMonitor(m)
  PROVE  MonitorsInv'
<1>1. runs' \in [Kind -> Nat] /\ OneEach' /\ Spare'
  BY DeletedUses DEF MonitorsInv
<1>2. LocksHeld' /\ tx' \in [Process -> TxRow]
  BY SameLocks DEF DeleteMonitor
<1>3. agenda' \in Seq(Monitor) /\ calls' \in 0..MaxCalls
  BY AgendaType, CallType DEF DeleteMonitor, MonitorsInv, MonitorsTypeOK
<1>4. monitor' \in [Monitor -> {"absent", "disabled", "enabled"}]
  BY DEF DeleteMonitor, MonitorsInv, MonitorsTypeOK
<1>5. late' \in [Kind -> Nat] /\ LateUncounted'
  <2> DEFINE k0 == MonitorRun(m)
             k1 == UserRun(OwnerOf[m], TRUE)
  <2>1. late \in [Kind -> Nat] /\ late' = Orphaned(m, late)
    BY DEF DeleteMonitor, MonitorsInv, MonitorsTypeOK
  <2>2. k0 \in Kind /\ k0.checked /\ k1.checked
    BY MonitorKinds DEF UserRun
  <2>3. /\ late' \in [Kind -> Nat] /\ late'[k0] = 0
        /\ k1 \in Kind => late'[k1] = late[k1] + late[k0]
        /\ \A k \in Kind \ {k0, k1} : k.checked => late'[k] = late[k]
    BY <2>1, OrphanedIs
  <2> HIDE DEF k0, k1
  <2>4. ASSUME NEW k \in Kind, k.checked PROVE late'[k] = 0
    <3>1. late[k] = 0 /\ late[k0] = 0
      BY <2>2, <2>4 DEF MonitorsInv, LateUncounted
    <3> QED BY <2>3, <2>4, <3>1
  <2> QED BY <2>3, <2>4 DEF LateUncounted
<1> QED
  BY <1>1, <1>2, <1>3, <1>4, <1>5 DEF MonitorsInv, MonitorsTypeOK, LateUncounted

LEMMA RunNowKeeps ==
  ASSUME MonitorsInv, NEW c \in Process, NEW m \in Monitor, RunNow(c, m)
  PROVE  MonitorsInv'
<1>1. /\ tx[c].pc = "idle" /\ UNCHANGED <<monitor, agenda, runs, late>>
      /\ tx' = [tx EXCEPT ![c] = [[tx[c] EXCEPT !.pc = "bumping"] EXCEPT !.target = m]]
  BY DEF RunNow
<1>2. /\ tx' \in [Process -> TxRow] /\ LocksHeld'
      /\ \A q \in Process : tx'[q].made = tx[q].made
  BY <1>1, RequestRow DEF MonitorsInv
<1>3. OneEach' /\ Spare'
  BY <1>1, <1>2, SameUses
<1>4. calls' \in 0..MaxCalls
  BY CallType DEF RunNow, MonitorsInv, MonitorsTypeOK
<1> QED
  BY <1>1, <1>2, <1>3, <1>4 DEF MonitorsInv, MonitorsTypeOK, LateUncounted

LEMMA BumpNextKeeps ==
  ASSUME MonitorsInv, NEW c \in Process, BumpNext(c)
  PROVE  MonitorsInv'
<1> DEFINE m == tx[c].target
<1>0. m \in Monitor
  BY DEF BumpNext, MonitorsInv, LocksHeld, Claims
<1>1. tx[c].pc = "bumping" /\ UNCHANGED <<monitor, runs, late, calls>> /\ agenda \in Seq(Monitor)
  BY DEF BumpNext, MonitorsInv, MonitorsTypeOK
<1>2. CASE monitor[m] = "absent"
  <2>1. tx' = [tx EXCEPT ![c] = NoTx] /\ UNCHANGED agenda
    BY <1>2 DEF BumpNext
  <2>2. /\ tx' \in [Process -> TxRow] /\ LocksHeld' /\ tx'[c].made = {}
        /\ \A q \in Process \ {c} : tx'[q] = tx[q]
    BY <2>1, TxEnds DEF MonitorsInv
  <2>3. \A q \in Process : tx'[q].made \subseteq tx[q].made
    BY <2>2
  <2>4. OneEach' /\ Spare'
    BY <1>1, <2>3, SameUses
  <2> QED BY <1>1, <2>1, <2>2, <2>4 DEF MonitorsInv, MonitorsTypeOK, LateUncounted
<1>3. CASE monitor[m] # "absent"
  <2>1. /\ tx' = [tx EXCEPT ![c].pc = "claiming"] /\ agenda' = Append(Without({m}, agenda), m)
    BY <1>3 DEF BumpNext
  <2>2. agenda' \in Seq(Monitor)
    BY <1>0, <1>1, <2>1, AgendaType
  <2>3. tx[c] \in TxRow
    BY DEF MonitorsInv, MonitorsTypeOK
  <2>4. [[tx[c] EXCEPT !.pc = "claiming"] EXCEPT !.target = m] = [tx[c] EXCEPT !.pc = "claiming"]
    BY <2>3 DEF TxRow
  <2>5. tx' = [tx EXCEPT ![c] = [[tx[c] EXCEPT !.pc = "claiming"] EXCEPT !.target = m]]
    BY <2>1, <2>4
  <2>6. /\ tx' \in [Process -> TxRow] /\ LocksHeld'
        /\ \A q \in Process : tx'[q].made = tx[q].made
    BY <1>0, <1>1, <2>5, RequestRow DEF MonitorsInv
  <2>7. OneEach' /\ Spare'
    BY <1>1, <2>6, SameUses
  <2> QED BY <1>1, <2>2, <2>6, <2>7 DEF MonitorsInv, MonitorsTypeOK, LateUncounted
<1> QED
  BY <1>2, <1>3

\* CreateUncounted, FinishRun, CancelRun, BringBack: no run that counts is added.
LEMMA RunsKeep ==
  ASSUME MonitorsInv,
         \/ \E o \in Owner : CreateUncounted(o)
         \/ \E k \in Kind : FinishRun(k) \/ CancelRun(k) \/ BringBack(k)
  PROVE  MonitorsInv'
<1>1. runs \in [Kind -> Nat] /\ late \in [Kind -> Nat] /\ LateUncounted
  BY DEF MonitorsInv, MonitorsTypeOK
<1>2. UNCHANGED <<monitor, agenda, tx>> /\ calls' \in 0..MaxCalls
  BY CallType DEF CreateUncounted, FinishRun, CancelRun, BringBack, MonitorsInv, MonitorsTypeOK
<1> DEFINE Kept == /\ runs' \in [Kind -> Nat] /\ \A k \in Kind : k.checked => runs'[k] <= runs[k]
                   /\ late' \in [Kind -> Nat] /\ LateUncounted'
<1>3. ASSUME NEW o \in Owner, CreateUncounted(o) PROVE Kept
  <2>1. UserRun(o, FALSE) \in Kind /\ ~UserRun(o, FALSE).checked
    BY UserKinds DEF UserRun
  <2> DEFINE k0 == UserRun(o, FALSE)
  <2>2. runs' = [runs EXCEPT ![k0] = runs[k0] + 1] /\ late' = late
    BY <1>3 DEF CreateUncounted
  <2> HIDE DEF k0
  <2>3. k0 \in Kind /\ ~k0.checked
    BY <2>1 DEF k0
  <2>4. runs[k0] + 1 \in Nat
    BY <1>1, <2>3
  <2>5. \A k \in Kind \ {k0} : runs'[k] = runs[k] /\ runs[k] \in Nat
    BY <1>1, <2>2
  <2> QED BY <1>1, <2>2, <2>3, <2>4, <2>5 DEF LateUncounted
<1>4. ASSUME NEW k0 \in Kind, FinishRun(k0) PROVE Kept
  <2>1. runs' = [runs EXCEPT ![k0] = runs[k0] - 1] /\ runs[k0] > 0 /\ late' = late
    BY <1>4 DEF FinishRun
  <2> QED BY <1>1, <2>1 DEF LateUncounted
<1>5. ASSUME NEW k0 \in Kind, CancelRun(k0) PROVE Kept
  <2> DEFINE k1 == Returned(k0)
  <2>1. runs' = [runs EXCEPT ![k0] = runs[k0] - 1] /\ runs[k0] > 0
    BY <1>5 DEF CancelRun
  <2>2. late' = [late EXCEPT ![k1] = late[k1] + 1]
    BY <1>5 DEF CancelRun
  <2>3. k1 \in Kind /\ ~k1.checked
    BY ReturnedKinds
  <2> HIDE DEF k1
  <2>4. late[k1] + 1 \in Nat
    BY <1>1, <2>3
  <2>5. \A k \in Kind \ {k1} : late'[k] = late[k]
    BY <1>1, <2>2
  <2>6. late' \in [Kind -> Nat] /\ LateUncounted'
    BY <1>1, <2>2, <2>3, <2>4, <2>5 DEF LateUncounted
  <2>7. runs' \in [Kind -> Nat] /\ \A k \in Kind : k.checked => runs'[k] <= runs[k]
    BY <1>1, <2>1
  <2> QED BY <2>6, <2>7
<1>6. ASSUME NEW k0 \in Kind, BringBack(k0) PROVE Kept
  <2>1. /\ runs' = [runs EXCEPT ![k0] = runs[k0] + 1]
        /\ late' = [late EXCEPT ![k0] = late[k0] - 1] /\ late[k0] > 0
    BY <1>6 DEF BringBack
  <2>2. ~k0.checked
    BY <1>1, <2>1 DEF LateUncounted
  <2>3. \A k \in Kind \ {k0} : runs'[k] = runs[k] /\ late'[k] = late[k]
    BY <1>1, <2>1
  <2>4. runs[k0] + 1 \in Nat /\ late[k0] - 1 \in Nat
    BY <1>1, <2>1
  <2> QED BY <1>1, <2>1, <2>2, <2>3, <2>4 DEF LateUncounted
<1>7. Kept
  BY <1>3, <1>4, <1>5, <1>6
<1>8. LocksHeld' /\ tx' \in [Process -> TxRow]
  BY <1>2, SameLocks
<1>9. OneEach' /\ Spare'
  BY <1>2, <1>7, FewerUses DEF MonitorsInv
<1> QED
  BY <1>2, <1>7, <1>8, <1>9 DEF MonitorsInv, MonitorsTypeOK

LEMMA InitInv ==
  ASSUME Init
  PROVE  MonitorsInv
<1>1. monitor \in [Monitor -> {"absent", "disabled", "enabled"}] /\ agenda \in Seq(Monitor)
  BY DEF Init
<1>2. /\ runs \in [Kind -> Nat] /\ \A k \in Kind : runs[k] = 0
      /\ late \in [Kind -> Nat] /\ \A k \in Kind : late[k] = 0
  BY DEF Init
<1>3. tx \in [Process -> TxRow] /\ calls \in 0..MaxCalls
  BY NoTxRow, MonitorsAssumption DEF Init
<1>4. \A p \in Process : /\ tx[p].pc = "idle" /\ tx[p].todo = <<>> /\ tx[p].made = {}
                         /\ tx[p].rows = {} /\ tx[p].keys = {}
  BY NoTxRow DEF Init
<1>5. LocksHeld
  <2>1. <<>> \in Seq({})
    OBVIOUS
  <2> QED BY <1>4, <2>1 DEF LocksHeld, Claims, Apart
<1>6. OneEach
  BY <1>2, <1>4, MonitorKinds DEF OneEach
<1>7. ASSUME NEW o, NEW f \in [Kind -> Nat], \A k \in Kind : f[k] = 0 PROVE Within(f, o)
  <2>1. Units(f, CheckedKinds(o)) = {}
    <3>1. ASSUME NEW x \in Units(f, CheckedKinds(o)) PROVE FALSE
      <4>1. PICK k \in CheckedKinds(o) : \E i \in 1..f[k] : x = <<k, i>>
        BY UnitsIs
      <4>2. f[k] = 0
        BY <1>7 DEF CheckedKinds, KindsOf
      <4> QED BY <4>1, <4>2
    <3> QED BY <3>1
  <2> QED BY <2>1, FS_EmptySet, MonitorsAssumption DEF Within
<1>8. \A p \in Process : View(p) \in [Kind -> Nat] /\ \A k \in Kind : View(p)[k] = 0
  <2>1. ASSUME NEW p \in Process, NEW k \in Kind PROVE Visible(p, k) = 0
    BY <1>2, <1>4 DEF Visible
  <2> QED BY <2>1 DEF View
<1> QED
  BY <1>1, <1>2, <1>3, <1>5, <1>6, <1>7, <1>8
  DEF MonitorsInv, MonitorsTypeOK, Spare, LateUncounted

\* Type correctness, the locks, and the bounds on runs are inductive together.
THEOREM MonitorsInvariant == Spec => []MonitorsInv
<1>1. Init => MonitorsInv
  BY InitInv
<1>2. MonitorsInv /\ [Next]_vars => MonitorsInv'
  <2>1. SUFFICES ASSUME MonitorsInv, [Next]_vars PROVE MonitorsInv'
    OBVIOUS
  <2>2. ASSUME NEW p \in Process, ClaimDue(p) PROVE MonitorsInv'
    BY <2>1, <2>2, ClaimDueKeeps
  <2>3. ASSUME NEW p \in Process, CommitDispatch(p) \/ CommitInsert(p) PROVE MonitorsInv'
    BY <2>1, <2>3, CommitKeeps
  <2>4. ASSUME NEW p \in Process, NEW m \in Monitor,
               Postpone(p, m) \/ Skip(p, m) \/ LaunchFails(p, m)
        PROVE  MonitorsInv'
    BY <2>1, <2>4, DecideNoRunKeeps
  <2>5. ASSUME NEW p \in Process, NEW m \in Monitor, Launch(p, m) PROVE MonitorsInv'
    BY <2>1, <2>5, LaunchKeeps
  <2>6. ASSUME NEW p \in Process, BumpNext(p) PROVE MonitorsInv'
    BY <2>1, <2>6, BumpNextKeeps
  <2>7. ASSUME NEW p \in Process, Fault(p) PROVE MonitorsInv'
    BY <2>1, <2>7, FaultKeeps
  <2>8. ASSUME NEW m \in Monitor,
               \/ \E c \in Client : CreateMonitor(c, m)
               \/ \E s \in {"disabled", "enabled"} : PatchMonitor(m, s)
               \/ BecomeDue(m)
        PROVE  MonitorsInv'
    BY <2>1, <2>8, MonitorsApiKeeps
  <2>9. ASSUME NEW c \in Client, NEW m \in Monitor, RunNow(c, m) PROVE MonitorsInv'
    BY <2>1, <2>9, RunNowKeeps DEF Process
  <2>10. ASSUME NEW c \in Client, NEW o \in Owner, CreateRun(c, o) PROVE MonitorsInv'
    BY <2>1, <2>10, CreateRunKeeps DEF Process
  <2>11. ASSUME NEW m \in Monitor, DeleteMonitor(m) PROVE MonitorsInv'
    BY <2>1, <2>11, DeleteKeeps
  <2>12. ASSUME \/ \E o \in Owner : CreateUncounted(o)
                \/ \E k \in Kind : FinishRun(k) \/ CancelRun(k) \/ BringBack(k)
         PROVE  MonitorsInv'
    BY <2>1, <2>12, RunsKeep
  <2>13. CASE UNCHANGED vars
    <3>1. UNCHANGED <<runs, late, tx, monitor, agenda, calls>>
      BY <2>13 DEF vars
    <3> QED BY <2>1, <3>1, TablesKeep DEF MonitorsInv, MonitorsTypeOK, LateUncounted
  <2> QED
    BY <2>1, <2>2, <2>3, <2>4, <2>5, <2>6, <2>7, <2>8, <2>9, <2>10, <2>11, <2>12, <2>13, Zenon
    DEF Next, Proceed, Look
<1> QED
  BY <1>1, <1>2, PTL DEF Spec

\* No monitor ever has two runs that have not ended, committed or about to be,
\* however many workers and run-now requests dispatch it, and whatever ended
\* runs executors and decisions bring back.
THEOREM OneRunAtATime == Spec => []OneActiveRunPerMonitor
<1>1. MonitorsInv => OneActiveRunPerMonitor
  <2>1. SUFFICES ASSUME MonitorsInv, NEW m \in Monitor
                 PROVE  runs[MonitorRun(m)]
                        + Cardinality({p \in Process : MonitorRun(m) \in tx[p].made}) <= 1
    BY DEF OneActiveRunPerMonitor
  <2> DEFINE k == MonitorRun(m)
             makers == {p \in Process : k \in tx[p].made}
  <2>2. k \in Kind /\ k.monitor = m /\ m # None
    BY MonitorKinds
  <2>3. runs[k] \in Nat /\ runs[k] <= 1 /\ \A p \in makers : runs[k] = 0
    BY <2>1, <2>2 DEF MonitorsInv, MonitorsTypeOK, OneEach
  <2> HIDE DEF k
  <2>4. \A p, q \in makers : p = q
    BY <2>1, <2>2 DEF MonitorsInv, LocksHeld, Claims, Apart
  <2> HIDE DEF makers
  <2>5. CASE makers = {}
    <3>1. Cardinality(makers) = 0
      BY <2>5, FS_EmptySet
    <3>2. runs[k] + Cardinality(makers) <= 1
      BY <2>3, <3>1
    <3> QED BY <3>2 DEF makers, k
  <2>6. CASE makers # {}
    <3>1. PICK p \in makers : makers = {p}
      BY <2>4, <2>6
    <3>2. Cardinality(makers) = 1
      BY <3>1, FS_Singleton
    <3> QED BY <2>3, <2>6, <3>2 DEF makers, k
  <2> QED BY <2>5, <2>6
<1> QED
  BY <1>1, MonitorsInvariant, PTL

\* The runs created behind an owner's advisory lock that have not ended never
\* exceed the quota, whatever runs restart, fork and follow-up add next to them
\* and whatever ended runs come back.
THEOREM QuotaRespected == Spec => []QuotaKept
<1>1. MonitorsInv => QuotaKept
  <2>1. \A o \in Owner : Counted(o) = Units(runs, CheckedKinds(o))
    BY DEF Counted, Units, CheckedKinds
  <2> QED BY <2>1 DEF MonitorsInv, Spare, Within, QuotaKept
<1> QED
  BY <1>1, MonitorsInvariant, PTL

\* Every table and transaction row keeps its type.
THEOREM MonitorsTypeCorrect == Spec => []MonitorsTypeOK
<1>1. MonitorsInv => MonitorsTypeOK
  BY DEF MonitorsInv
<1> QED
  BY <1>1, MonitorsInvariant, PTL
=============================================================================
