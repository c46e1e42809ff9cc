------------------------- MODULE EventStream_proofs -------------------------
(***************************************************************************)
(* Proofs about the event stream, for any number of writers, tabs, streams *)
(* and events, and any size of a page.                                     *)
(***************************************************************************)
EXTENDS EventStream, FiniteSetTheorems, TLAPS

-----------------------------------------------------------------------------
(* The inductive invariant.                                                *)

\* The lock of the run's row: one transaction at a time has written.
OneWriter ==
  \A v, w \in Writer : tx[v] # NoTx /\ tx[w] # NoTx => v = w

\* Committed numbers have no gap, and pending ones continue them.
Numbered ==
  \E n \in Nat :
    /\ log = 1..n
    /\ \A w \in Writer : \E m \in Nat : tx[w].events = (n + 1)..m

\* A generator that a tab listens to is about to yield what the tab lacks.
Follows(s, t) ==
  LET row == stream[s]
      count == Len(tab[t].got)
  IN
  /\ row.tab = t /\ row.pc # "free"
  /\ row.pc \in {"opened", "ready", "checked"} => row.last = count
  /\ row.pc \in {"listed", "sending"} => /\ count <= row.last
                                         /\ row.frames = (count + 1)..row.last
  /\ row.pc = "sending" => row.frames # {}

Followed == \A s \in Stream, t \in Tab : tab[t].conn = s => Follows(s, t)

\* A generator has listed committed events only.
Listing == \A s \in Stream : 1..stream[s].last \subseteq log

StreamInv ==
  /\ StreamTypeOK
  /\ OneWriter
  /\ Numbered
  /\ Followed
  /\ Listing
  /\ NoEventSkipped
  /\ SlotsCounted

-----------------------------------------------------------------------------
(* Numbers and pages.                                                      *)

LEMMA MaxIs ==
  ASSUME NEW S, NEW m \in S, S \subseteq Nat, \A x \in S : x <= m
  PROVE  Max(S) = m
<1>1. \E x \in S : \A y \in S : x >= y
  BY SMT
<1>2. Max(S) \in S /\ \A y \in S : Max(S) >= y
  BY <1>1 DEF Max
<1>3. PICK k \in S : k = Max(S) /\ \A y \in S : k >= y
  BY <1>2
<1>4. k = m
  BY <1>3, SMT
<1> QED
  BY <1>3, <1>4

LEMMA MinIs ==
  ASSUME NEW S, NEW m \in S, S \subseteq Nat, \A x \in S : m <= x
  PROVE  Min(S) = m
<1>1. \E x \in S : \A y \in S : x =< y
  BY SMT
<1>2. Min(S) \in S /\ \A y \in S : Min(S) =< y
  BY <1>1 DEF Min
<1>3. PICK k \in S : k = Min(S) /\ \A y \in S : k =< y
  BY <1>2
<1>4. k = m
  BY <1>3, SMT
<1> QED
  BY <1>3, <1>4

\* The next number of a transaction that holds the lock.
LEMMA LastSequenceIs ==
  ASSUME NEW n \in Nat, NEW m \in Nat, NEW w \in Writer,
         log = 1..n, tx[w].events = (n + 1)..m
  PROVE  LastSequence(w) = IF m > n THEN m ELSE n
<1> DEFINE S == {0} \cup log \cup tx[w].events
           k == IF m > n THEN m ELSE n
<1>1. k \in S /\ S \subseteq Nat /\ \A x \in S : x <= k
  BY SMT
<1>2. Max(S) = k
  <2> HIDE DEF S, k
  <2> QED
    BY <1>1, MaxIs
<1> QED
  BY <1>2 DEF LastSequence

\* A page is the run of numbers that follows the last one.
LEMMA ListedIs ==
  ASSUME StreamAssumption,
         NEW n \in Nat, log = 1..n,
         NEW s \in Stream, NEW g \in Nat, stream[s].last = g, g <= n
  PROVE  LET up == Max({stream[s].last} \cup Listed(s))
         IN up \in g..n /\ Listed(s) = (g + 1)..up
<1> DEFINE newer == {e \in log : e > stream[s].last}
           k == IF g + Page > n THEN n ELSE g + Page
<1>1. newer = (g + 1)..n
  BY SMT
<1>2. ASSUME NEW e \in newer
      PROVE  Cardinality({f \in newer : f < e}) = e - 1 - g
  <2>1. {f \in newer : f < e} = (g + 1)..(e - 1)
    BY <1>1, <1>2, SMT
  <2>2. g + 1 \in Int /\ e - 1 \in Int /\ e \in (g + 1)..n
    BY <1>1, <1>2, SMT
  <2>3. Cardinality((g + 1)..(e - 1)) =
          IF g + 1 > e - 1 THEN 0 ELSE (e - 1) - (g + 1) + 1
    BY <2>2, FS_Interval
  <2>4. (IF g + 1 > e - 1 THEN 0 ELSE (e - 1) - (g + 1) + 1) = e - 1 - g
    BY <2>2, SMT
  <2> QED
    BY <2>1, <2>3, <2>4
<1>3. Listed(s) = {e \in newer : e - 1 - g < Page}
  BY <1>2 DEF Listed
<1>4. Page \in Nat \ {0}
  BY DEF StreamAssumption
<1>5. Listed(s) = (g + 1)..k /\ k \in g..n
  <2> HIDE DEF newer
  <2> QED
    BY <1>1, <1>3, <1>4, SMT
<1>6. Max({g} \cup Listed(s)) = k
  <2>1. k \in {g} \cup Listed(s) /\ {g} \cup Listed(s) \subseteq Nat
        /\ \A x \in {g} \cup Listed(s) : x <= k
    BY <1>5, <1>4, SMT
  <2> QED
    BY <2>1, MaxIs
<1> QED
  BY <1>5, <1>6

-----------------------------------------------------------------------------
(* Writers.                                                                *)

\* More committed events take nothing from generators and tabs.
LEMMA LogGrows ==
  ASSUME StreamInv, log \subseteq log', UNCHANGED <<stream, tab>>
  PROVE  Followed' /\ Listing' /\ NoEventSkipped'
BY DEF StreamInv, Followed, Follows, Listing, NoEventSkipped

\* A change of one transaction.
LEMMA TxChanged ==
  ASSUME StreamTypeOK, Numbered, OneWriter, NEW w \in Writer, NEW x \in TxRow,
         tx' = [tx EXCEPT ![w] = x], UNCHANGED log,
         x = NoTx \/ LockFree(w),
         \/ x.events = tx[w].events
         \/ x.events = {}
         \/ x.events = tx[w].events \cup {LastSequence(w) + 1}
  PROVE  tx' \in [Writer -> TxRow] /\ OneWriter' /\ Numbered'
<1>1. tx \in [Writer -> TxRow]
  BY DEF StreamTypeOK
<1>2. tx' \in [Writer -> TxRow]
  BY <1>1
<1>3. OneWriter'
  BY <1>1, Zenon DEF OneWriter, LockFree
<1>4. PICK n \in Nat : log = 1..n /\ \A v \in Writer : \E m \in Nat : tx[v].events = (n + 1)..m
  BY DEF Numbered
<1>5. ASSUME NEW v \in Writer PROVE \E m \in Nat : tx'[v].events = (n + 1)..m
  <2>1. CASE v # w
    BY <1>1, <1>4, <2>1
  <2>2. CASE v = w /\ x.events = tx[w].events
    BY <1>1, <1>4, <2>2
  <2>3. CASE v = w /\ x.events = {}
    <3>1. (n + 1)..0 = {}
      BY SMT
    <3> QED
      BY <1>1, <2>3, <3>1
  <2>4. CASE v = w /\ x.events = tx[w].events \cup {LastSequence(w) + 1}
    <3>1. PICK m \in Nat : tx[w].events = (n + 1)..m
      BY <1>4
    <3> DEFINE k == IF m > n THEN m ELSE n
    <3>2. LastSequence(w) = k
      BY <1>4, <3>1, LastSequenceIs
    <3>3. ((n + 1)..m) \cup {k + 1} = (n + 1)..(k + 1) /\ k + 1 \in Nat
      BY SMT
    <3>4. tx'[v].events = (n + 1)..(k + 1)
      BY <1>1, <2>4, <3>1, <3>2, <3>3
    <3> QED
      BY <3>3, <3>4
  <2> QED
    BY <2>1, <2>2, <2>3, <2>4
<1> QED
  BY <1>2, <1>3, <1>4, <1>5 DEF Numbered

\* What is left of the invariant when streams and tabs do nothing.
LEMMA QuietStep ==
  ASSUME StreamInv, UNCHANGED <<hosted, session, slots, stream, tab, faults>>,
         ended' \in BOOLEAN, tx' \in [Writer -> TxRow], OneWriter', Numbered',
         log \subseteq log'
  PROVE  StreamInv'
<1>1. log' \subseteq Nat
  BY SMT DEF Numbered
<1>2. StreamTypeOK'
  BY <1>1 DEF StreamInv, StreamTypeOK
<1>3. SlotsCounted'
  BY DEF StreamInv, SlotsCounted
<1> QED
  BY <1>2, <1>3, LogGrows DEF StreamInv

LEMMA AppendStep == ASSUME StreamInv, NEW w \in Writer, AppendEvent(w) PROVE StreamInv'
<1> DEFINE x == [tx[w] EXCEPT !.events = @ \cup {LastSequence(w) + 1}]
<1>1. tx[w] \in TxRow
  BY DEF StreamInv, StreamTypeOK
<1>2. LastSequence(w) \in Nat
  <2>1. PICK n \in Nat : log = 1..n /\ \A v \in Writer : \E m \in Nat : tx[v].events = (n + 1)..m
    BY DEF StreamInv, Numbered
  <2>2. PICK m \in Nat : tx[w].events = (n + 1)..m
    BY <2>1
  <2> QED
    BY <2>1, <2>2, LastSequenceIs
<1>3. LastSequence(w) + 1 \in Nat
  BY <1>2, SMT
<1>4. x \in TxRow /\ x.events = tx[w].events \cup {LastSequence(w) + 1}
  BY <1>1, <1>3 DEF TxRow
<1>5. tx' = [tx EXCEPT ![w] = x] /\ LockFree(w) /\ UNCHANGED log
  BY DEF AppendEvent
<1>6. tx' \in [Writer -> TxRow] /\ OneWriter' /\ Numbered'
  BY <1>4, <1>5, TxChanged DEF StreamInv
<1> QED
  BY <1>6, QuietStep DEF AppendEvent, StreamInv, StreamTypeOK

LEMMA EndStep == ASSUME StreamInv, NEW w \in Writer, EndRun(w) PROVE StreamInv'
<1> DEFINE x == [tx[w] EXCEPT !.ends = TRUE]
<1>1. tx[w] \in TxRow
  BY DEF StreamInv, StreamTypeOK
<1>2. x \in TxRow /\ x.events = tx[w].events
  BY <1>1 DEF TxRow
<1>3. tx' = [tx EXCEPT ![w] = x] /\ LockFree(w) /\ UNCHANGED log
  BY DEF EndRun
<1>4. tx' \in [Writer -> TxRow] /\ OneWriter' /\ Numbered'
  <2>1. StreamTypeOK /\ Numbered /\ OneWriter
    BY DEF StreamInv
  <2> HIDE DEF x
  <2> QED
    BY <1>2, <1>3, <2>1, TxChanged, Zenon
<1> QED
  BY <1>4, QuietStep DEF EndRun, StreamInv, StreamTypeOK

LEMMA NoTxRow == NoTx \in TxRow /\ NoTx.events = {}
BY DEF NoTx, TxRow

LEMMA RollbackStep == ASSUME StreamInv, NEW w \in Writer, Rollback(w) PROVE StreamInv'
<1>1. tx' = [tx EXCEPT ![w] = NoTx] /\ UNCHANGED log
  BY DEF Rollback
<1>2. tx' \in [Writer -> TxRow] /\ OneWriter' /\ Numbered'
  <2>1. StreamTypeOK /\ Numbered /\ OneWriter
    BY DEF StreamInv
  <2> QED
    BY <1>1, <2>1, NoTxRow, TxChanged, Zenon
<1> QED
  BY <1>2, QuietStep DEF Rollback, StreamInv, StreamTypeOK

\* The transaction that commits is the only one, so its numbers come next.
LEMMA CommitStep == ASSUME StreamInv, NEW w \in Writer, Commit(w) PROVE StreamInv'
<1>1. tx \in [Writer -> TxRow] /\ tx[w] # NoTx /\ tx' = [tx EXCEPT ![w] = NoTx]
  BY DEF StreamInv, StreamTypeOK, Commit
<1>2. tx' \in [Writer -> TxRow] /\ OneWriter'
  BY <1>1, NoTxRow, Zenon DEF StreamInv, OneWriter
<1>3. \A v \in Writer : tx'[v].events = {}
  BY <1>1, NoTxRow, Zenon DEF StreamInv, OneWriter
<1>4. PICK n \in Nat : log = 1..n /\ \A v \in Writer : \E m \in Nat : tx[v].events = (n + 1)..m
  BY DEF StreamInv, Numbered
<1>5. PICK m \in Nat : tx[w].events = (n + 1)..m
  BY <1>4
<1> DEFINE k == IF m > n THEN m ELSE n
<1>6. log' = 1..k /\ k \in Nat /\ (k + 1)..0 = {}
  BY <1>4, <1>5, SMT DEF Commit
<1>7. Numbered'
  <2> HIDE DEF k
  <2> QED
    BY <1>3, <1>6 DEF Numbered
<1> QED
  BY <1>2, <1>7, QuietStep DEF Commit, StreamInv, StreamTypeOK, TxRow

-----------------------------------------------------------------------------
(* Generators.                                                             *)

\* The streams that hold a slot.
Held == {s \in Stream : stream[s].pc # "free"}

LEMMA HeldFinite == ASSUME StreamAssumption PROVE IsFiniteSet(Held)
<1>1. IsFiniteSet(Stream)
  BY FS_Interval, SMT DEF StreamAssumption, Stream
<1> QED
  BY <1>1, FS_Subset DEF Held

\* One generator moves on: what it yields next must still follow its tab.
LEMMA RowChanged ==
  ASSUME StreamInv, NEW s \in Stream, NEW r \in StreamRow,
         stream' = [stream EXCEPT ![s] = r],
         UNCHANGED <<hosted, log, ended, tx, session, slots, tab, faults>>,
         stream[s].pc # "free", r.pc # "free", 1..r.last \subseteq log,
         \A t \in Tab : tab[t].conn = s => Follows(s, t)'
  PROVE  StreamInv'
<1>1. stream \in [Stream -> StreamRow] /\ tab \in [Tab -> TabRow]
  BY DEF StreamInv, StreamTypeOK
<1>2. StreamTypeOK'
  BY <1>1 DEF StreamInv, StreamTypeOK
<1>3. OneWriter' /\ Numbered' /\ NoEventSkipped' /\ Listing'
  BY <1>1 DEF StreamInv, OneWriter, Numbered, NoEventSkipped, Listing
<1>4. SlotsCounted'
  <2>1. \A u \in Stream : stream'[u].pc # "free" <=> stream[u].pc # "free"
    BY <1>1
  <2>2. {u \in Stream : stream'[u].pc # "free"} = {u \in Stream : stream[u].pc # "free"}
    BY <2>1
  <2> QED
    BY <2>2 DEF StreamInv, SlotsCounted
<1>5. ASSUME NEW u \in Stream, NEW t \in Tab, tab'[t].conn = u PROVE Follows(u, t)'
  <2>1. CASE u = s
    BY <1>5, <2>1
  <2>2. CASE u # s
    <3>1. Follows(u, t) /\ stream'[u] = stream[u]
      BY <1>1, <1>5, <2>2 DEF StreamInv, Followed
    <3> QED
      BY <3>1 DEF Follows
  <2> QED
    BY <2>1, <2>2
<1>6. Followed'
  BY <1>5 DEF Followed
<1> QED
  BY <1>2, <1>3, <1>4, <1>6 DEF StreamInv

LEMMA StartStep == ASSUME StreamInv, NEW s \in Stream, Start(s) PROVE StreamInv'
<1> DEFINE r == [stream[s] EXCEPT !.pc = "ready"]
<1>1. stream \in [Stream -> StreamRow] /\ stream[s] \in StreamRow /\ stream[s].pc = "opened"
  BY DEF StreamInv, StreamTypeOK, Start
<1>2. r \in StreamRow /\ r.pc = "ready" /\ r.tab = stream[s].tab /\ r.last = stream[s].last
  BY <1>1, SMT DEF StreamRow
<1>3. stream' = [stream EXCEPT ![s] = r]
  BY <1>1 DEF Start
<1> HIDE DEF r
<1>4. ASSUME NEW t \in Tab, tab[t].conn = s PROVE Follows(s, t)'
  <2>1. Follows(s, t)
    BY <1>4 DEF StreamInv, Followed
  <2> QED
    BY <1>1, <1>2, <1>3, <2>1 DEF Follows, Start
<1> QED
  BY <1>1, <1>2, <1>3, <1>4, RowChanged DEF Start, StreamInv, Listing

\* A generator that nobody will start holds its slot; no tab listens to it.
LEMMA NeverStartedStep ==
  ASSUME StreamAssumption, StreamInv, NEW s \in Stream, NeverStarted(s) PROVE StreamInv'
<1> DEFINE r == [NoStream EXCEPT !.pc = "lost"]
<1>1. r \in StreamRow /\ r.pc = "lost" /\ r.last = 0
  <2>1. NoStream \in StreamRow /\ NoStream.last = 0
    BY DEF NoStream, StreamRow
  <2>2. \A x \in StreamRow : /\ [x EXCEPT !.pc = "lost"] \in StreamRow
                             /\ [x EXCEPT !.pc = "lost"].pc = "lost"
                             /\ [x EXCEPT !.pc = "lost"].last = x.last
    BY SMT DEF StreamRow
  <2> QED
    BY <2>1, <2>2
<1>2. stream' = [stream EXCEPT ![s] = r] /\ stream[s].pc = "opened"
  BY DEF NeverStarted
<1> HIDE DEF r
<1>3. 1..r.last \subseteq log
  BY <1>1, SMT
<1>4. ASSUME NEW t \in Tab, tab[t].conn = s PROVE FALSE
  <2>1. stream[s].tab = t
    BY <1>4 DEF StreamInv, Followed, Follows
  <2>2. t # None
    BY DEF StreamAssumption
  <2> QED
    BY <1>4, <2>1, <2>2 DEF NeverStarted, Connected
<1> QED
  BY <1>1, <1>2, <1>3, <1>4, RowChanged DEF NeverStarted

LEMMA CheckStep == ASSUME StreamInv, NEW s \in Stream, Check(s) PROVE StreamInv'
<1> DEFINE r1 == [stream[s] EXCEPT !.pc = "checked"]
           r == [r1 EXCEPT !.sawEnd = hosted /\ ended]
<1>1. stream \in [Stream -> StreamRow] /\ stream[s] \in StreamRow /\ stream[s].pc = "ready"
  BY DEF StreamInv, StreamTypeOK, Check
<1>2. r1 \in StreamRow /\ r1.pc = "checked" /\ r1.tab = stream[s].tab /\ r1.last = stream[s].last
  BY <1>1, SMT DEF StreamRow
<1>3. r \in StreamRow /\ r.pc = "checked" /\ r.tab = stream[s].tab /\ r.last = stream[s].last
  <2> HIDE DEF r1
  <2> QED
    BY <1>2, Zenon DEF StreamRow
<1>4. stream' = [stream EXCEPT ![s] = r]
  BY <1>1 DEF Check
<1> HIDE DEF r
<1>5. ASSUME NEW t \in Tab, tab[t].conn = s PROVE Follows(s, t)'
  <2>1. Follows(s, t)
    BY <1>5 DEF StreamInv, Followed
  <2> QED
    BY <1>1, <1>3, <1>4, <2>1 DEF Follows, Check
<1> QED
  BY <1>1, <1>3, <1>4, <1>5, RowChanged DEF Check, StreamInv, Listing

LEMMA ListStep ==
  ASSUME StreamAssumption, StreamInv, NEW s \in Stream, ListEvents(s) PROVE StreamInv'
<1> DEFINE up == Max({stream[s].last} \cup Listed(s))
           r1 == [stream[s] EXCEPT !.pc = "listed"]
           r2 == [r1 EXCEPT !.frames = Listed(s)]
           r == [r2 EXCEPT !.last = up]
<1>1. stream \in [Stream -> StreamRow] /\ stream[s] \in StreamRow /\ stream[s].pc = "checked"
  BY DEF StreamInv, StreamTypeOK, ListEvents
<1> DEFINE g == stream[s].last
<1>2. PICK n \in Nat : log = 1..n
  BY DEF StreamInv, Numbered
<1>3. g \in Nat /\ g <= n
  <2>1. g \in Nat
    BY <1>1 DEF StreamRow
  <2>2. 1..g \subseteq 1..n
    BY <1>2 DEF StreamInv, Listing
  <2> HIDE DEF g
  <2> QED
    BY <2>1, <2>2, SMT
<1>4. up \in g..n /\ Listed(s) = (g + 1)..up
  BY <1>2, <1>3, ListedIs
<1> HIDE DEF up, g
<1>5. up \in Nat /\ g <= up /\ 1..up \subseteq log /\ Listed(s) \subseteq Nat
  BY <1>2, <1>3, <1>4, SMT
<1>6. r1 \in StreamRow /\ r1.pc = "listed" /\ r1.tab = stream[s].tab
  BY <1>1, SMT DEF StreamRow
<1>7. r2 \in StreamRow /\ r2.pc = "listed" /\ r2.tab = stream[s].tab /\ r2.frames = Listed(s)
  <2> HIDE DEF r1
  <2> QED
    BY <1>5, <1>6, SMT DEF StreamRow
<1>8. r \in StreamRow /\ r.pc = "listed" /\ r.tab = stream[s].tab /\ r.frames = Listed(s)
      /\ r.last = up
  <2> HIDE DEF r2
  <2> QED
    BY <1>5, <1>7, SMT DEF StreamRow
<1>9. stream' = [stream EXCEPT ![s] = r]
  BY <1>1 DEF ListEvents, up
<1> HIDE DEF r
<1>10. ASSUME NEW t \in Tab, tab[t].conn = s PROVE Follows(s, t)'
  <2>1. stream[s].tab = t /\ Len(tab[t].got) = g
    BY <1>1, <1>10 DEF StreamInv, Followed, Follows, g
  <2>2. stream'[s] = r /\ tab' = tab
    BY <1>1, <1>9 DEF ListEvents
  <2> QED
    BY <1>4, <1>5, <1>8, <2>1, <2>2 DEF Follows
<1> QED
  BY <1>1, <1>5, <1>8, <1>9, <1>10, RowChanged DEF ListEvents

\* A generator ends, and gives its slot back.
LEMMA CloseStep ==
  ASSUME StreamAssumption, StreamInv, NEW s \in Stream, stream[s].pc # "free", Close(s)
  PROVE  StreamInv'
<1> DEFINE u == stream[s].tab
<1>1. stream \in [Stream -> StreamRow] /\ tab \in [Tab -> TabRow] /\ u \in Tab \cup {None}
      /\ slots \in Nat
  BY DEF StreamInv, StreamTypeOK, StreamRow
<1>2. stream' = [stream EXCEPT ![s] = NoStream] /\ NoStream \in StreamRow
      /\ NoStream.pc = "free" /\ NoStream.last = 0
  BY DEF Close, NoStream, StreamRow
<1>3. Held' = Held \ {s} /\ s \in Held
  BY <1>1, <1>2 DEF Held
<1>4. Cardinality(Held) \in Nat /\ Cardinality(Held') = Cardinality(Held) - 1
      /\ Cardinality(Held') \in Nat
  BY <1>3, HeldFinite, FS_RemoveElement, FS_CardinalityType
<1>5. slots' = Cardinality(Held') /\ slots' \in Nat
  BY <1>4 DEF Close, StreamInv, SlotsCounted, Held
<1>6. /\ tab' \in [Tab -> TabRow]
      /\ \A t \in Tab : tab'[t].got = tab[t].got
      /\ \A t \in Tab : tab'[t].conn \in {tab[t].conn, None} \ {s}
  <2>1. CASE Connected(s)
    <3> DEFINE row == [tab[u] EXCEPT !.conn = None]
    <3>1. u \in Tab /\ tab' = [tab EXCEPT ![u] = row]
      BY <1>1, <2>1 DEF Connected, Close
    <3>2. row \in TabRow /\ row.got = tab[u].got /\ row.conn = None
      BY <1>1, <3>1 DEF TabRow
    <3>3. \A t \in Tab : tab[t].conn = s => t = u
      BY DEF StreamInv, Followed, Follows
    <3>4. None # s
      BY SMT DEF StreamAssumption, Stream
    <3> HIDE DEF row
    <3> QED
      BY <1>1, <3>1, <3>2, <3>3, <3>4
  <2>2. CASE ~Connected(s)
    <3>1. tab' = tab
      BY <2>2 DEF Close
    <3>2. \A t \in Tab : tab[t].conn = s => Connected(s)
      BY <1>1, SMT DEF StreamInv, Followed, Follows, Connected, StreamAssumption
    <3> QED
      BY <1>1, <2>2, <3>1, <3>2
  <2> QED
    BY <2>1, <2>2
<1>7. StreamTypeOK'
  BY <1>1, <1>2, <1>5, <1>6 DEF StreamInv, StreamTypeOK, Close
<1>8. OneWriter' /\ Numbered' /\ NoEventSkipped'
  BY <1>6 DEF Close, StreamInv, OneWriter, Numbered, NoEventSkipped
<1>9. Followed'
  <2> SUFFICES ASSUME NEW v \in Stream, NEW t \in Tab, tab'[t].conn = v
               PROVE  Follows(v, t)'
    BY DEF Followed
  <2>1. tab[t].conn = v /\ v # s
    BY <1>6, SMT DEF StreamAssumption, Stream
  <2>2. Follows(v, t) /\ stream'[v] = stream[v]
    BY <1>1, <1>2, <2>1 DEF StreamInv, Followed
  <2>3. tab'[t].got = tab[t].got
    BY <1>6
  <2> QED
    BY <2>2, <2>3 DEF Follows
<1>10. Listing'
  BY <1>1, <1>2, SMT DEF StreamInv, Listing, Close
<1> QED
  BY <1>5, <1>7, <1>8, <1>9, <1>10 DEF StreamInv, SlotsCounted, Held

LEMMA StatusStep ==
  ASSUME StreamAssumption, StreamInv, NEW s \in Stream, ReadStatus(s) PROVE StreamInv'
<1>1. CASE Drained(s) /\ SeesEnd(s)
  BY <1>1, CloseStep DEF ReadStatus
<1>2. CASE ~(Drained(s) /\ SeesEnd(s))
  <2> DEFINE p == IF stream[s].frames = {} THEN "ready" ELSE "sending"
             r == [stream[s] EXCEPT !.pc = p]
  <2>1. stream \in [Stream -> StreamRow] /\ stream[s] \in StreamRow /\ stream[s].pc = "listed"
    BY DEF StreamInv, StreamTypeOK, ReadStatus
  <2>2. r \in StreamRow /\ r.pc = p /\ r.tab = stream[s].tab /\ r.last = stream[s].last
        /\ r.frames = stream[s].frames
    BY <2>1, SMT DEF StreamRow
  <2>3. stream' = [stream EXCEPT ![s] = r]
        /\ UNCHANGED <<hosted, log, ended, tx, session, slots, tab, faults>>
    BY <1>2, <2>1 DEF ReadStatus
  <2> HIDE DEF r
  <2>4. ASSUME NEW t \in Tab, tab[t].conn = s PROVE Follows(s, t)'
    <3>1. Follows(s, t) /\ stream'[s] = r /\ Len(tab[t].got) \in Nat /\ stream[s].last \in Nat
      BY <2>1, <2>3, <2>4 DEF StreamInv, Followed, StreamTypeOK, TabRow, StreamRow
    <3>2. stream[s].frames = {} => stream[s].last = Len(tab[t].got)
      BY <2>1, <3>1, SMT DEF Follows
    <3>3. tab' = tab
      BY <2>3
    <3> QED
      BY <2>1, <2>2, <3>1, <3>2, <3>3 DEF Follows
  <2> QED
    BY <2>1, <2>2, <2>3, <2>4, RowChanged DEF StreamInv, Listing
<1> QED
  BY <1>1, <1>2

\* The frame that is yielded is the event the tab lacks.
LEMMA SendStep ==
  ASSUME StreamAssumption, StreamInv, NEW s \in Stream, Send(s) PROVE StreamInv'
<1> DEFINE t == stream[s].tab
           count == Len(tab[t].got)
           e == Min(stream[s].frames)
           rest == stream[s].frames \ {e}
           p == IF rest = {} THEN "ready" ELSE "sending"
           r1 == [stream[s] EXCEPT !.frames = rest]
           r == [r1 EXCEPT !.pc = p]
           row == [tab[t] EXCEPT !.got = Append(@, e)]
<1>1. stream \in [Stream -> StreamRow] /\ stream[s] \in StreamRow /\ stream[s].pc = "sending"
      /\ tab \in [Tab -> TabRow] /\ t \in Tab /\ tab[t] \in TabRow /\ tab[t].conn = s
  BY DEF StreamInv, StreamTypeOK, StreamRow, Send, Connected
<1>2. Follows(s, t) /\ stream[s].last \in Nat /\ stream[s].frames \in SUBSET Nat
      /\ tab[t].got \in Seq(Nat)
  BY <1>1 DEF StreamInv, Followed, StreamRow, TabRow
<1>3. /\ count \in Nat /\ count + 1 <= stream[s].last
      /\ stream[s].frames = (count + 1)..stream[s].last
  BY <1>1, <1>2, SMT DEF Follows
<1>4. e = count + 1
  <2>1. count + 1 \in stream[s].frames /\ \A x \in stream[s].frames : count + 1 <= x
    BY <1>3, SMT
  <2> HIDE DEF count
  <2> QED
    BY <1>2, <2>1, MinIs
<1>5. rest = (count + 2)..stream[s].last
  <2> HIDE DEF e, count
  <2> QED
    BY <1>3, <1>4, SMT
<1> HIDE DEF e
<1>6. r1 \in StreamRow /\ r1.frames = rest /\ r1.last = stream[s].last /\ r1.tab = t
  BY <1>1, <1>2, SMT DEF StreamRow
<1>7. r \in StreamRow /\ r.pc = p /\ r.frames = rest /\ r.last = stream[s].last /\ r.tab = t
  <2> HIDE DEF r1
  <2> QED
    BY <1>6, SMT DEF StreamRow
<1>8. row \in TabRow /\ row.got = Append(tab[t].got, count + 1) /\ row.conn = s
  <2> DEFINE more == Append(tab[t].got, e)
  <2>1. more \in Seq(Nat)
    BY <1>2, <1>3, <1>4, SMT
  <2> HIDE DEF more
  <2>2. [tab[t] EXCEPT !.got = more] \in TabRow
        /\ [tab[t] EXCEPT !.got = more].got = more
        /\ [tab[t] EXCEPT !.got = more].conn = s
    BY <1>1, <2>1 DEF TabRow
  <2>3. row = [tab[t] EXCEPT !.got = more]
    BY DEF more
  <2> HIDE DEF row
  <2> QED
    BY <1>4, <2>2, <2>3 DEF more
<1>9. stream' = [stream EXCEPT ![s] = r] /\ tab' = [tab EXCEPT ![t] = row]
  BY <1>1 DEF Send, e
<1> HIDE DEF r, row, rest
<1>10. StreamTypeOK'
  <2>1. UNCHANGED <<hosted, log, ended, tx, session, slots, faults>>
    BY DEF Send
  <2>2. stream' \in [Stream -> StreamRow] /\ tab' \in [Tab -> TabRow]
    BY <1>1, <1>7, <1>8, <1>9
  <2> QED
    BY <2>1, <2>2 DEF StreamInv, StreamTypeOK
<1>11. OneWriter' /\ Numbered' /\ Listing'
  BY <1>1, <1>7, <1>9 DEF StreamInv, OneWriter, Numbered, Listing, Send
<1>12. Followed'
  <2> SUFFICES ASSUME NEW u \in Stream, NEW v \in Tab, tab'[v].conn = u PROVE Follows(u, v)'
    BY DEF Followed
  <2>1. CASE v = t
    <3>1. u = s /\ stream'[u] = r /\ Len(tab'[v].got) = count + 1
      BY <1>1, <1>2, <1>8, <1>9, <2>1, SMT
    <3> HIDE DEF count
    <3>2. rest = {} => stream[s].last = count + 1
      <4>1. ASSUME stream[s].last # count + 1 PROVE count + 2 \in rest
        BY <1>2, <1>3, <1>5, <4>1, SMT
      <4> QED
        BY <4>1
    <3>3. rest = (count + 1 + 1)..stream[s].last
      BY <1>3, <1>5, SMT
    <3> QED
      BY <1>3, <1>7, <2>1, <3>1, <3>2, <3>3 DEF Follows
  <2>2. CASE v # t
    <3>1. tab'[v] = tab[v]
      BY <1>1, <1>9, <2>2
    <3>2. Follows(u, v) /\ u # s
      BY <2>2, <3>1 DEF StreamInv, Followed, Follows
    <3>3. stream'[u] = stream[u]
      BY <1>1, <1>9, <3>2
    <3> QED
      BY <3>1, <3>2, <3>3 DEF Follows
  <2> QED
    BY <2>1, <2>2
<1>13. NoEventSkipped'
  <2> SUFFICES ASSUME NEW v \in Tab
               PROVE  /\ \A i \in 1..Len(tab'[v].got) : tab'[v].got[i] = i
                      /\ 1..Len(tab'[v].got) \subseteq log
    BY DEF NoEventSkipped, Send
  <2>1. CASE v = t
    <3>1. tab'[v].got = Append(tab[t].got, count + 1)
      BY <1>1, <1>8, <1>9, <2>1
    <3>2. \A i \in 1..count : tab[t].got[i] = i
      BY <1>1 DEF StreamInv, NoEventSkipped
    <3>3. Len(tab'[v].got) = count + 1
          /\ \A i \in 1..(count + 1) : tab'[v].got[i] = i
      BY <1>2, <3>1, <3>2, SMT
    <3>4. 1..(count + 1) \subseteq log
      BY <1>2, <1>3, SMT DEF StreamInv, Listing
    <3> QED
      BY <3>3, <3>4
  <2>2. CASE v # t
    BY <1>1, <1>9, <2>2 DEF StreamInv, NoEventSkipped
  <2> QED
    BY <2>1, <2>2
<1>14. SlotsCounted'
  <2>1. \A u \in Stream : stream'[u].pc # "free" <=> stream[u].pc # "free"
    BY <1>1, <1>7, <1>9
  <2>2. {u \in Stream : stream'[u].pc # "free"} = {u \in Stream : stream[u].pc # "free"}
    BY <2>1
  <2> QED
    BY <2>2 DEF StreamInv, SlotsCounted, Send
<1> QED
  BY <1>10, <1>11, <1>12, <1>13, <1>14 DEF StreamInv

\* A new generator starts behind the last event its tab received.
LEMMA ConnectStep ==
  ASSUME StreamAssumption, StreamInv, NEW s \in Stream, NEW t \in Tab, Connect(t, s)
  PROVE  StreamInv'
<1> DEFINE r == [NoStream EXCEPT !.pc = "opened", !.tab = t, !.token = session, !.last = LastId(t)]
           row == [tab[t] EXCEPT !.conn = s]
<1>1. stream \in [Stream -> StreamRow] /\ tab \in [Tab -> TabRow] /\ tab[t] \in TabRow
      /\ session \in Nat \cup {None} /\ slots \in Nat /\ stream[s].pc = "free"
  BY DEF StreamInv, StreamTypeOK, Connect
<1>2. tab[t].got \in Seq(Nat)
  BY <1>1 DEF TabRow
<1>3. LastId(t) = Len(tab[t].got) /\ LastId(t) \in Nat
  <2>1. Len(tab[t].got) \in Nat /\ (tab[t].got = <<>> <=> Len(tab[t].got) = 0)
    BY <1>2, SMT
  <2>2. CASE tab[t].got = <<>>
    BY <2>1, <2>2 DEF LastId
  <2>3. CASE tab[t].got # <<>>
    <3>1. Len(tab[t].got) \in 1..Len(tab[t].got)
      BY <2>1, <2>3, SMT
    <3>2. tab[t].got[Len(tab[t].got)] = Len(tab[t].got)
      BY <3>1 DEF StreamInv, NoEventSkipped
    <3> QED
      BY <2>1, <2>3, <3>2 DEF LastId
  <2> QED
    BY <2>2, <2>3
<1>4. NoStream \in StreamRow
  BY DEF NoStream, StreamRow
<1>5. r \in StreamRow /\ r.pc = "opened" /\ r.tab = t /\ r.last = LastId(t)
  <2> DEFINE r1 == [NoStream EXCEPT !.pc = "opened"]
             r2 == [r1 EXCEPT !.tab = t]
             r3 == [r2 EXCEPT !.token = session]
  <2>1. r1 \in StreamRow /\ r1.pc = "opened"
    BY <1>4, SMT DEF StreamRow
  <2> HIDE DEF r1
  <2>2. r2 \in StreamRow /\ r2.pc = "opened" /\ r2.tab = t
    BY <2>1, SMT DEF StreamRow
  <2> HIDE DEF r2
  <2>3. r3 \in StreamRow /\ r3.pc = "opened" /\ r3.tab = t
    BY <1>1, <2>2, SMT DEF StreamRow
  <2> HIDE DEF r3
  <2>4. [r3 EXCEPT !.last = LastId(t)] \in StreamRow
        /\ [r3 EXCEPT !.last = LastId(t)].pc = "opened"
        /\ [r3 EXCEPT !.last = LastId(t)].tab = t
        /\ [r3 EXCEPT !.last = LastId(t)].last = LastId(t)
    BY <1>3, <2>3, SMT DEF StreamRow
  <2>5. r = [r3 EXCEPT !.last = LastId(t)]
    BY DEF r1, r2, r3
  <2> QED
    BY <2>4, <2>5
<1>6. row \in TabRow /\ row.got = tab[t].got /\ row.conn = s
  BY <1>1 DEF TabRow
<1>7. stream' = [stream EXCEPT ![s] = r] /\ tab' = [tab EXCEPT ![t] = row] /\ slots' = slots + 1
      /\ UNCHANGED <<hosted, log, ended, tx, session, faults>>
  BY DEF Connect
<1> HIDE DEF r, row
<1>8. StreamTypeOK'
  <2>1. slots' \in Nat
    BY <1>1, <1>7, SMT
  <2>2. stream' \in [Stream -> StreamRow] /\ tab' \in [Tab -> TabRow]
    BY <1>1, <1>5, <1>6, <1>7
  <2> QED
    BY <1>7, <2>1, <2>2 DEF StreamInv, StreamTypeOK
<1>9. \A v \in Tab : tab'[v].got = tab[v].got
  BY <1>1, <1>6, <1>7
<1>10. OneWriter' /\ Numbered' /\ NoEventSkipped'
  BY <1>7, <1>9 DEF StreamInv, OneWriter, Numbered, NoEventSkipped
<1>11. Listing'
  <2>1. 1..LastId(t) \subseteq log
    BY <1>3 DEF StreamInv, NoEventSkipped
  <2> QED
    BY <1>1, <1>5, <1>7, <2>1 DEF StreamInv, Listing
<1>12. Followed'
  <2> SUFFICES ASSUME NEW u \in Stream, NEW v \in Tab, tab'[v].conn = u PROVE Follows(u, v)'
    BY DEF Followed
  <2>1. CASE v = t
    <3>1. u = s /\ stream'[u] = r
      BY <1>1, <1>6, <1>7, <2>1
    <3>2. tab'[v].got = tab[t].got
      BY <1>9, <2>1
    <3> QED
      BY <1>3, <1>5, <2>1, <3>1, <3>2 DEF Follows
  <2>2. CASE v # t
    <3>1. tab'[v] = tab[v]
      BY <1>1, <1>7, <2>2
    <3>2. Follows(u, v) /\ u # s
      BY <1>1, <3>1 DEF StreamInv, Followed, Follows
    <3>3. stream'[u] = stream[u]
      BY <1>1, <1>7, <3>2
    <3> QED
      BY <3>1, <3>2, <3>3 DEF Follows
  <2> QED
    BY <2>1, <2>2
<1>13. SlotsCounted'
  <2>1. Held' = Held \cup {s} /\ s \notin Held
    BY <1>1, <1>5, <1>7 DEF Held
  <2>2. Cardinality(Held') = Cardinality(Held) + 1
    BY <2>1, HeldFinite, FS_AddElement
  <2> QED
    BY <1>7, <2>2 DEF StreamInv, SlotsCounted, Held
<1> QED
  BY <1>8, <1>10, <1>11, <1>12, <1>13 DEF StreamInv

\* A tab that loses its connection, is loaded anew or is left.
LEMMA TabStep ==
  ASSUME StreamAssumption, StreamInv, NEW t \in Tab, NEW row \in TabRow,
         tab' = [tab EXCEPT ![t] = row], row.conn = None,
         row.got = tab[t].got \/ row.got = <<>>,
         faults' \in 0..MaxFaults,
         UNCHANGED <<hosted, log, ended, tx, session, slots, stream>>
  PROVE  StreamInv'
<1>1. tab \in [Tab -> TabRow]
  BY DEF StreamInv, StreamTypeOK
<1>2. StreamTypeOK' /\ OneWriter' /\ Numbered' /\ Listing' /\ SlotsCounted'
  BY <1>1 DEF StreamInv, StreamTypeOK, OneWriter, Numbered, Listing, SlotsCounted
<1>3. NoEventSkipped'
  <2> SUFFICES ASSUME NEW v \in Tab
               PROVE  /\ \A i \in 1..Len(tab'[v].got) : tab'[v].got[i] = i
                      /\ 1..Len(tab'[v].got) \subseteq log
    BY DEF NoEventSkipped
  <2>1. CASE v = t /\ row.got = <<>>
    <3>1. tab'[v].got = <<>> /\ 1..Len(<< >>) = {}
      BY <1>1, <2>1, SMT
    <3> QED
      BY <3>1
  <2>2. CASE v # t \/ row.got = tab[t].got
    <3>1. tab'[v].got = tab[v].got
      BY <1>1, <2>2
    <3> QED
      BY <3>1 DEF StreamInv, NoEventSkipped
  <2> QED
    BY <2>1, <2>2
<1>4. Followed'
  <2> SUFFICES ASSUME NEW u \in Stream, NEW v \in Tab, tab'[v].conn = u PROVE Follows(u, v)'
    BY DEF Followed
  <2>1. v # t
    BY <1>1, SMT DEF StreamAssumption, Stream
  <2>2. tab'[v] = tab[v]
    BY <1>1, <2>1
  <2>3. Follows(u, v)
    BY <2>2 DEF StreamInv, Followed
  <2> QED
    BY <2>2, <2>3 DEF Follows
<1> QED
  BY <1>2, <1>3, <1>4 DEF StreamInv

LEMMA FaultBound == ASSUME StreamAssumption, StreamTypeOK, Fault PROVE faults' \in 0..MaxFaults
BY SMT DEF StreamAssumption, StreamTypeOK, Fault

LEMMA NewTabRow == NewTab \in TabRow /\ NewTab.conn = None /\ NewTab.got = <<>>
BY DEF NewTab, TabRow

LEMMA DisconnectStep ==
  ASSUME StreamAssumption, StreamInv, NEW t \in Tab, Disconnect(t) PROVE StreamInv'
<1> DEFINE row == [tab[t] EXCEPT !.conn = None]
<1>1. tab[t] \in TabRow
  BY DEF StreamInv, StreamTypeOK
<1>2. row \in TabRow /\ row.conn = None /\ row.got = tab[t].got
  BY <1>1 DEF TabRow
<1>3. tab' = [tab EXCEPT ![t] = row] /\ faults' \in 0..MaxFaults
      /\ UNCHANGED <<hosted, log, ended, tx, session, slots, stream>>
  BY FaultBound DEF Disconnect, StreamInv
<1> HIDE DEF row
<1> QED
  BY <1>2, <1>3, TabStep

LEMMA ReloadStep == ASSUME StreamAssumption, StreamInv, NEW t \in Tab, Reload(t) PROVE StreamInv'
<1>1. tab' = [tab EXCEPT ![t] = NewTab] /\ faults' \in 0..MaxFaults
      /\ UNCHANGED <<hosted, log, ended, tx, session, slots, stream>>
  BY FaultBound DEF Reload, StreamInv
<1> QED
  BY <1>1, NewTabRow, TabStep

LEMMA LeaveStep == ASSUME StreamAssumption, StreamInv, NEW t \in Tab, Leave(t) PROVE StreamInv'
<1> DEFINE row == [NewTab EXCEPT !.open = FALSE]
<1>1. row \in TabRow /\ row.conn = None /\ row.got = <<>>
  BY NewTabRow, Zenon DEF TabRow
<1>2. tab' = [tab EXCEPT ![t] = row] /\ faults' \in 0..MaxFaults
      /\ UNCHANGED <<hosted, log, ended, tx, session, slots, stream>>
  BY DEF Leave, StreamInv, StreamTypeOK
<1> HIDE DEF row
<1> QED
  BY <1>1, <1>2, TabStep

LEMMA SessionStep == ASSUME StreamAssumption, StreamInv, Logout \/ Login PROVE StreamInv'
<1>1. session' \in Nat \cup {None} /\ faults' \in 0..MaxFaults
      /\ UNCHANGED <<hosted, log, ended, tx, slots, stream, tab>>
  BY FaultBound, SMT DEF Logout, Login, StreamInv, StreamTypeOK
<1> QED
  BY <1>1 DEF StreamInv, StreamTypeOK, OneWriter, Numbered, Followed, Follows, Listing,
              NoEventSkipped, SlotsCounted

\* Nothing of the API process survives; the tabs keep what they received.
LEMMA RestartStep == ASSUME StreamAssumption, StreamInv, Restart PROVE StreamInv'
<1>1. NoStream \in StreamRow /\ NoStream.pc = "free" /\ NoStream.last = 0
  BY DEF NoStream, StreamRow
<1>2. tab' \in [Tab -> TabRow]
      /\ \A t \in Tab : tab'[t].got = tab[t].got /\ tab'[t].conn = None
  <2>1. \A t \in Tab : tab[t] \in TabRow
    BY DEF StreamInv, StreamTypeOK
  <2>2. \A t \in Tab : /\ [tab[t] EXCEPT !.conn = None] \in TabRow
                       /\ [tab[t] EXCEPT !.conn = None].got = tab[t].got
                       /\ [tab[t] EXCEPT !.conn = None].conn = None
    BY <2>1 DEF TabRow
  <2> QED
    BY <2>2 DEF Restart
<1>3. stream' = [s \in Stream |-> NoStream] /\ slots' = 0 /\ faults' \in 0..MaxFaults
      /\ UNCHANGED <<hosted, log, ended, tx, session>>
  BY FaultBound DEF Restart, StreamInv
<1>4. StreamTypeOK' /\ OneWriter' /\ Numbered' /\ NoEventSkipped'
  BY <1>1, <1>2, <1>3, SMT
  DEF StreamInv, StreamTypeOK, OneWriter, Numbered, NoEventSkipped
<1>5. Listing' /\ Followed'
  BY <1>1, <1>2, <1>3, SMT DEF Listing, Followed, StreamAssumption, Stream
<1>6. SlotsCounted'
  <2>1. {s \in Stream : stream'[s].pc # "free"} = {}
    BY <1>1, <1>3
  <2> QED
    BY <1>3, <2>1, FS_EmptySet DEF SlotsCounted
<1> QED
  BY <1>4, <1>5, <1>6 DEF StreamInv

-----------------------------------------------------------------------------
(* The theorems.                                                           *)

LEMMA InitInv == ASSUME StreamAssumption, Init PROVE StreamInv
<1>1. NoStream \in StreamRow /\ NoStream.pc = "free" /\ NoStream.last = 0
  BY DEF NoStream, StreamRow
<1>2. NoTx \in TxRow /\ (0 + 1)..0 = {} /\ 1..0 = {}
  BY NoTxRow, SMT
<1>3. StreamTypeOK
  <2>1. tx \in [Writer -> TxRow] /\ stream \in [Stream -> StreamRow] /\ tab \in [Tab -> TabRow]
    BY <1>1, <1>2, NewTabRow DEF Init
  <2>2. 0 \in Nat /\ 0 \in 0..MaxFaults
    BY SMT DEF StreamAssumption
  <2> QED
    BY <2>1, <2>2 DEF Init, StreamTypeOK
<1>4. OneWriter
  BY DEF Init, OneWriter
<1>5. Numbered
  <2>1. log = 1..0 /\ 0 \in Nat
    BY <1>2 DEF Init
  <2>2. \A w \in Writer : tx[w].events = (0 + 1)..0
    BY <1>2, NoTxRow DEF Init
  <2> QED
    BY <2>1, <2>2 DEF Numbered
<1>6. Followed /\ Listing
  BY <1>1, NewTabRow, SMT DEF Init, Followed, Listing, StreamAssumption, Stream
<1>7. NoEventSkipped
  BY NewTabRow, SMT DEF Init, NoEventSkipped
<1>8. SlotsCounted
  <2>1. {s \in Stream : stream[s].pc # "free"} = {}
    BY <1>1 DEF Init
  <2> QED
    BY <2>1, FS_EmptySet DEF SlotsCounted, Init
<1> QED
  BY <1>3, <1>4, <1>5, <1>6, <1>7, <1>8 DEF StreamInv

LEMMA StepInv == ASSUME StreamAssumption, StreamInv, [Next]_vars PROVE StreamInv'
<1>1. CASE \E w \in Writer : AppendEvent(w) \/ EndRun(w) \/ Commit(w) \/ Rollback(w)
  BY <1>1, AppendStep, EndStep, CommitStep, RollbackStep
<1>2. CASE \E s \in Stream : StreamStep(s)
  <2>1. PICK s \in Stream : StreamStep(s)
    BY <1>2
  <2>2. CASE Refuse(s) \/ Cancelled(s)
    BY <2>2, CloseStep DEF Refuse, Cancelled
  <2> QED
    BY <2>1, <2>2, StartStep, NeverStartedStep, CheckStep, ListStep, StatusStep, SendStep DEF StreamStep
<1>3. CASE \E s \in Stream, t \in Tab : Connect(t, s)
  BY <1>3, ConnectStep
<1>4. CASE \E t \in Tab : Disconnect(t) \/ Reload(t) \/ Leave(t)
  BY <1>4, DisconnectStep, ReloadStep, LeaveStep
<1>5. CASE Logout \/ Login
  BY <1>5, SessionStep
<1>6. CASE Restart
  BY <1>6, RestartStep
<1>7. CASE UNCHANGED vars
  <2>1. StreamTypeOK' /\ OneWriter' /\ Numbered'
    BY <1>7 DEF vars, StreamInv, StreamTypeOK, OneWriter, Numbered
  <2>2. Followed' /\ Listing' /\ NoEventSkipped' /\ SlotsCounted'
    BY <1>7 DEF vars, StreamInv, Followed, Follows, Listing, NoEventSkipped, SlotsCounted
  <2> QED
    BY <2>1, <2>2 DEF StreamInv
<1> QED
  BY <1>1, <1>2, <1>3, <1>4, <1>5, <1>6, <1>7 DEF Next

LEMMA SpecInv == Spec => []StreamInv
<1>1. Init => StreamInv
  BY InitInv, StreamAssumption
<1>2. StreamInv /\ [Next]_vars => StreamInv'
  BY StepInv, StreamAssumption
<1> QED
  BY <1>1, <1>2, PTL DEF Spec

(* The variables keep their types: in particular the count of slots, which *)
(* Close decrements, never becomes negative.                               *)
THEOREM StreamTypeCorrect == Spec => []StreamTypeOK
BY SpecInv, PTL DEF StreamInv

(* For any number of writers and tabs and any page, a tab has received the *)
(* first events of its run, in order, with no gap and no repetition.       *)
THEOREM NothingSkipped == Spec => []NoEventSkipped
BY SpecInv, PTL DEF StreamInv

(* The per-identity count of streams is the number of generators alive and *)
(* of those dropped before they were started: every way a started one ends *)
(* gives its slot back, once.                                              *)
THEOREM SlotsExact == Spec => []SlotsCounted
BY SpecInv, PTL DEF StreamInv
=============================================================================
