--------------------------- MODULE RetrievalIndex ---------------------------
(***************************************************************************)
(* The index phase of a run: the fetched pages are cut into passages and   *)
(* these are embedded, as far as the token allowances go.                  *)
(*                                                                         *)
(* The phase is one transaction of the executor.  It is run again when the *)
(* run is resumed or retried, with more pages, other settings and less to  *)
(* spend, over what the former executions left.  An exception at a page    *)
(* keeps what was embedded of it; a crash keeps nothing.  A second         *)
(* executor of the run violates a unique key and ends like a crash.        *)
(***************************************************************************)
EXTENDS Naturals, Sequences, FiniteSets, SequencesExt

CONSTANTS
  Snapshot,       \* pages that can be fetched
  Short,          \* those with less than 40 characters of text
  Passage,
  Passages,       \* chunk_snapshot_text: the passages of a page, in order
  Cost,           \* estimate_tokens of a passage
  EmbeddingSpec,  \* the keys of embedding providers, models and dimensions
  MaxIndexTokens, \* what the mode allows a run to spend on embeddings
  NoIndex         \* no value

ASSUME IndexAssumption ==
  /\ Short \subseteq Snapshot
  /\ Passages \in [Snapshot -> Seq(Passage)]
  /\ \A s, t \in Snapshot : s # t => ToSet(Passages[s]) \cap ToSet(Passages[t]) = {}
  /\ \A s \in Snapshot : IsInjective(Passages[s])
  /\ Cost \in [Passage -> Nat]
  /\ MaxIndexTokens \in Nat
  /\ NoIndex \notin EmbeddingSpec

VARIABLES
  spec,      \* the embedding spec that is configured
  fetched,   \* snapshots of the run
  db,        \* what is committed about them
  tx,        \* what the open transaction of the index phase sees
  todo,      \* snapshots the phase has still to index
  remaining  \* tokens it may still spend

indexVars == <<spec, fetched, db, tx, todo, remaining>>

IndexingStatus == {"pending", "indexed", "partially_indexed", "skipped", "failed"}

\* Status and spec of the snapshots, those that have chunks, the embeddings, and
\* the tokens that the usage records of the phase add up to.
Index == [status : [Snapshot -> IndexingStatus],
          key : [Snapshot -> EmbeddingSpec \cup {NoIndex}],
          chunked : SUBSET Snapshot,
          embedded : SUBSET (Passage \X EmbeddingSpec),
          recorded : Nat]

IndexInit ==
  /\ spec \in EmbeddingSpec
  /\ fetched = {}
  /\ db = [status |-> [s \in Snapshot |-> "pending"], key |-> [s \in Snapshot |-> NoIndex],
           chunked |-> {}, embedded |-> {}, recorded |-> 0]
  /\ tx = NoIndex
  /\ todo = {}
  /\ remaining = 0

-----------------------------------------------------------------------------

Fetch(s) ==
  /\ tx = NoIndex
  /\ s \notin fetched
  /\ fetched' = fetched \cup {s}
  /\ UNCHANGED <<spec, db, tx, todo, remaining>>

\* The process is started again with other settings.
Reconfigure(k) ==
  /\ tx = NoIndex
  /\ k # spec
  /\ spec' = k
  /\ UNCHANGED <<fetched, db, tx, todo, remaining>>

\* The allowance of the mode is cumulative; that of the run's budget may be any.
BeginIndex ==
  /\ tx = NoIndex
  /\ tx' = db
  /\ todo' = fetched
  /\ \E left \in 0 .. MaxIndexTokens :
       LET unspent == IF db.recorded < MaxIndexTokens THEN MaxIndexTokens - db.recorded ELSE 0
       IN  remaining' = IF left < unspent THEN left ELSE unspent
  /\ UNCHANGED <<spec, fetched, db>>

\* Mutant of Pending: an embedding of any spec will do.
PendingOfAnySpec(s) ==
  {x \in ToSet(Passages[s]) : \A k \in EmbeddingSpec : <<x, k>> \notin tx.embedded}

\* The passages of a snapshot that have no embedding of the spec.
Pending(s) == {x \in ToSet(Passages[s]) : <<x, spec>> \notin tx.embedded}

\* The tokens planned after each number of passages: one that is too dear for what
\* is left is passed over, and a later one that is not is taken.
Spent(s) ==
  LET page == Passages[s]
      spent[i \in 0 .. Len(page)] ==
        IF i = 0 THEN 0
        ELSE IF page[i] \in Pending(s) /\ spent[i - 1] + Cost[page[i]] <= remaining
             THEN spent[i - 1] + Cost[page[i]]
             ELSE spent[i - 1]
  IN spent

\* The places of the passages that are to be embedded.
Planned(s) ==
  {i \in DOMAIN Passages[s] :
     Passages[s][i] \in Pending(s) /\ Spent(s)[i - 1] + Cost[Passages[s][i]] <= remaining}

At(s, places) == {Passages[s][i] : i \in places}

\* The snapshot is cut into passages; some are embedded, and this is noted.
Written(s, status, k, passages, tokens) ==
  [status |-> [tx.status EXCEPT ![s] = status],
   key |-> [tx.key EXCEPT ![s] = k],
   chunked |-> tx.chunked \cup {s},
   embedded |-> tx.embedded \cup {<<x, spec>> : x \in passages},
   recorded |-> tx.recorded + tokens]

\* Nothing to do, or too little to be worth it.
PassOver(s) ==
  /\ tx # NoIndex
  /\ s \in todo
  /\ \/ /\ tx.status[s] = "indexed" /\ tx.key[s] = spec
        /\ tx' = tx
     \/ /\ ~(tx.status[s] = "indexed" /\ tx.key[s] = spec)
        /\ s \in Short
        /\ tx' = [status |-> [tx.status EXCEPT ![s] = "skipped"], key |-> tx.key,
                  chunked |-> tx.chunked, embedded |-> tx.embedded, recorded |-> tx.recorded]
  /\ todo' = todo \ {s}
  /\ UNCHANGED <<spec, fetched, db, remaining>>

ToIndex(s) ==
  /\ tx # NoIndex
  /\ s \in todo \ Short
  /\ ~(tx.status[s] = "indexed" /\ tx.key[s] = spec)

\* All that can be paid for is embedded and its tokens are recorded.
IndexOne(s) ==
  /\ ToIndex(s)
  /\ LET passages == At(s, Planned(s))
         cost == Spent(s)[Len(Passages[s])]
         status == IF passages = Pending(s) THEN "indexed" ELSE "partially_indexed"
     IN /\ tx' = Written(s, status, spec, passages, cost)
        /\ remaining' = remaining - cost
  /\ todo' = todo \ {s}
  /\ UNCHANGED <<spec, fetched, db>>

\* The provider raises, or answers with vectors that do not fit, at one of the
\* passages: those before it stay, and nothing is recorded or taken off.
FailOne(s) ==
  /\ ToIndex(s)
  /\ \E n \in Planned(s) :
       tx' = Written(s, "failed", tx.key[s], At(s, {i \in Planned(s) : i < n}), 0)
  /\ todo' = todo \ {s}
  /\ UNCHANGED <<spec, fetched, db, remaining>>

EndIndex ==
  /\ tx # NoIndex
  /\ todo = {}
  /\ db' = tx
  /\ tx' = NoIndex
  /\ UNCHANGED <<spec, fetched, todo, remaining>>

\* The executor dies and its transaction with it.
CrashIndex ==
  /\ tx # NoIndex
  /\ tx' = NoIndex
  /\ todo' = {}
  /\ UNCHANGED <<spec, fetched, db, remaining>>

IndexNext ==
  \/ \E s \in Snapshot : Fetch(s) \/ PassOver(s) \/ IndexOne(s) \/ FailOne(s)
  \/ \E k \in EmbeddingSpec : Reconfigure(k)
  \/ BeginIndex
  \/ EndIndex
  \/ CrashIndex

IndexSpec == IndexInit /\ [][IndexNext]_indexVars

-----------------------------------------------------------------------------

IndexTypeOK ==
  /\ spec \in EmbeddingSpec
  /\ fetched \subseteq Snapshot /\ todo \subseteq fetched
  /\ db \in Index
  /\ tx \in Index \cup {NoIndex}
  /\ tx = NoIndex => todo = {}
  /\ remaining \in Nat

\* A page that passes for indexed has chunks, and each of its passages can be
\* found under the spec of the page.
Complete(ix) ==
  \A s \in Snapshot : ix.status[s] = "indexed" =>
    /\ s \in ix.chunked
    /\ \A x \in ToSet(Passages[s]) : <<x, ix.key[s]>> \in ix.embedded

\* A page that passes for indexed, and is not looked at again, is complete,
\* whatever failed at it, was cut short or was embedded under other settings
\* before.  And what the executions of the phase record together stays within
\* the mode's allowance.
IndexSound == Complete(db) /\ db.recorded <= MaxIndexTokens
=============================================================================
