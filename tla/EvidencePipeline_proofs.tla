---------------------- MODULE EvidencePipeline_proofs ----------------------
(***************************************************************************)
(* Proofs about the evidence of a run, for any sources, statements, pages, *)
(* contradictions and limits.                                              *)
(***************************************************************************)
EXTENDS EvidencePipeline, FiniteSetTheorems, SequenceTheorems, WellFoundedInduction,
        TLAPS

-----------------------------------------------------------------------------
(* Rows that are added to a table.                                         *)

\* The elements of a finite set in some order, each of them once.
LEMMA SetToSeqIs ==
  ASSUME NEW S, IsFiniteSet(S)
  PROVE  SetToSeq(S) \in Seq(S) /\ IsInjective(SetToSeq(S))
<1> DEFINE n == Cardinality(S)
<1>1. n \in Nat /\ ExistsBijection(1..n, S)
  BY FS_CardinalityType
<1>2. \E f \in [1..n -> S] : IsInjective(f)
  BY <1>1 DEF ExistsBijection, Bijection, Injection, IsInjective
<1>3. SetToSeq(S) \in [1..n -> S] /\ IsInjective(SetToSeq(S))
  BY <1>2, Zenon DEF SetToSeq
<1> HIDE DEF n
<1>4. SetToSeq(S) \in Seq(S)
  BY <1>1, <1>3, SeqDef
<1> QED
  BY <1>3, <1>4

\* New rows after rows that differ from them.
LEMMA AppendedInjective ==
  ASSUME NEW S, NEW s \in Seq(S), NEW t \in Seq(S), IsInjective(s), IsInjective(t),
         \A i \in DOMAIN s : \A j \in DOMAIN t : s[i] # t[j]
  PROVE  IsInjective(s \o t) /\ s \o t \in Seq(S)
<1>1. /\ s \o t \in Seq(S) /\ Len(s) \in Nat /\ Len(t) \in Nat
      /\ DOMAIN s = 1..Len(s) /\ DOMAIN t = 1..Len(t)
      /\ DOMAIN (s \o t) = 1..(Len(s) + Len(t))
  BY ConcatProperties, LenProperties
<1>2. \A i \in 1..(Len(s) + Len(t)) :
        (s \o t)[i] = IF i <= Len(s) THEN s[i] ELSE t[i - Len(s)]
  BY ConcatProperties
<1>3. ASSUME NEW i \in 1..(Len(s) + Len(t)), NEW j \in 1..(Len(s) + Len(t)),
             (s \o t)[i] = (s \o t)[j]
      PROVE  i = j
  <2>1. CASE i <= Len(s) /\ j <= Len(s)
    <3>1. s[i] = s[j] /\ i \in DOMAIN s /\ j \in DOMAIN s
      BY <1>1, <1>2, <1>3, <2>1
    <3> QED BY <3>1 DEF IsInjective
  <2>2. CASE i > Len(s) /\ j > Len(s)
    <3>1. t[i - Len(s)] = t[j - Len(s)] /\ i - Len(s) \in DOMAIN t /\ j - Len(s) \in DOMAIN t
      BY <1>1, <1>2, <1>3, <2>2
    <3>2. i - Len(s) = j - Len(s)
      BY <3>1 DEF IsInjective
    <3> QED BY <1>1, <3>2
  <2>3. CASE i <= Len(s) /\ j > Len(s)
    <3>1. s[i] = t[j - Len(s)] /\ i \in DOMAIN s /\ j - Len(s) \in DOMAIN t
      BY <1>1, <1>2, <1>3, <2>3
    <3> QED BY <3>1
  <2>4. CASE i > Len(s) /\ j <= Len(s)
    <3>1. s[j] = t[i - Len(s)] /\ j \in DOMAIN s /\ i - Len(s) \in DOMAIN t
      BY <1>1, <1>2, <1>3, <2>4
    <3> QED BY <3>1
  <2> QED BY <1>1, <2>1, <2>2, <2>3, <2>4
<1> QED
  BY <1>1, <1>3 DEF IsInjective

\* What identifies each claim.
KeysOf(rows) == [c \in DOMAIN rows |-> <<rows[c].source, rows[c].statement>>]

LEMMA KeysIs ==
  ASSUME NEW rows \in Seq(ClaimRow)
  PROVE  /\ KeysOf(rows) \in Seq(Source \X Statement) /\ Len(KeysOf(rows)) = Len(rows)
         /\ DOMAIN KeysOf(rows) = DOMAIN rows
         /\ \A c \in DOMAIN rows : KeysOf(rows)[c] = <<rows[c].source, rows[c].statement>>
<1>1. Len(rows) \in Nat /\ DOMAIN rows = 1..Len(rows)
  BY LenProperties
<1>2. \A c \in DOMAIN rows : rows[c].source \in Source /\ rows[c].statement \in Statement
  <2>1. \A c \in DOMAIN rows : rows[c] \in ClaimRow
    BY <1>1, ElementOfSeq
  <2> QED BY <2>1 DEF ClaimRow
<1>3. KeysOf(rows) \in [1..Len(rows) -> Source \X Statement]
  BY <1>1, <1>2 DEF KeysOf
<1>4. KeysOf(rows) \in Seq(Source \X Statement)
  BY <1>1, <1>3, SeqDef
<1>5. Len(KeysOf(rows)) = Len(rows)
  BY <1>1, <1>3, <1>4, LenProperties
<1> QED
  BY <1>4, <1>5 DEF KeysOf

LEMMA KeysUnique ==
  ASSUME NEW rows \in Seq(ClaimRow)
  PROVE  IsInjective(KeysOf(rows)) <=>
           \A c, d \in DOMAIN rows :
             rows[c].source = rows[d].source /\ rows[c].statement = rows[d].statement => c = d
<1>1. /\ DOMAIN KeysOf(rows) = DOMAIN rows
      /\ \A c \in DOMAIN rows : KeysOf(rows)[c] = <<rows[c].source, rows[c].statement>>
  BY KeysIs
<1> QED
  BY <1>1 DEF IsInjective

\* The claims an extraction leaves: those there were, and new keys.
LEMMA WithClaimsIs ==
  ASSUME claims \in Seq(ClaimRow), IsInjective(KeysOf(claims)),
         NEW selected \in SUBSET (Source \X Statement)
  PROVE  /\ WithClaims(selected) \in Seq(ClaimRow)
         /\ IsInjective(KeysOf(WithClaims(selected)))
         /\ DOMAIN claims \subseteq DOMAIN WithClaims(selected)
         /\ \A c \in DOMAIN WithClaims(selected) :
              IF c \in DOMAIN claims THEN WithClaims(selected)[c] = claims[c]
              ELSE WithClaims(selected)[c].status = "pending"
<1> DEFINE unknown == {f \in selected : ~ClaimKnown(f)}
           fresh == SetToSeq(unknown)
           added == [i \in DOMAIN fresh |->
                       [source |-> fresh[i][1], statement |-> fresh[i][2], status |-> "pending"]]
           rows == claims \o added
<1>1. WithClaims(selected) = rows
  BY DEF WithClaims
<1>2. IsFiniteSet(unknown)
  <2>1. IsFiniteSet(Source \X Statement)
    BY PipelineAssumption, FS_Product
  <2>2. unknown \subseteq Source \X Statement
    OBVIOUS
  <2> HIDE DEF unknown
  <2> QED BY <2>1, <2>2, FS_Subset
<1>3. fresh \in Seq(unknown) /\ IsInjective(fresh)
  BY <1>2, SetToSeqIs
<1>4. \A f \in unknown : f \in Source \X Statement /\ ~ClaimKnown(f)
  OBVIOUS
<1> HIDE DEF fresh, unknown
<1>5. /\ Len(fresh) \in Nat /\ DOMAIN fresh = 1..Len(fresh)
      /\ \A i \in DOMAIN fresh : fresh[i] \in unknown
  BY <1>3, LenProperties, ElementOfSeq
<1>6. /\ \A i \in DOMAIN fresh : fresh[i][1] \in Source /\ fresh[i][2] \in Statement
      /\ \A i \in DOMAIN fresh : fresh[i] = <<fresh[i][1], fresh[i][2]>>
  BY <1>4, <1>5
<1>7. added \in Seq(ClaimRow) /\ Len(added) = Len(fresh)
  <2>1. added \in [1..Len(fresh) -> ClaimRow]
    BY <1>5, <1>6 DEF ClaimRow
  <2> HIDE DEF added
  <2>2. added \in Seq(ClaimRow)
    BY <1>5, <2>1, SeqDef
  <2> QED BY <1>5, <2>1, <2>2, LenProperties
<1>8. \A i \in DOMAIN fresh : <<added[i].source, added[i].statement>> = fresh[i]
  BY <1>6
<1>9. DOMAIN added = DOMAIN fresh /\ \A i \in DOMAIN added : added[i].status = "pending"
  OBVIOUS
<1> HIDE DEF added
<1>10. /\ rows \in Seq(ClaimRow) /\ Len(rows) = Len(claims) + Len(added)
       /\ \A i \in 1..(Len(claims) + Len(added)) :
            rows[i] = IF i <= Len(claims) THEN claims[i] ELSE added[i - Len(claims)]
  BY <1>7, ConcatProperties
<1> HIDE DEF rows
<1>11. /\ Len(claims) \in Nat /\ DOMAIN claims = 1..Len(claims)
       /\ DOMAIN rows = 1..(Len(claims) + Len(added))
  BY <1>10, LenProperties
<1>12. DOMAIN claims \subseteq DOMAIN rows
  BY <1>5, <1>7, <1>11
<1>13. /\ KeysOf(claims) \in Seq(Source \X Statement) /\ fresh \in Seq(Source \X Statement)
       /\ Len(KeysOf(claims)) = Len(claims) /\ DOMAIN KeysOf(claims) = DOMAIN claims
  <2>1. fresh \in Seq(Source \X Statement)
    BY <1>3, <1>4, SeqMonotonic
  <2> QED BY <2>1, KeysIs
<1>14. \A i \in DOMAIN KeysOf(claims) : \A j \in DOMAIN fresh : KeysOf(claims)[i] # fresh[j]
  BY <1>4, <1>5, KeysIs DEF ClaimKnown
<1>15. IsInjective(KeysOf(claims) \o fresh)
  BY <1>3, <1>13, <1>14, AppendedInjective
<1>16. KeysOf(rows) = KeysOf(claims) \o fresh
  <2>1. /\ KeysOf(claims) \o fresh \in Seq(Source \X Statement)
        /\ Len(KeysOf(claims) \o fresh) = Len(claims) + Len(fresh)
        /\ \A i \in 1..(Len(claims) + Len(fresh)) :
             (KeysOf(claims) \o fresh)[i] =
               IF i <= Len(claims) THEN KeysOf(claims)[i] ELSE fresh[i - Len(claims)]
    <3> DEFINE keys == KeysOf(claims)
    <3>1. keys \in Seq(Source \X Statement) /\ Len(keys) = Len(claims)
      BY <1>13
    <3> HIDE DEF keys
    <3>2. /\ keys \o fresh \in Seq(Source \X Statement)
          /\ Len(keys \o fresh) = Len(keys) + Len(fresh)
          /\ \A i \in 1..(Len(keys) + Len(fresh)) :
               (keys \o fresh)[i] = IF i <= Len(keys) THEN keys[i] ELSE fresh[i - Len(keys)]
      BY <1>13, <3>1, ConcatProperties, Zenon
    <3>3. \A i \in 1..(Len(claims) + Len(fresh)) :
            (keys \o fresh)[i] = IF i <= Len(claims) THEN keys[i] ELSE fresh[i - Len(claims)]
      BY <3>1, <3>2, Zenon
    <3>4. Len(keys \o fresh) = Len(claims) + Len(fresh)
      BY <3>1, <3>2
    <3> QED BY <3>2, <3>3, <3>4 DEF keys
  <2>2. /\ KeysOf(rows) \in Seq(Source \X Statement)
        /\ Len(KeysOf(rows)) = Len(claims) + Len(fresh)
    BY <1>7, <1>10, KeysIs
  <2>3. ASSUME NEW i \in 1..(Len(claims) + Len(fresh))
        PROVE  KeysOf(rows)[i] = (KeysOf(claims) \o fresh)[i]
    <3>1. KeysOf(rows)[i] = <<rows[i].source, rows[i].statement>>
      BY <1>7, <1>10, <1>11, KeysIs
    <3>2. CASE i <= Len(claims)
      <4>1. i \in DOMAIN claims /\ rows[i] = claims[i]
        BY <1>7, <1>10, <1>11, <3>2
      <4>2. KeysOf(claims)[i] = <<claims[i].source, claims[i].statement>>
        BY <4>1, KeysIs
      <4> QED BY <2>1, <3>1, <3>2, <4>1, <4>2
    <3>3. CASE i > Len(claims)
      <4>1. i - Len(claims) \in DOMAIN fresh /\ rows[i] = added[i - Len(claims)]
        BY <1>5, <1>7, <1>10, <1>11, <3>3
      <4> QED BY <1>8, <1>11, <2>1, <3>1, <3>3, <4>1
    <3>4. i <= Len(claims) \/ i > Len(claims)
      BY <1>5, <1>11, SMT
    <3> QED BY <3>2, <3>3, <3>4, Zenon
  <2> QED BY <2>1, <2>2, <2>3, SeqEqual
<1>17. ASSUME NEW c \in DOMAIN rows
       PROVE  IF c \in DOMAIN claims THEN rows[c] = claims[c] ELSE rows[c].status = "pending"
  <2>1. c \in DOMAIN claims <=> c <= Len(claims)
    BY <1>5, <1>7, <1>11, <1>17
  <2>2. CASE c <= Len(claims)
    BY <1>10, <1>11, <1>17, <2>1, <2>2
  <2>3. CASE ~(c <= Len(claims))
    <3>1. c - Len(claims) \in DOMAIN added
      BY <1>5, <1>7, <1>9, <1>11, <1>17, <2>3
    <3> QED BY <1>9, <1>10, <1>11, <1>17, <2>1, <2>3, <3>1
  <2> QED BY <2>2, <2>3
<1> QED
  BY <1>1, <1>10, <1>12, <1>15, <1>16, <1>17

\* The evidence an extraction leaves: no claim that has some is given more.
LEMMA EvidenceAppended ==
  ASSUME evidence \in Seq(EvidenceRow), IsInjective(evidence),
         NEW rows \in Seq(ClaimRow), NEW selected
  PROVE  LET lacking == SetToSeq(Lacking(rows, selected))
             more == evidence \o [i \in DOMAIN lacking |->
                       [claim |-> lacking[i], source |-> rows[lacking[i]].source]]
         IN  /\ more \in Seq(EvidenceRow) /\ IsInjective(more)
             /\ \A i \in DOMAIN evidence : i \in DOMAIN more /\ more[i] = evidence[i]
<1> DEFINE wanted == Lacking(rows, selected)
           lacking == SetToSeq(wanted)
           added == [i \in DOMAIN lacking |->
                       [claim |-> lacking[i], source |-> rows[lacking[i]].source]]
<1>1. DOMAIN rows = 1..Len(rows) /\ Len(rows) \in Nat /\ DOMAIN evidence = 1..Len(evidence)
  BY LenProperties
<1>2. \A c \in wanted : c \in DOMAIN rows /\ EvidenceOf(c) = {}
  BY DEF Lacking
<1>3. IsFiniteSet(wanted)
  <2>1. IsFiniteSet(DOMAIN rows)
    BY <1>1, FS_Interval
  <2>2. wanted \subseteq DOMAIN rows
    BY <1>2
  <2> QED BY <2>1, <2>2, FS_Subset
<1>4. lacking \in Seq(wanted) /\ IsInjective(lacking)
  BY <1>3, SetToSeqIs
<1> HIDE DEF lacking, wanted
<1>5. /\ Len(lacking) \in Nat /\ DOMAIN lacking = 1..Len(lacking)
      /\ \A i \in DOMAIN lacking : lacking[i] \in wanted
  BY <1>4, LenProperties, ElementOfSeq
<1>6. \A i \in DOMAIN lacking : lacking[i] \in Nat /\ rows[lacking[i]].source \in Source
  <2>1. ASSUME NEW i \in DOMAIN lacking
        PROVE  lacking[i] \in Nat /\ rows[lacking[i]] \in ClaimRow
    BY <1>1, <1>2, <1>5, ElementOfSeq
  <2> QED BY <2>1 DEF ClaimRow
<1>7. added \in Seq(EvidenceRow)
  <2>1. added \in [1..Len(lacking) -> EvidenceRow]
    BY <1>5, <1>6 DEF EvidenceRow
  <2> QED BY <1>5, <2>1, SeqDef
<1>8. DOMAIN added = DOMAIN lacking /\ \A i \in DOMAIN added : added[i].claim = lacking[i]
  OBVIOUS
<1> HIDE DEF added
<1>9. IsInjective(added)
  BY <1>4, <1>8 DEF IsInjective
<1>10. \A i \in DOMAIN evidence : \A j \in DOMAIN added : evidence[i] # added[j]
  BY <1>2, <1>5, <1>8 DEF EvidenceOf
<1>11. evidence \o added \in Seq(EvidenceRow) /\ IsInjective(evidence \o added)
  BY <1>7, <1>9, <1>10, AppendedInjective
<1>12. /\ Len(added) \in Nat
       /\ DOMAIN (evidence \o added) = 1..(Len(evidence) + Len(added))
       /\ \A i \in 1..(Len(evidence) + Len(added)) :
            (evidence \o added)[i] = IF i <= Len(evidence) THEN evidence[i]
                                     ELSE added[i - Len(evidence)]
  BY <1>7, ConcatProperties, LenProperties
<1>13. ASSUME NEW i \in DOMAIN evidence
       PROVE  i \in DOMAIN (evidence \o added) /\ (evidence \o added)[i] = evidence[i]
  <2>1. Len(evidence) \in Nat /\ i \in 1..Len(evidence)
    BY <1>1, <1>13, LenProperties
  <2>2. i \in 1..(Len(evidence) + Len(added)) /\ i <= Len(evidence)
    BY <1>12, <2>1, SMT
  <2> QED BY <1>12, <2>2
<1> QED
  BY <1>11, <1>13 DEF added, lacking, wanted

-----------------------------------------------------------------------------
(* The invariant.                                                          *)

\* What a claim's status tells at any time: verification let it pass, with its
\* evidence, when its source was not excluded.  Evidence is never taken away, and
\* what is not verified again keeps its status and that history together.
VerifiedBacked == \A c \in DOMAIN claims : Usable(c) => c \in Backed /\ c \notin barred

\* The report and the verdict are there when the final critic's gate is reached,
\* and an execution that has ended the run is over.
ReportReady ==
  /\ pc = "review" => draft.report # None /\ draft.verdict # "none"
  /\ pc = "finish" => report # None /\ verdict # "none"
  /\ status # "running" => pc = "idle"

PipelineInv ==
  /\ PipelineTypeOK /\ NoDuplicateRecords
  /\ VerifiedBacked /\ ReportReady /\ CompletedIsDelivered

LEMMA UniqueIs ==
  ASSUME PipelineTypeOK
  PROVE  NoDuplicateRecords <=>
           /\ IsInjective(KeysOf(claims)) /\ IsInjective(evidence)
           /\ IsInjective(contradictions) /\ IsInjective(wiki)
BY KeysUnique DEF PipelineTypeOK, NoDuplicateRecords, IsInjective

LEMMA SameClaims ==
  ASSUME PipelineInv, UNCHANGED <<facts, barred>>
  PROVE  VerifiedBacked'
BY DEF PipelineInv, VerifiedBacked, Backed, EvidenceOf, Usable, facts

LEMMA ExtractKeeps ==
  ASSUME PipelineInv, NEW selected \in SUBSET (Source \X Statement),
         NEW bare \in SUBSET selected, Extract(selected, bare)
  PROVE  PipelineInv'
<1> DEFINE rows == WithClaims(selected)
<1>1. /\ claims' = rows /\ pc' = "verify" /\ pc = "extract" /\ status = "running"
      /\ UNCHANGED <<run, pages, user, conclusions, output, draft, rounds, barred>>
  BY DEF Extract, At
<1>2. /\ PipelineTypeOK /\ IsInjective(KeysOf(claims)) /\ IsInjective(evidence)
      /\ IsInjective(contradictions) /\ IsInjective(wiki)
  BY UniqueIs DEF PipelineInv
<1>3. /\ rows \in Seq(ClaimRow) /\ IsInjective(KeysOf(rows))
      /\ DOMAIN claims \subseteq DOMAIN rows
  BY <1>2, WithClaimsIs DEF PipelineTypeOK
<1>4. /\ evidence' \in Seq(EvidenceRow) /\ IsInjective(evidence')
      /\ \A i \in DOMAIN evidence : i \in DOMAIN evidence' /\ evidence'[i] = evidence[i]
  <2> DEFINE covered == selected \ bare
             lacking == SetToSeq(Lacking(rows, covered))
             more == evidence \o [i \in DOMAIN lacking |->
                       [claim |-> lacking[i], source |-> rows[lacking[i]].source]]
  <2>1. evidence' = more
    BY DEF Extract
  <2>2. evidence \in Seq(EvidenceRow) /\ IsInjective(evidence) /\ rows \in Seq(ClaimRow)
    BY <1>2, <1>3 DEF PipelineTypeOK
  <2> HIDE DEF rows, covered
  <2>3. /\ more \in Seq(EvidenceRow) /\ IsInjective(more)
        /\ \A i \in DOMAIN evidence : i \in DOMAIN more /\ more[i] = evidence[i]
    BY <2>2, EvidenceAppended, Zenon
  <2> QED BY <2>1, <2>3
<1>9. \A c \in DOMAIN rows :
        IF c \in DOMAIN claims THEN rows[c] = claims[c] ELSE rows[c].status = "pending"
  BY <1>2, WithClaimsIs DEF PipelineTypeOK
<1> HIDE DEF rows
<1>5. PipelineTypeOK'
  BY <1>1, <1>2, <1>3, <1>4
  DEF PipelineTypeOK, run, pages, user, conclusions, output, Phase
<1>6. NoDuplicateRecords'
  <2>1. IsInjective(KeysOf(claims')) /\ UNCHANGED <<contradictions, wiki>>
    BY <1>1, <1>3 DEF conclusions, output
  <2>2. NoDuplicateRecords' <=>
          /\ IsInjective(KeysOf(claims')) /\ IsInjective(evidence')
          /\ IsInjective(contradictions') /\ IsInjective(wiki')
    BY <1>5, KeysUnique DEF PipelineTypeOK, NoDuplicateRecords, IsInjective
  <2> QED BY <1>2, <1>4, <2>1, <2>2
<1>7. VerifiedBacked'
  <2>1. ASSUME NEW c \in DOMAIN claims', Usable(c)' PROVE c \in Backed' /\ c \notin barred'
    <3>1. c \in DOMAIN claims /\ claims'[c] = claims[c]
      BY <1>1, <1>9, <2>1 DEF Usable
    <3>2. c \in Backed /\ c \notin barred
      BY <2>1, <3>1 DEF PipelineInv, VerifiedBacked, Usable
    <3>3. PICK i \in DOMAIN evidence : evidence[i].claim = c
      BY <3>2 DEF Backed, EvidenceOf
    <3>4. i \in DOMAIN evidence' /\ evidence'[i].claim = c
      BY <1>4, <3>3
    <3> QED BY <1>1, <2>1, <3>2, <3>4 DEF Backed, EvidenceOf
  <2> QED BY <2>1 DEF VerifiedBacked
<1>8. ReportReady' /\ CompletedIsDelivered'
  BY <1>1 DEF ReportReady, CompletedIsDelivered, run
<1> QED
  BY <1>5, <1>6, <1>7, <1>8 DEF PipelineInv

\* Claims that pass have evidence and a source that is admissible.
LEMMA CheckedBacked ==
  ASSUME NEW c \in DOMAIN claims, Checked(c) \in {"partial", "verified"}
  PROVE  c \in Backed /\ claims[c].source \notin excluded
BY DEF Checked, Backed, Admissible

\* Verification changes nothing of a claim but its status, and what it does not
\* come to stays as it was.
LEMMA VerifyClaimsKeeps ==
  ASSUME PipelineInv, NEW some \in SUBSET (DOMAIN claims), VerifyClaims(some),
         UNCHANGED <<evidence, contradictions, wiki>>
  PROVE  /\ claims' \in Seq(ClaimRow) /\ DOMAIN claims' = DOMAIN claims
         /\ barred' \subseteq DOMAIN claims'
         /\ NoDuplicateRecords' /\ VerifiedBacked'
<1>1. claims \in Seq(ClaimRow) /\ barred \subseteq DOMAIN claims
  BY DEF PipelineInv, PipelineTypeOK
<1>2. Len(claims) \in Nat /\ DOMAIN claims = 1..Len(claims)
  BY <1>1, LenProperties
<1>3. ASSUME NEW c \in DOMAIN claims
      PROVE  /\ claims[c] \in ClaimRow
             /\ [claims[c] EXCEPT !.status = Checked(c)] \in ClaimRow
             /\ [claims[c] EXCEPT !.status = Checked(c)].source = claims[c].source
             /\ [claims[c] EXCEPT !.status = Checked(c)].statement = claims[c].statement
             /\ [claims[c] EXCEPT !.status = Checked(c)].status = Checked(c)
  <2>1. claims[c] \in ClaimRow
    BY <1>1, <1>2, ElementOfSeq
  <2>2. Checked(c) \in {"insufficient", "partial", "verified"}
    BY DEF Checked
  <2> QED BY <2>1, <2>2 DEF ClaimRow
<1>4. /\ claims' = [c \in DOMAIN claims |->
                      IF c \in some THEN [claims[c] EXCEPT !.status = Checked(c)]
                      ELSE claims[c]]
      /\ barred' = (barred \ some) \cup {c \in some : claims[c].source \in excluded}
  BY DEF VerifyClaims
<1>5. /\ claims' \in [1..Len(claims) -> ClaimRow] /\ DOMAIN claims' = DOMAIN claims
      /\ \A c \in DOMAIN claims :
           /\ claims'[c].source = claims[c].source
           /\ claims'[c].statement = claims[c].statement
           /\ claims'[c].status = IF c \in some THEN Checked(c) ELSE claims[c].status
  BY <1>2, <1>3, <1>4
<1>6. claims' \in Seq(ClaimRow)
  BY <1>2, <1>5, SeqDef
<1>7. barred' \subseteq DOMAIN claims'
  BY <1>1, <1>4, <1>5
<1>8. NoDuplicateRecords'
  BY <1>5 DEF PipelineInv, NoDuplicateRecords
<1>9. ASSUME NEW c \in DOMAIN claims', Usable(c)' PROVE c \in Backed' /\ c \notin barred'
  <2>1. Backed' = Backed
    BY <1>5 DEF Backed, EvidenceOf
  <2>2. CASE c \in some
    <3>1. c \in Backed /\ claims[c].source \notin excluded
      BY <1>5, <1>9, <2>2, CheckedBacked DEF Usable
    <3> QED BY <1>4, <2>1, <2>2, <3>1
  <2>3. CASE c \notin some
    <3>1. Usable(c) /\ c \in DOMAIN claims
      BY <1>5, <1>9, <2>3 DEF Usable
    <3> QED BY <1>4, <2>1, <2>3, <3>1 DEF PipelineInv, VerifiedBacked
  <2> QED BY <2>2, <2>3
<1> QED
  BY <1>5, <1>6, <1>7, <1>8, <1>9 DEF VerifiedBacked

LEMMA VerifyKeeps ==
  ASSUME PipelineInv, NEW some \in SUBSET (DOMAIN claims), Verify(some)
  PROVE  PipelineInv'
<1>1. /\ VerifyClaims(some) /\ pc' = "correct" /\ status = "running" /\ pc = "verify"
      /\ UNCHANGED <<run, pages, user, evidence, conclusions, output, draft, rounds>>
  BY DEF Verify, At
<1>2. /\ claims' \in Seq(ClaimRow) /\ DOMAIN claims' = DOMAIN claims
      /\ barred' \subseteq DOMAIN claims' /\ NoDuplicateRecords' /\ VerifiedBacked'
  BY <1>1, VerifyClaimsKeeps DEF conclusions, output
<1>3. PipelineTypeOK'
  BY <1>1, <1>2
  DEF PipelineInv, PipelineTypeOK, run, pages, user, conclusions, output, Phase
<1>4. ReportReady' /\ CompletedIsDelivered'
  BY <1>1 DEF ReportReady, CompletedIsDelivered, run
<1> QED
  BY <1>2, <1>3, <1>4 DEF PipelineInv

\* The correction round of the critic verifies every claim, or some and fails.
LEMMA CriticKeeps ==
  ASSUME PipelineInv,
         Critic \/ \E some \in SUBSET (DOMAIN claims) : CorrectionFails(some)
  PROVE  PipelineInv'
<1>1. /\ pc' \in {"synthesis", "report", "idle"} /\ pc = "critic" /\ status = "running"
      /\ status' = "running" \/ (status' = "failed" /\ pc' = "idle")
      /\ UNCHANGED <<attempts, pages, user, evidence, conclusions, output, draft, rounds>>
  BY DEF Critic, CorrectionFails, At, run
<1>2. /\ claims' \in Seq(ClaimRow) /\ DOMAIN claims' = DOMAIN claims
      /\ barred' \subseteq DOMAIN claims' /\ NoDuplicateRecords' /\ VerifiedBacked'
  <2>1. CASE \E some \in SUBSET (DOMAIN claims) : VerifyClaims(some)
    BY <1>1, <2>1, VerifyClaimsKeeps DEF conclusions, output
  <2>2. CASE UNCHANGED <<claims, barred>>
    BY <1>1, <2>2 DEF PipelineInv, PipelineTypeOK, NoDuplicateRecords, VerifiedBacked, Backed,
                      EvidenceOf, Usable, conclusions, output
  <2> QED BY <2>1, <2>2 DEF Critic, CorrectionFails
<1>3. PipelineTypeOK'
  BY <1>1, <1>2 DEF PipelineInv, PipelineTypeOK, pages, user, conclusions, output, Phase
<1>4. ReportReady' /\ CompletedIsDelivered'
  BY <1>1 DEF ReportReady, CompletedIsDelivered
<1> QED
  BY <1>2, <1>3, <1>4 DEF PipelineInv

\* Rows that are added to contradictions or to the wiki, if they are new.
LEMMA NewRows ==
  ASSUME NEW S, NEW table \in Seq(S), IsInjective(table),
         NEW new \in SUBSET S, IsFiniteSet(new), new \cap ToSet(table) = {}
  PROVE  table \o SetToSeq(new) \in Seq(S) /\ IsInjective(table \o SetToSeq(new))
<1> DEFINE t == SetToSeq(new)
<1>1. t \in Seq(new) /\ IsInjective(t)
  BY SetToSeqIs
<1> HIDE DEF t
<1>2. t \in Seq(S) /\ \A j \in DOMAIN t : t[j] \in new
  BY <1>1, LenProperties, ElementOfSeq, SeqMonotonic
<1>3. \A i \in DOMAIN table : \A j \in DOMAIN t : table[i] # t[j]
  BY <1>2 DEF ToSet
<1>4. table \o t \in Seq(S) /\ IsInjective(table \o t)
  BY <1>1, <1>2, <1>3, AppendedInjective
<1> QED
  BY <1>4 DEF t

LEMMA ContradictKeeps ==
  ASSUME PipelineInv, NEW new \in SUBSET NewContradictions, Contradict(new)
  PROVE  PipelineInv'
<1>1. /\ contradictions' = contradictions \o SetToSeq(new) /\ pc' = "critic"
      /\ pc = "contradiction" /\ status = "running"
      /\ UNCHANGED <<run, pages, user, facts, decision, output, draft, rounds, barred>>
  BY DEF Contradict, At
<1>2. PipelineTypeOK /\ NoDuplicateRecords /\ VerifiedBacked
  BY DEF PipelineInv
<1>3. Len(claims) \in Nat /\ DOMAIN claims = 1..Len(claims)
  BY <1>2, LenProperties DEF PipelineTypeOK
<1>4. new \subseteq SUBSET (DOMAIN claims) /\ new \cap ToSet(contradictions) = {}
  BY DEF NewContradictions
<1>5. IsFiniteSet(new)
  <2>1. IsFiniteSet(SUBSET (DOMAIN claims))
    <3>1. IsFiniteSet(DOMAIN claims)
      BY <1>3, FS_Interval
    <3> QED BY <3>1, FS_SUBSET, Zenon
  <2> QED BY <1>4, <2>1, FS_Subset
<1>6. new \in SUBSET (SUBSET Nat)
  BY <1>3, <1>4
<1>7. contradictions' \in Seq(SUBSET Nat) /\ IsInjective(contradictions')
  BY <1>1, <1>2, <1>4, <1>5, <1>6, NewRows DEF PipelineTypeOK, NoDuplicateRecords
<1>8. PipelineTypeOK'
  BY <1>1, <1>2, <1>7 DEF PipelineTypeOK, run, pages, user, facts, output, Phase
<1>9. NoDuplicateRecords'
  BY <1>1, <1>2, <1>7 DEF NoDuplicateRecords, facts, output
<1>10. VerifiedBacked'
  BY <1>1, <1>2, SameClaims DEF facts
<1>11. ReportReady' /\ CompletedIsDelivered'
  BY <1>1 DEF ReportReady, CompletedIsDelivered, run
<1> QED
  BY <1>8, <1>9, <1>10, <1>11 DEF PipelineInv

LEMMA SynthesizeKeeps ==
  ASSUME PipelineInv, NEW named \in SUBSET (DOMAIN claims), Synthesize(named)
  PROVE  PipelineInv'
<1>1. /\ decision' \in {decision, named} /\ pc' \in {"report", "broken"}
      /\ pc = "synthesis" /\ status = "running"
      /\ UNCHANGED <<run, pages, user, facts, contradictions, output, draft, rounds, barred>>
  BY DEF Synthesize, At
<1>2. PipelineTypeOK /\ NoDuplicateRecords
  BY DEF PipelineInv
<1>3. PipelineTypeOK'
  BY <1>1, <1>2 DEF PipelineTypeOK, run, pages, user, facts, output, Phase
<1>4. NoDuplicateRecords'
  BY <1>1, <1>2 DEF NoDuplicateRecords, facts, output
<1>5. VerifiedBacked' /\ ReportReady' /\ CompletedIsDelivered'
  BY <1>1, SameClaims DEF ReportReady, CompletedIsDelivered, run
<1> QED
  BY <1>3, <1>4, <1>5 DEF PipelineInv

LEMMA WrittenIs ==
  ASSUME NEW cites
  PROVE  Written(cites) \in Report
BY DEF Written, Report

LEMMA WriteReportKeeps ==
  ASSUME PipelineInv, NEW cites \in BOOLEAN, NEW v \in Verdict,
         WriteReport(cites, v)
  PROVE  PipelineInv'
<1> DEFINE written == Written(cites)
           d1 == [draft EXCEPT !.report = written]
           d2 == [d1 EXCEPT !.verdict = v]
<1>1. /\ draft' = d2 /\ pc' = "review" /\ pc = "report" /\ status = "running" /\ v # "none"
      /\ UNCHANGED <<run, pages, user, facts, conclusions, output, rounds, barred>>
  BY DEF WriteReport, At, Judged
<1>2. PipelineTypeOK /\ NoDuplicateRecords /\ draft \in Draft
  BY DEF PipelineInv, PipelineTypeOK
<1>3. written \in Report /\ written # None
  BY <1>2, WrittenIs, PipelineAssumption
<1> HIDE DEF written
<1>4. d1 \in Draft /\ d1.report = written
  BY <1>2, <1>3 DEF Draft
<1>5. d2 \in Draft /\ d2.report = written /\ d2.verdict = v
  <2> HIDE DEF d1
  <2> QED BY <1>4 DEF Draft
<1> HIDE DEF d2
<1>6. PipelineTypeOK'
  BY <1>1, <1>2, <1>5 DEF PipelineTypeOK, run, pages, user, facts, conclusions, output, Phase
<1>7. NoDuplicateRecords'
  BY <1>1, <1>2 DEF NoDuplicateRecords, facts, conclusions, output
<1>8. VerifiedBacked' /\ ReportReady' /\ CompletedIsDelivered'
  BY <1>1, <1>3, <1>5, SameClaims DEF ReportReady, CompletedIsDelivered, run
<1> QED
  BY <1>6, <1>7, <1>8 DEF PipelineInv

LEMMA NoDraftIs == NoDraft \in Draft
<1>1. "none" \in Verdict /\ 0 \in 0..MaxRewrites
  BY PipelineAssumption DEF Verdict
<1> QED
  BY <1>1 DEF NoDraft, Draft

LEMMA CompileKeeps ==
  ASSUME PipelineInv, NEW done \in SUBSET (DOMAIN claims), Compile(done)
  PROVE  PipelineInv'
<1>1. /\ wiki' = wiki \o SetToSeq(done) /\ done \subseteq Uncompiled
      /\ report' = draft.report /\ verdict' = draft.verdict /\ draft' = NoDraft
      /\ pc' = "finish" /\ pc = "review" /\ status = "running"
      /\ UNCHANGED <<run, pages, user, facts, conclusions, rounds, barred>>
  BY DEF Compile, At, Publish
<1>2. /\ PipelineTypeOK /\ NoDuplicateRecords
      /\ draft.report \in Report \cup {None} /\ draft.report # None
      /\ draft.verdict \in Verdict /\ draft.verdict # "none"
  BY <1>1 DEF PipelineInv, PipelineTypeOK, Draft, ReportReady
<1>3. IsFiniteSet(done) /\ done \in SUBSET Nat
  <2>1. DOMAIN claims = 1..Len(claims) /\ Len(claims) \in Nat
    BY <1>2, LenProperties DEF PipelineTypeOK
  <2>2. IsFiniteSet(DOMAIN claims)
    BY <2>1, FS_Interval
  <2> QED BY <2>1, <2>2, FS_Subset
<1>4. done \cap ToSet(wiki) = {}
  BY <1>1 DEF Uncompiled
<1>5. wiki' \in Seq(Nat) /\ IsInjective(wiki')
  BY <1>1, <1>2, <1>3, <1>4, NewRows DEF PipelineTypeOK, NoDuplicateRecords
<1>6. PipelineTypeOK'
  BY <1>1, <1>2, <1>5, NoDraftIs
  DEF PipelineTypeOK, run, pages, user, facts, conclusions, Phase
<1>7. NoDuplicateRecords'
  BY <1>1, <1>2, <1>5 DEF NoDuplicateRecords, facts, conclusions
<1>8. VerifiedBacked' /\ ReportReady' /\ CompletedIsDelivered'
  BY <1>1, <1>2, SameClaims DEF ReportReady, CompletedIsDelivered, run
<1> QED
  BY <1>6, <1>7, <1>8 DEF PipelineInv

\* Steps that keep every row: phases that go on, edits of the user, and ends.
LEMMA SameRows ==
  ASSUME PipelineInv, UNCHANGED <<facts, conclusions, wiki>>
  PROVE  NoDuplicateRecords'
BY DEF PipelineInv, NoDuplicateRecords, facts, conclusions

LEMMA AdvanceKeeps ==
  ASSUME PipelineInv,
         \/ Start \/ Correct \/ Conclude \/ NoDecision
         \/ \E new \in SUBSET Source :
              Research(new) \/ \E legal \in SUBSET Source : Fetch(legal, new)
  PROVE  PipelineInv'
<1>1. /\ UNCHANGED <<status, user, facts, conclusions, output, draft, barred>>
      /\ status = "running" /\ pc' \in Phase \ {"review", "finish"}
  BY DEF Start, Correct, Conclude, NoDecision, Research, Fetch, At, run, pages, Phase
<1>2. PipelineTypeOK
  BY DEF PipelineInv
<1>3. found' \subseteq Source /\ fetched' \subseteq found'
  <2>1. CASE UNCHANGED pages
    BY <1>2, <2>1 DEF PipelineTypeOK, pages
  <2>2. CASE \E new \in SUBSET Source : Research(new)
    BY <1>2, <2>2 DEF PipelineTypeOK, Research
  <2>3. CASE \E new \in SUBSET Source : \E legal \in SUBSET Source : Fetch(legal, new)
    BY <1>2, <2>3 DEF PipelineTypeOK, Fetch, Acquired
  <2> QED BY <2>1, <2>2, <2>3 DEF Start, Correct, Conclude, NoDecision, pages
<1>4. attempts' \in 0..MaxAttempts /\ rounds' \in 0..MaxRounds
  <2>1. /\ UNCHANGED attempts \/ (attempts < MaxAttempts /\ attempts' = attempts + 1)
        /\ UNCHANGED rounds \/ (rounds < MaxRounds /\ rounds' = rounds + 1)
    BY DEF Start, Correct, Conclude, NoDecision, Research, Fetch, run, RoundsLeft, RoundNumber
  <2>2. /\ attempts \in 0..MaxAttempts /\ rounds \in 0..MaxRounds
        /\ MaxAttempts \in Nat /\ MaxRounds \in Nat
    BY <1>2, PipelineAssumption DEF PipelineTypeOK
  <2> QED BY <2>1, <2>2, SMT
<1>5. PipelineTypeOK'
  BY <1>1, <1>2, <1>3, <1>4 DEF PipelineTypeOK, user, facts, conclusions, output
<1>6. NoDuplicateRecords'
  BY <1>1, SameRows DEF output
<1>7. VerifiedBacked'
  BY <1>1, <1>2, SameClaims DEF facts
<1>8. ReportReady' /\ CompletedIsDelivered'
  BY <1>1 DEF ReportReady, CompletedIsDelivered
<1> QED
  BY <1>5, <1>6, <1>7, <1>8 DEF PipelineInv

LEMMA RewriteKeeps ==
  ASSUME PipelineInv, Rewrite
  PROVE  PipelineInv'
<1> DEFINE again == draft.rewrites + 1
<1>1. /\ draft' = [draft EXCEPT !.rewrites = again] /\ again < MaxRewrites
      /\ pc' = "report" /\ pc = "review" /\ status = "running"
      /\ UNCHANGED <<run, pages, user, facts, conclusions, output, rounds, barred>>
  BY DEF Rewrite, At
<1>2. PipelineTypeOK /\ draft \in Draft
  BY DEF PipelineInv, PipelineTypeOK
<1>3. again \in 0..MaxRewrites
  BY <1>1, <1>2, PipelineAssumption DEF Draft
<1> HIDE DEF again
<1>4. draft' \in Draft
  BY <1>1, <1>2, <1>3 DEF Draft
<1>5. PipelineTypeOK'
  BY <1>1, <1>2, <1>4 DEF PipelineTypeOK, run, pages, user, facts, conclusions, output, Phase
<1>6. NoDuplicateRecords'
  BY <1>1, SameRows DEF output
<1>7. VerifiedBacked' /\ ReportReady' /\ CompletedIsDelivered'
  BY <1>1, SameClaims DEF ReportReady, CompletedIsDelivered, run
<1> QED
  BY <1>5, <1>6, <1>7 DEF PipelineInv

\* The gate lets a run complete on a verdict that is there.
LEMMA FinishKeeps ==
  ASSUME PipelineInv, NEW wanted \in {"completed", "failed", "budget_exhausted"},
         Finish(wanted)
  PROVE  PipelineInv'
<1>1. /\ status' = TerminalGate(wanted) /\ pc' = "idle" /\ pc = "finish" /\ status = "running"
      /\ UNCHANGED <<attempts, pages, user, facts, conclusions, output, draft, rounds, barred>>
  BY DEF Finish, At
<1>2. /\ PipelineTypeOK /\ report # None /\ verdict # "none" /\ verdict \in Verdict
  BY <1>1 DEF PipelineInv, PipelineTypeOK, ReportReady
<1>3. /\ status' \in {"completed", "failed", "budget_exhausted"}
      /\ status' = "completed" =>
           ~(\/ verdict = "revision_required"
             \/ verdict \in {"blocked", "research_gap"} /\ evidence = <<>>)
  BY <1>1 DEF TerminalGate
<1>4. PipelineTypeOK'
  BY <1>1, <1>2, <1>3 DEF PipelineTypeOK, pages, user, facts, conclusions, output, Phase
<1>5. NoDuplicateRecords'
  BY <1>1, SameRows DEF output
<1>6. VerifiedBacked' /\ ReportReady'
  BY <1>1, SameClaims DEF ReportReady
<1>7. CompletedIsDelivered'
  BY <1>1, <1>2, <1>3 DEF CompletedIsDelivered, Verdict, output, facts
<1> QED
  BY <1>4, <1>5, <1>6, <1>7 DEF PipelineInv

\* Ends without the gate: none of them completes a run.
LEMMA EndKeeps ==
  ASSUME PipelineInv,
         \/ FailRun \/ Abort \/ \E s \in {"cancelled", "budget_exhausted"} : Stop(s)
  PROVE  PipelineInv'
<1>1. /\ pc' = "idle" /\ pc # "idle"
      /\ UNCHANGED <<attempts, pages, user, facts, conclusions, wiki, rounds, barred>>
      /\ status' \in {"running", "failed", "cancelled", "budget_exhausted"}
  <2>1. pc # "idle" => status = "running"
    BY DEF PipelineInv, ReportReady, PipelineTypeOK
  <2> QED BY <2>1 DEF FailRun, Abort, Stop, run, output
<1>2. /\ report' \in {report, draft.report} /\ verdict' \in {verdict, draft.verdict}
      /\ draft' \in {draft, NoDraft}
  BY DEF FailRun, Abort, Stop, Publish, output
<1>3. PipelineTypeOK /\ draft.report \in Report \cup {None} /\ draft.verdict \in Verdict
  BY DEF PipelineInv, PipelineTypeOK, Draft
<1>4. PipelineTypeOK'
  BY <1>1, <1>2, <1>3, NoDraftIs DEF PipelineTypeOK, pages, user, facts, conclusions, Phase
<1>5. NoDuplicateRecords'
  BY <1>1, SameRows
<1>6. VerifiedBacked' /\ ReportReady' /\ CompletedIsDelivered'
  BY <1>1, SameClaims DEF ReportReady, CompletedIsDelivered
<1> QED
  BY <1>4, <1>5, <1>6 DEF PipelineInv

LEMMA EditKeeps ==
  ASSUME PipelineInv, NEW s \in Source, EditPreference(s)
  PROVE  PipelineInv'
<1>1. /\ UNCHANGED <<run, pc, pages, facts, conclusions, output, draft, rounds, barred>>
      /\ excluded' \in {excluded \ {s}, excluded \cup {s}}
      /\ edits < MaxEdits /\ edits' = edits + 1
  BY DEF EditPreference
<1>2. PipelineTypeOK /\ edits' \in 0..MaxEdits
  BY <1>1, PipelineAssumption DEF PipelineInv, PipelineTypeOK
<1>3. PipelineTypeOK'
  BY <1>1, <1>2 DEF PipelineTypeOK, run, pages, facts, conclusions, output
<1>4. NoDuplicateRecords'
  BY <1>1, SameRows DEF output
<1>5. VerifiedBacked'
  BY <1>1, SameClaims
<1>6. ReportReady' /\ CompletedIsDelivered'
  BY <1>1 DEF PipelineInv, ReportReady, CompletedIsDelivered, run, facts, output
<1> QED
  BY <1>3, <1>4, <1>5, <1>6 DEF PipelineInv

LEMMA StutterKeeps ==
  ASSUME PipelineInv, UNCHANGED vars
  PROVE  PipelineInv'
<1>1. UNCHANGED <<status, pc, attempts, found, fetched, excluded, edits, claims, evidence>>
  BY DEF vars
<1>2. UNCHANGED <<contradictions, wiki, decision, report, verdict, draft, rounds, barred>>
  BY DEF vars
<1>3. PipelineTypeOK'
  BY <1>1, <1>2 DEF PipelineInv, PipelineTypeOK
<1>4. NoDuplicateRecords'
  BY <1>1, <1>2, SameRows DEF facts, conclusions
<1>5. VerifiedBacked'
  BY <1>1, <1>2, SameClaims DEF facts
<1>6. ReportReady' /\ CompletedIsDelivered'
  BY <1>1, <1>2 DEF PipelineInv, ReportReady, CompletedIsDelivered
<1> QED
  BY <1>3, <1>4, <1>5, <1>6 DEF PipelineInv

LEMMA InitKeeps ==
  ASSUME Init
  PROVE  PipelineInv
<1>1. 0 \in 0..MaxAttempts /\ 0 \in 0..MaxRounds /\ 0 \in 0..MaxEdits
  BY PipelineAssumption
<1>2. <<>> \in Seq(ClaimRow) /\ <<>> \in Seq(EvidenceRow)
  OBVIOUS
<1>3. <<>> \in Seq(SUBSET Nat) /\ <<>> \in Seq(Nat)
  OBVIOUS
<1>4. /\ status = "running" /\ pc = "idle" /\ attempts = 0 /\ found = {} /\ fetched = {}
      /\ excluded = {} /\ edits = 0 /\ barred = {}
  BY DEF Init
<1>5. /\ claims = <<>> /\ evidence = <<>> /\ contradictions = <<>> /\ wiki = <<>>
      /\ decision = None /\ report = None /\ verdict = "none" /\ draft = NoDraft
      /\ rounds = 0
  BY DEF Init
<1>6. PipelineTypeOK
  BY <1>1, <1>2, <1>3, <1>4, <1>5, NoDraftIs DEF PipelineTypeOK, Phase, Verdict
<1>7. NoDuplicateRecords
  BY <1>5 DEF NoDuplicateRecords, IsInjective
<1>8. VerifiedBacked /\ ReportReady /\ CompletedIsDelivered
  <2>1. DOMAIN claims = {}
    BY <1>5
  <2> QED BY <1>4, <2>1 DEF VerifiedBacked, ReportReady, CompletedIsDelivered
<1> QED
  BY <1>6, <1>7, <1>8 DEF PipelineInv

-----------------------------------------------------------------------------
(* Theorems.                                                               *)

\* Type correctness, uniqueness and what the phases rely on are inductive
\* together.
THEOREM PipelineInvariant == Spec => []PipelineInv
<1>1. Init => PipelineInv
  BY InitKeeps
<1>2. PipelineInv /\ [Next]_vars => PipelineInv'
  <2>1. SUFFICES ASSUME PipelineInv, [Next]_vars PROVE PipelineInv'
    OBVIOUS
  <2>2. ASSUME NEW selected \in SUBSET (Source \X Statement), NEW bare \in SUBSET selected,
               Extract(selected, bare)
        PROVE  PipelineInv'
    BY <2>1, <2>2, ExtractKeeps
  <2>3. ASSUME \/ Start \/ Correct \/ Conclude \/ NoDecision
               \/ \E new \in SUBSET Source :
                    Research(new) \/ \E legal \in SUBSET Source : Fetch(legal, new)
        PROVE  PipelineInv'
    BY <2>1, <2>3, AdvanceKeeps
  <2>4. ASSUME NEW some \in SUBSET (DOMAIN claims), Synthesize(some) PROVE PipelineInv'
    BY <2>1, <2>4, SynthesizeKeeps
  <2>5. ASSUME NEW some \in SUBSET (DOMAIN claims), Compile(some) PROVE PipelineInv'
    BY <2>1, <2>5, CompileKeeps
  <2>6. ASSUME NEW cites \in BOOLEAN, NEW v \in Verdict, WriteReport(cites, v)
        PROVE  PipelineInv'
    BY <2>1, <2>6, WriteReportKeeps
  <2>7. ASSUME NEW wanted \in {"completed", "failed", "budget_exhausted"}, Finish(wanted)
        PROVE  PipelineInv'
    BY <2>1, <2>7, FinishKeeps
  <2>8. ASSUME \/ FailRun \/ Abort \/ \E s \in {"cancelled", "budget_exhausted"} : Stop(s)
        PROVE  PipelineInv'
    BY <2>1, <2>8, EndKeeps
  <2>9. ASSUME NEW s \in Source, EditPreference(s) PROVE PipelineInv'
    BY <2>1, <2>9, EditKeeps
  <2> QED
    BY <2>1, <2>2, <2>3, <2>4, <2>5, <2>6, <2>7, <2>8, <2>9,
       VerifyKeeps, ContradictKeeps, CriticKeeps, RewriteKeeps, StutterKeeps, Zenon
    DEF Next, Execute
<1> QED
  BY <1>1, <1>2, PTL DEF Spec

\* Every row keeps its type and every counter its limit.
THEOREM PipelineTypeCorrect == Spec => []PipelineTypeOK
<1>1. PipelineInv => PipelineTypeOK
  BY DEF PipelineInv
<1> QED
  BY <1>1, PipelineInvariant, PTL

\* However often the pipeline breaks off and begins again, it adds no claim,
\* evidence, contradiction or statement of the wiki twice.
THEOREM RecordsUnique == Spec => []NoDuplicateRecords
<1>1. PipelineInv => NoDuplicateRecords
  BY DEF PipelineInv
<1> QED
  BY <1>1, PipelineInvariant, PTL

\* A run completes only behind its report and the final critic's verdict, and
\* stays as it was completed.
THEOREM CompletedDelivered == Spec => []CompletedIsDelivered
<1>1. PipelineInv => CompletedIsDelivered
  BY DEF PipelineInv
<1> QED
  BY <1>1, PipelineInvariant, PTL

\* Whatever claims the model names, a decision is based on claims with evidence that
\* passed when they were verified last, of sources not excluded then: also when a
\* verification or an execution broke off before it.
THEOREM DecisionsSupported == Spec => DecisionSupported
<1> DEFINE Supports == \A c \in decision' : /\ claims[c].status \in {"partial", "verified"}
                                            /\ c \in Backed
                                            /\ c \notin barred
<1>1. PipelineInv /\ [Next]_vars => [decision' # decision => Supports]_vars
  <2>1. SUFFICES ASSUME PipelineInv, [Next]_vars, decision' # decision PROVE Supports
    OBVIOUS
  <2>2. ASSUME NEW named \in SUBSET (DOMAIN claims), Synthesize(named) PROVE Supports
    <3>1. decision' = named /\ pc = "synthesis" /\ \A c \in named : Usable(c)
      BY <2>1, <2>2 DEF Synthesize, At, Supportive
    <3>2. \A c \in named : c \in Backed /\ c \notin barred
      BY <2>1, <3>1 DEF PipelineInv, VerifiedBacked
    <3> QED BY <3>1, <3>2 DEF Usable
  <2>3. ASSUME ~\E named \in SUBSET (DOMAIN claims) : Synthesize(named) PROVE FALSE
    <3>1. UNCHANGED decision
      <4>1. CASE Start \/ Correct \/ Conclude \/ Critic \/ NoDecision
                 \/ Rewrite \/ FailRun \/ Abort \/ UNCHANGED vars
        BY <4>1 DEF Start, Correct, Conclude, Critic, NoDecision, Rewrite, FailRun, Abort, vars,
                    conclusions
      <4>2. CASE \E new \in SUBSET Source :
                   Research(new) \/ \E legal \in SUBSET Source : Fetch(legal, new)
        BY <4>2 DEF Research, Fetch, conclusions
      <4>3. CASE \E selected \in SUBSET (Source \X Statement) :
                   \E bare \in SUBSET selected : Extract(selected, bare)
        BY <4>3 DEF Extract, conclusions
      <4>4. CASE \/ \E some \in SUBSET (DOMAIN claims) :
                      Verify(some) \/ CorrectionFails(some) \/ Compile(some)
                 \/ \E cites \in BOOLEAN, v \in Verdict : WriteReport(cites, v)
                 \/ \E done \in SUBSET NewContradictions : Contradict(done)
        BY <4>4 DEF Verify, CorrectionFails, Compile, WriteReport, Contradict, conclusions
      <4>5. CASE \E wanted \in {"completed", "failed", "budget_exhausted"} : Finish(wanted)
        BY <4>5 DEF Finish, conclusions
      <4>6. CASE \E s \in {"cancelled", "budget_exhausted"} : Stop(s)
        BY <4>6 DEF Stop, conclusions
      <4>7. CASE \E s \in Source : EditPreference(s)
        BY <4>7 DEF EditPreference, conclusions
      <4> QED
        BY <2>1, <2>3, <4>1, <4>2, <4>3, <4>4, <4>5, <4>6, <4>7, Zenon DEF Next, Execute
    <3> QED BY <2>1, <3>1
  <2> QED BY <2>2, <2>3
<1>2. Spec => [][decision' # decision => Supports]_vars
  BY <1>1, PipelineInvariant, PTL DEF Spec
<1> QED
  BY <1>2 DEF DecisionSupported

-----------------------------------------------------------------------------
(* The pipeline ends: what is left of it, and that every step takes from   *)
(* it.                                                                     *)

\* How far a phase is from the end of a round that does not repeat.
Ahead(phase) ==
  CASE phase = "research" -> 10
    [] phase = "fetch" -> 9
    [] phase = "extract" -> 8
    [] phase = "verify" -> 7
    [] phase = "correct" -> 6
    [] phase = "contradiction" -> 5
    [] phase = "critic" -> 4
    [] phase = "synthesis" -> 3
    [] phase \in {"report", "review"} -> 2
    [] phase = "finish" -> 1
    [] OTHER -> 0

\* Attempts, the execution, its rounds, its phases, the rewrites of its report,
\* and whether the report is written: the first that changes decides.
Left == <<MaxAttempts - attempts, IF pc = "idle" THEN 0 ELSE 1, MaxRounds - rounds, Ahead(pc),
          MaxRewrites - draft.rewrites, IF pc = "report" THEN 1 ELSE 0>>

Below == {pair \in Nat \X Nat : pair[1] < pair[2]}

Fewer == LexProductOrdering(Below, Nat, 6)

\* No sequence of such vectors gets smaller for ever.
LEMMA NoEndlessDescent == IsWellFoundedOn(Fewer, [1..6 -> Nat])
<1>1. Below = OpToRel(<, Nat)
  BY DEF Below, OpToRel
<1>2. IsWellFoundedOn(Below, Nat)
  BY <1>1, NatLessThanWellFounded
<1> QED
  BY <1>2, WFLexProductOrdering DEF Fewer

LEMMA SixNumbers ==
  ASSUME NEW n1 \in Nat, NEW n2 \in Nat, NEW n3 \in Nat, NEW n4 \in Nat, NEW n5 \in Nat,
         NEW n6 \in Nat
  PROVE  <<n1, n2, n3, n4, n5, n6>> \in [1..6 -> Nat]
<1> DEFINE s == <<n1, n2, n3, n4, n5, n6>>
<1>1. s \in Seq(Nat) /\ Len(s) = 6
  OBVIOUS
<1> HIDE DEF s
<1>2. s \in [1..6 -> Nat]
  BY <1>1, LenProperties
<1> QED
  BY <1>2 DEF s

\* Who counts more has less left.
LEMMA MoreTaken ==
  \A n \in Nat : \A x, y \in 0..n : n - x \in Nat /\ n - y \in Nat /\ (y > x => n - y < n - x)
OBVIOUS

\* A way to see that one of two vectors is below the other.
LEMMA FewerIs ==
  ASSUME NEW a \in [1..6 -> Nat], NEW b \in [1..6 -> Nat], NEW j \in 1..6,
         \A i \in 1..(j - 1) : a[i] = b[i], a[j] < b[j]
  PROVE  <<a, b>> \in Fewer
BY DEF Fewer, LexProductOrdering, Below

\* A new attempt, the end of an execution, a new round, a phase further, and
\* another rewrite or the report of it.
LEMMA Descends ==
  ASSUME PipelineTypeOK, PipelineTypeOK',
         \/ attempts' > attempts
         \/ /\ attempts' = attempts /\ pc # "idle"
            /\ \/ pc' = "idle"
               \/ rounds' > rounds
               \/ rounds' = rounds /\ Ahead(pc') < Ahead(pc)
               \/ /\ rounds' = rounds /\ Ahead(pc') = Ahead(pc)
                  /\ \/ draft'.rewrites > draft.rewrites
                     \/ draft'.rewrites = draft.rewrites /\ pc = "report" /\ pc' = "review"
  PROVE  <<Left', Left>> \in Fewer
<1> DEFINE a == Left'
           b == Left
<1>1. /\ attempts \in 0..MaxAttempts /\ attempts' \in 0..MaxAttempts
      /\ rounds \in 0..MaxRounds /\ rounds' \in 0..MaxRounds
      /\ draft.rewrites \in 0..MaxRewrites /\ draft'.rewrites \in 0..MaxRewrites
      /\ MaxAttempts \in Nat /\ MaxRounds \in Nat /\ MaxRewrites \in Nat
  BY PipelineAssumption DEF PipelineTypeOK, Draft
<1>2. /\ MaxAttempts - attempts \in Nat /\ MaxAttempts - attempts' \in Nat
      /\ MaxRounds - rounds \in Nat /\ MaxRounds - rounds' \in Nat
      /\ MaxRewrites - draft.rewrites \in Nat /\ MaxRewrites - draft'.rewrites \in Nat
  BY <1>1, MoreTaken, Zenon
<1>3. Ahead(pc) \in Nat /\ Ahead(pc') \in Nat
  BY DEF Ahead
<1>4. a \in [1..6 -> Nat] /\ b \in [1..6 -> Nat]
  <2>1. \A p : (IF p = "idle" THEN 0 ELSE 1) \in Nat /\ (IF p = "report" THEN 1 ELSE 0) \in Nat
    OBVIOUS
  <2> QED BY <1>2, <1>3, <2>1, SixNumbers, Zenon DEF Left
<1>5. /\ b[1] = MaxAttempts - attempts /\ a[1] = MaxAttempts - attempts'
      /\ b[2] = (IF pc = "idle" THEN 0 ELSE 1) /\ a[2] = (IF pc' = "idle" THEN 0 ELSE 1)
      /\ b[3] = MaxRounds - rounds /\ a[3] = MaxRounds - rounds'
      /\ b[4] = Ahead(pc) /\ a[4] = Ahead(pc')
      /\ b[5] = MaxRewrites - draft.rewrites /\ a[5] = MaxRewrites - draft'.rewrites
      /\ b[6] = (IF pc = "report" THEN 1 ELSE 0) /\ a[6] = (IF pc' = "report" THEN 1 ELSE 0)
  BY DEF Left
<1> SUFFICES <<a, b>> \in Fewer
  OBVIOUS
<1> HIDE DEF a, b
<1>6. CASE attempts' > attempts
  <2>1. a[1] < b[1]
    BY <1>1, <1>5, <1>6, MoreTaken, Zenon
  <2> QED BY <1>4, <2>1, FewerIs
<1>7. CASE attempts' = attempts /\ pc # "idle" /\ pc' = "idle"
  <2>1. a[1] = b[1] /\ a[2] < b[2]
    BY <1>5, <1>7
  <2> QED BY <1>4, <2>1, FewerIs
<1>8. CASE attempts' = attempts /\ pc # "idle" /\ pc' # "idle" /\ rounds' > rounds
  <2>1. MaxRounds - rounds' < MaxRounds - rounds
    BY <1>1, <1>8, MoreTaken, Zenon
  <2>2. a[1] = b[1] /\ a[2] = b[2] /\ a[3] < b[3]
    BY <1>5, <1>8, <2>1
  <2> QED BY <1>4, <2>2, FewerIs
<1>9. CASE /\ attempts' = attempts /\ pc # "idle" /\ pc' # "idle" /\ rounds' = rounds
           /\ Ahead(pc') < Ahead(pc)
  <2>1. a[1] = b[1] /\ a[2] = b[2] /\ a[3] = b[3] /\ a[4] < b[4]
    BY <1>5, <1>9
  <2> QED BY <1>4, <2>1, FewerIs
<1>10. CASE /\ attempts' = attempts /\ pc # "idle" /\ pc' # "idle" /\ rounds' = rounds
           /\ Ahead(pc') = Ahead(pc) /\ draft'.rewrites > draft.rewrites
  <2>1. MaxRewrites - draft'.rewrites < MaxRewrites - draft.rewrites
    BY <1>1, <1>10, MoreTaken, Zenon
  <2>2. a[1] = b[1] /\ a[2] = b[2] /\ a[3] = b[3] /\ a[4] = b[4] /\ a[5] < b[5]
    BY <1>5, <1>10, <2>1
  <2> QED BY <1>4, <2>2, FewerIs
<1>11. CASE /\ attempts' = attempts /\ pc # "idle" /\ pc' # "idle" /\ rounds' = rounds
           /\ Ahead(pc') = Ahead(pc) /\ draft'.rewrites = draft.rewrites
           /\ pc = "report" /\ pc' = "review"
  <2>1. /\ a[1] = b[1] /\ a[2] = b[2] /\ a[3] = b[3] /\ a[4] = b[4] /\ a[5] = b[5]
        /\ a[6] < b[6]
    BY <1>5, <1>11
  <2> QED BY <1>4, <2>1, FewerIs
<1> QED
  BY <1>6, <1>7, <1>8, <1>9, <1>10, <1>11

\* Whatever is repeated, attempts, rounds or rewrites, every step takes from what is
\* left of the pipeline, but the edits of the user, which do not touch it: what
\* PipelineEnds adds is that there are steps as long as there is something left.
THEOREM PipelineRunsDown ==
  Spec => [][\/ <<Left', Left>> \in Fewer
             \/ Left' = Left /\ \E s \in Source : EditPreference(s)]_vars
<1>1. ASSUME PipelineInv, PipelineInv', Next, ~\E s \in Source : EditPreference(s)
      PROVE  <<Left', Left>> \in Fewer
  <2>1. PipelineTypeOK /\ PipelineTypeOK'
    BY <1>1 DEF PipelineInv
  <2>2. /\ attempts \in Nat /\ attempts' \in Nat /\ rounds \in Nat /\ rounds' \in Nat
        /\ draft \in Draft /\ draft.rewrites \in Nat /\ draft'.rewrites \in Nat
    BY <2>1, PipelineAssumption DEF PipelineTypeOK, Draft
  <2>3. ASSUME Start PROVE <<Left', Left>> \in Fewer
    <3>1. attempts' > attempts
      BY <2>2, <2>3 DEF Start
    <3> QED BY <2>1, <3>1, Descends
  <2>4. ASSUME \/ FailRun \/ Abort
               \/ \E s \in {"cancelled", "budget_exhausted"} : Stop(s)
               \/ \E wanted \in {"completed", "failed", "budget_exhausted"} : Finish(wanted)
               \/ \E some \in SUBSET (DOMAIN claims) : CorrectionFails(some)
        PROVE  <<Left', Left>> \in Fewer
    <3>1. attempts' = attempts /\ pc # "idle" /\ pc' = "idle"
      BY <2>4 DEF FailRun, Abort, Stop, Finish, CorrectionFails, At, run
    <3> QED BY <2>1, <3>1, Descends
  <2>5. ASSUME Correct PROVE <<Left', Left>> \in Fewer
    <3>1. attempts' = attempts /\ pc # "idle" /\ rounds' > rounds
      BY <2>2, <2>5 DEF Correct, At, run, RoundNumber
    <3> QED BY <2>1, <3>1, Descends
  <2>6. ASSUME \/ Conclude \/ Critic \/ NoDecision
               \/ \E done \in SUBSET NewContradictions : Contradict(done)
               \/ \E new \in SUBSET Source :
                    Research(new) \/ \E legal \in SUBSET Source : Fetch(legal, new)
               \/ \E selected \in SUBSET (Source \X Statement) :
                    \E bare \in SUBSET selected : Extract(selected, bare)
               \/ \E some \in SUBSET (DOMAIN claims) :
                    Verify(some) \/ Synthesize(some) \/ Compile(some)
        PROVE  <<Left', Left>> \in Fewer
    <3> DEFINE Further(from, to) == pc = from /\ pc' = to
    <3>1. CASE \E some \in SUBSET (DOMAIN claims) : Verify(some)
      <4>1. Further("verify", "correct") /\ UNCHANGED <<run, rounds>>
        BY <3>1 DEF Verify, At
      <4> QED BY <2>1, <4>1, Descends DEF Ahead, run
    <3>2. CASE Conclude
      <4>1. Further("correct", "contradiction") /\ UNCHANGED <<run, rounds>>
        BY <3>2 DEF Conclude, At
      <4> QED BY <2>1, <4>1, Descends DEF Ahead, run
    <3>3. CASE \E done \in SUBSET NewContradictions : Contradict(done)
      <4>1. Further("contradiction", "critic") /\ UNCHANGED <<run, rounds>>
        BY <3>3 DEF Contradict, At
      <4> QED BY <2>1, <4>1, Descends DEF Ahead, run
    <3>4. CASE Critic
      <4>1. pc = "critic" /\ pc' \in {"synthesis", "report"} /\ UNCHANGED <<run, rounds>>
        BY <3>4 DEF Critic, At
      <4> QED BY <2>1, <4>1, Descends DEF Ahead, run
    <3>5. CASE NoDecision \/ \E some \in SUBSET (DOMAIN claims) : Synthesize(some)
      <4>1. pc = "synthesis" /\ pc' \in {"report", "broken"} /\ UNCHANGED <<run, rounds>>
        BY <3>5 DEF NoDecision, Synthesize, At
      <4> QED BY <2>1, <4>1, Descends DEF Ahead, run
    <3>6. CASE \E new \in SUBSET Source : Research(new)
      <4>1. Further("research", "fetch") /\ UNCHANGED <<run, rounds>>
        BY <3>6 DEF Research, At
      <4> QED BY <2>1, <4>1, Descends DEF Ahead, run
    <3>7. CASE \E new, legal \in SUBSET Source : Fetch(legal, new)
      <4>1. Further("fetch", "extract") /\ UNCHANGED <<run, rounds>>
        BY <3>7 DEF Fetch, At
      <4> QED BY <2>1, <4>1, Descends DEF Ahead, run
    <3>8. CASE \E selected \in SUBSET (Source \X Statement) :
                 \E bare \in SUBSET selected : Extract(selected, bare)
      <4>1. Further("extract", "verify") /\ UNCHANGED <<run, rounds>>
        BY <3>8 DEF Extract, At
      <4> QED BY <2>1, <4>1, Descends DEF Ahead, run
    <3>9. CASE \E some \in SUBSET (DOMAIN claims) : Compile(some)
      <4>1. Further("review", "finish") /\ UNCHANGED <<run, rounds>>
        BY <3>9 DEF Compile, At
      <4> QED BY <2>1, <4>1, Descends DEF Ahead, run
    <3> QED BY <2>6, <3>1, <3>2, <3>3, <3>4, <3>5, <3>6, <3>7, <3>8, <3>9
  <2>7. ASSUME NEW cites \in BOOLEAN, NEW v \in Verdict, WriteReport(cites, v)
        PROVE  <<Left', Left>> \in Fewer
    <3>1. /\ attempts' = attempts /\ rounds' = rounds /\ pc = "report" /\ pc' = "review"
          /\ draft' = [draft EXCEPT !.report = Written(cites), !.verdict = v]
      BY <2>7 DEF WriteReport, At, run
    <3>2. draft'.rewrites = draft.rewrites
      BY <2>2, <3>1 DEF Draft
    <3>3. Ahead(pc') = Ahead(pc)
      BY <3>1 DEF Ahead
    <3> QED BY <2>1, <3>1, <3>2, <3>3, Descends
  <2>8. ASSUME Rewrite PROVE <<Left', Left>> \in Fewer
    <3>1. /\ attempts' = attempts /\ rounds' = rounds /\ pc = "review" /\ pc' = "report"
          /\ draft' = [draft EXCEPT !.rewrites = @ + 1]
      BY <2>8 DEF Rewrite, At, run
    <3>2. draft'.rewrites > draft.rewrites
      BY <2>2, <3>1 DEF Draft
    <3>3. Ahead(pc') = Ahead(pc)
      BY <3>1 DEF Ahead
    <3> QED BY <2>1, <3>1, <3>2, <3>3, Descends
  <2> QED
    BY <1>1, <2>3, <2>4, <2>5, <2>6, <2>7, <2>8, Zenon DEF Next, Execute
<1>2. (\E s \in Source : EditPreference(s)) => Left' = Left
  BY DEF EditPreference, Left, run
<1>3. PipelineInv /\ PipelineInv' /\ [Next]_vars =>
        [\/ <<Left', Left>> \in Fewer
         \/ Left' = Left /\ \E s \in Source : EditPreference(s)]_vars
  BY <1>1, <1>2
<1> QED
  BY <1>3, PipelineInvariant, PTL DEF Spec
=============================================================================
