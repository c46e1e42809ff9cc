-------------------------- MODULE EvidencePipeline --------------------------
(***************************************************************************)
(* The evidence of one run: what an execution does after the first tasks,  *)
(* from fetched pages to the report.                                       *)
(*                                                                         *)
(* A phase is one database transaction: it begins with an event, which     *)
(* locks the run, and ends with a commit, so a phase is one action.  Only  *)
(* the report and the knowledge compiled after it share a transaction; the *)
(* report waits for it in draft.  An exception inside a phase is logged    *)
(* and the phase ends with what it has done; an error of the database      *)
(* leaves a session on which every later statement fails, so the execution *)
(* ends, and the job is tried again from the first phase on the rows that  *)
(* are committed.                                                          *)
(*                                                                         *)
(* A claim is a statement found in one source, the quotes that support it  *)
(* come from that source's snapshot.  Statements, quotes and what a model  *)
(* answers are abstract: every choice the pages and models could lead to.  *)
(***************************************************************************)
EXTENDS Naturals, FiniteSets, SequencesExt

CONSTANTS
  Source, Statement, None,
  Says,        \* the statements found in each source's page
  Loose,       \* statements whose quote is not found in the page again
  Disagree,    \* the pairs of statements that contradict each other
  FetchCap,    \* the most pages one call of fetch_sources_for_run stores
  MaxRounds,   \* coverage rounds
  MaxRewrites, \* research_max_report_rewrites
  MaxAttempts, \* max_attempts of the job
  MaxEdits     \* bound: preferences the user edits

\* Whether a report cites evidence.
Report == {"uncited", "cited"}

ASSUME PipelineAssumption ==
  /\ IsFiniteSet(Source) /\ IsFiniteSet(Statement)
  /\ None \notin Report
  /\ Says \in [Source -> SUBSET Statement]
  /\ Loose \subseteq Statement
  /\ Disagree \subseteq {pair \in SUBSET Statement : Cardinality(pair) = 2}
  /\ {FetchCap, MaxRounds, MaxRewrites, MaxAttempts, MaxEdits} \subseteq Nat

VARIABLES
  status,    \* of the run, as far as this part of it decides
  pc,        \* the phase the execution comes to, idle between executions
  attempts,  \* executions of the job
  found, fetched,  \* sources, and those with a snapshot
  excluded, edits, \* the user's source preferences
  claims, evidence, contradictions, wiki,  \* tables; a row's key is its index
  decision,  \* the claims the decision is based on
  report, verdict, \* the report and final_critic of config_snapshot
  draft,     \* both as the open transaction has them
  rounds,    \* coverage_research_rounds
  barred     \* history: claims whose source was excluded when last verified

vars == <<status, pc, attempts, found, fetched, excluded, edits, claims, evidence,
          contradictions, wiki, decision, report, verdict, draft, rounds, barred>>

run   == <<status, attempts>>
pages == <<found, fetched>>
user  == <<excluded, edits>>
facts == <<claims, evidence>>
conclusions == <<contradictions, decision>>
output == <<report, verdict, wiki>>

ClaimRow == [source: Source, statement: Statement,
             status: {"pending", "insufficient", "partial", "verified"}]
EvidenceRow == [claim: Nat, source: Source]
Verdict == {"none", "pass", "revision_required", "research_gap", "blocked"}
Phase == {"idle", "research", "fetch", "extract", "verify", "correct", "contradiction",
          "critic", "synthesis", "report", "review", "finish", "broken"}
Draft == [report: Report \cup {None}, verdict: Verdict, rewrites: 0..MaxRewrites]
NoDraft == [report |-> None, verdict |-> "none", rewrites |-> 0]

PipelineTypeOK ==
  /\ status \in {"running", "completed", "failed", "cancelled", "budget_exhausted"}
  /\ pc \in Phase
  /\ attempts \in 0..MaxAttempts /\ rounds \in 0..MaxRounds /\ edits \in 0..MaxEdits
  /\ found \subseteq Source /\ fetched \subseteq found
  /\ excluded \subseteq Source
  /\ claims \in Seq(ClaimRow) /\ barred \subseteq DOMAIN claims /\ evidence \in Seq(EvidenceRow)
  /\ contradictions \in Seq(SUBSET Nat) /\ wiki \in Seq(Nat)
  /\ decision = None \/ decision \subseteq DOMAIN claims
  /\ report \in Report \cup {None} /\ verdict \in Verdict /\ draft \in Draft

Init ==
  /\ status = "running" /\ pc = "idle" /\ attempts = 0
  /\ found = {} /\ fetched = {}
  /\ excluded = {} /\ edits = 0 /\ barred = {}
  /\ claims = <<>> /\ evidence = <<>> /\ contradictions = <<>> /\ wiki = <<>>
  /\ decision = None /\ report = None /\ verdict = "none" /\ draft = NoDraft
  /\ rounds = 0

-----------------------------------------------------------------------------
(* Helpers.                                                                *)

At(phase) == pc = phase /\ status = "running"

EvidenceOf(c) == {i \in DOMAIN evidence : evidence[i].claim = c}
Backed == {c \in DOMAIN claims : EvidenceOf(c) # {}}

\* is_source_admissible, as far as it depends on what may change.
Admissible(s) == s \notin excluded

Usable(c) == claims[c].status \in {"partial", "verified"}

-----------------------------------------------------------------------------
(* Fetch and extract.                                                      *)

\* The job is claimed, and claimed again after an execution that broke.
Start ==
  /\ At("idle") /\ attempts < MaxAttempts
  /\ attempts' = attempts + 1 /\ pc' = "research"
  /\ UNCHANGED <<status, pages, user, facts, conclusions, output, draft, rounds, barred>>

\* The batches of tasks, which module ResearchTasks details: sources turn up.
Research(new) ==
  /\ At("research")
  /\ found' = found \cup new /\ pc' = "fetch"
  /\ UNCHANGED <<run, fetched, user, facts, conclusions, output, draft, rounds, barred>>

\* The sources the pages refer to, official ones and legal texts, which come
\* with their pages, if the user's preferences admit them.
Referred == {s \in Source : Admissible(s)}

\* Pages are stored for sources that have none, up to a number of successes.
\* Which sources are tried first, and which pages can be had, is open.
Acquired(new, from, successes) ==
  new \subseteq from \ fetched /\ Cardinality(new) <= successes

\* Pages, what they refer to, and, if that is new, pages once more.
Fetch(legal, new) ==
  /\ At("fetch")
  /\ legal \subseteq Referred
  /\ Acquired(new \ legal, found, IF legal \subseteq found THEN FetchCap ELSE 2 * FetchCap)
  /\ new \cap fetched = {}
  /\ found' = found \cup legal /\ fetched' = fetched \cup new
  /\ pc' = "extract"
  /\ UNCHANGED <<run, user, facts, conclusions, output, draft, rounds, barred>>

\* Mutant of ClaimKnown: whatever was extracted before is added again.
ClaimKnownNever(found_in) == FALSE

\* find_claim.
ClaimKnown(found_in) ==
  \E c \in DOMAIN claims : <<claims[c].source, claims[c].statement>> = found_in

\* What a page of an admissible source says may be selected, by a retrieved
\* passage or by a date or office holder found in it.
Selectable(f) == f[1] \in fetched /\ Admissible(f[1]) /\ f[2] \in Says[f[1]]

\* The claims with those of the selected statements that were unknown.
WithClaims(selected) ==
  LET fresh == SetToSeq({f \in selected : ~ClaimKnown(f)}) IN
  claims \o [i \in DOMAIN fresh |->
    [source |-> fresh[i][1], statement |-> fresh[i][2], status |-> "pending"]]

\* evidence_exists: the claims of selected statements that still have none.
Lacking(rows, selected) ==
  {c \in DOMAIN rows : /\ <<rows[c].source, rows[c].statement>> \in selected
                       /\ EvidenceOf(c) = {}}

\* Claims and the evidence of each, for the statements that are selected.  An
\* exception, in the passages or in the dates and office holders, may leave the
\* claim it came to without its evidence; what was done before stays.
Extract(selected, bare) ==
  LET rows == WithClaims(selected)
      lacking == SetToSeq(Lacking(rows, selected \ bare))
  IN
  /\ At("extract")
  /\ \A f \in selected : Selectable(f)
  /\ bare \subseteq selected /\ Cardinality(bare) <= 2
  /\ claims' = rows
  /\ evidence' = evidence \o [i \in DOMAIN lacking |->
       [claim |-> lacking[i], source |-> rows[lacking[i]].source]]
  /\ pc' = "verify"
  /\ UNCHANGED <<run, pages, user, conclusions, output, draft, rounds, barred>>

-----------------------------------------------------------------------------
(* Verify, and research what is missing.                                   *)

\* Mutant of Checked: preferences are not looked at again.
CheckedUnfiltered(c) ==
  LET sources == {evidence[i].source : i \in EvidenceOf(c)} IN
  IF sources = {} \/ claims[c].statement \in Loose THEN "insufficient"
  ELSE IF Cardinality(sources) >= 2 THEN "verified" ELSE "partial"

\* The status verify_claims_for_run gives a claim.
Checked(c) ==
  LET sources == {evidence[i].source : i \in EvidenceOf(c)} IN
  IF ~Admissible(claims[c].source) \/ sources = {} \/ claims[c].statement \in Loose
  THEN "insufficient"
  ELSE IF Cardinality(sources) >= 2 THEN "verified" ELSE "partial"

\* verify_claims_for_run, for the claims it comes to.
VerifyClaims(some) ==
  /\ claims' = [c \in DOMAIN claims |->
                  IF c \in some THEN [claims[c] EXCEPT !.status = Checked(c)] ELSE claims[c]]
  /\ barred' = (barred \ some) \cup {c \in some : claims[c].source \in excluded}

\* An exception is logged and the phases go on: the claims that were not come to,
\* in an order that is open, keep the status an earlier verification gave them.
Verify(some) ==
  /\ At("verify")
  /\ VerifyClaims(some)
  /\ pc' = "correct"
  /\ UNCHANGED <<run, pages, user, evidence, conclusions, output, draft, rounds>>

\* Mutant of RoundNumber: it comes from the copy this execution began with.
RoundNumberKept == rounds

RoundNumber == rounds + 1

\* Mutant of RoundsLeft: one round more than the limit.
RoundsLeftOneMore == rounds <= MaxRounds

RoundsLeft == rounds < MaxRounds

\* A round: what is missing gives tasks that were not tried before.
Correct ==
  /\ At("correct") /\ RoundsLeft
  /\ rounds' = RoundNumber /\ pc' = "research"
  /\ UNCHANGED <<run, pages, user, facts, conclusions, output, draft, barred>>

\* Rounds, budget, gaps or new queries are used up.
Conclude ==
  /\ At("correct")
  /\ pc' = "contradiction"
  /\ UNCHANGED <<run, pages, user, facts, conclusions, output, draft, rounds, barred>>

-----------------------------------------------------------------------------
(* From claims to conclusions.                                             *)

\* Statements on one subject that differ in polarity and in nothing else.
Opposed(pair) == {claims[c].statement : c \in pair} \in Disagree

\* The contradictions that add_contradiction, which looks for the pair in either
\* order, does not find among the rows.
NewContradictions ==
  LET pairs == {{a, b} : a, b \in {c \in DOMAIN claims : Usable(c)}} IN
  {pair \in pairs : Opposed(pair) /\ pair \notin ToSet(contradictions)}

\* All of them, or, in case of an exception, those that were come to.
Contradict(done) ==
  /\ At("contradiction")
  /\ contradictions' = contradictions \o SetToSeq(done)
  /\ pc' = "critic"
  /\ UNCHANGED <<run, pages, user, facts, decision, output, draft, rounds, barred>>

CriticPasses == claims # <<>> /\ Backed = DOMAIN claims

\* Passes when there are claims and all of them have evidence.  The correction
\* round verifies again, which gives no claim evidence, and says the same.
Critic ==
  /\ At("critic")
  /\ IF CriticPasses
     THEN pc' = "synthesis" /\ UNCHANGED <<claims, barred>>
     ELSE pc' = "report" /\ VerifyClaims(DOMAIN claims)
  /\ UNCHANGED <<run, pages, user, evidence, conclusions, output, draft, rounds>>

\* Here nothing catches an exception of the verification: the run fails, and the
\* claims that were come to are committed with it.
CorrectionFails(some) ==
  /\ At("critic") /\ ~CriticPasses
  /\ VerifyClaims(some)
  /\ status' = "failed" /\ pc' = "idle"
  /\ UNCHANGED <<attempts, pages, user, evidence, conclusions, output, draft, rounds>>

\* What save_decision accepts of the claims the model names.
Supportive(named) == named # {} /\ \A c \in named : Usable(c)

\* Nothing usable, or an answer save_decision refuses: no decision.
NoDecision ==
  /\ At("synthesis")
  /\ pc' = "report"
  /\ UNCHANGED <<run, pages, user, facts, conclusions, output, draft, rounds, barred>>

\* The insert; the key of a run's decision is unique, and an insert that
\* violates it leaves a session that cannot commit.
Synthesize(named) ==
  /\ At("synthesis")
  /\ Supportive(named)
  /\ IF decision = None
     THEN decision' = named /\ pc' = "report"
     ELSE pc' = "broken" /\ UNCHANGED decision
  /\ UNCHANGED <<run, pages, user, facts, contradictions, output, draft, rounds, barred>>

-----------------------------------------------------------------------------
(* Report, compiled knowledge, end.                                        *)

\* save_report replaces the citations, save_report_draft leaves them alone.
Written(cites) ==
  LET previous == IF draft.report # None THEN draft.report ELSE report IN
  IF cites \/ previous = "cited" THEN "cited" ELSE "uncited"

\* What a report may cite, whether a model writes it or the sections are
\* rendered from the claims: claims that passed, with their evidence.
Citable(c) == Usable(c) /\ c \in Backed

\* run_final_answer_critic: a gap is sent back while a round is left.
Judged(v) == v \in Verdict \ {"none"} /\ (v = "research_gap" => RoundsLeft)

\* generate_report, which cites something only if a claim can be cited, and the
\* final critic's verdict.
WriteReport(cites, v) ==
  /\ At("report")
  /\ cites => \E c \in DOMAIN claims : Citable(c)
  /\ Judged(v)
  /\ draft' = [draft EXCEPT !.report = Written(cites), !.verdict = v]
  /\ pc' = "review"
  /\ UNCHANGED <<run, pages, user, facts, conclusions, output, rounds, barred>>

\* Only a report that needs revision is written again, up to the limit.
Rewrite ==
  /\ At("review")
  /\ draft.verdict = "revision_required" /\ draft.rewrites + 1 < MaxRewrites
  /\ draft' = [draft EXCEPT !.rewrites = @ + 1]
  /\ pc' = "report"
  /\ UNCHANGED <<run, pages, user, facts, conclusions, output, rounds, barred>>

Publish == report' = draft.report /\ verdict' = draft.verdict /\ draft' = NoDraft

\* add_statement: a claim has one statement in the wiki.
Uncompiled == Backed \ ToSet(wiki)

\* compile_knowledge_for_run: a statement for each claim that has evidence and
\* is not there yet; done, in case of an exception, for some of them.
Compile(done) ==
  /\ At("review")
  /\ draft.verdict = "revision_required" => draft.rewrites + 1 >= MaxRewrites
  /\ done \subseteq Uncompiled
  /\ wiki' = wiki \o SetToSeq(done)
  /\ Publish
  /\ pc' = "finish"
  /\ UNCHANGED <<run, pages, user, facts, conclusions, rounds, barred>>

\* Mutant of TerminalGate: the verdict is not looked at.
TerminalGateOpen(wanted) == wanted

\* _apply_final_critic_terminal_gate on what evaluate_termination says.
TerminalGate(wanted) ==
  IF wanted = "completed" /\ \/ verdict = "revision_required"
                             \/ verdict \in {"blocked", "research_gap"} /\ evidence = <<>>
  THEN "failed" ELSE wanted

Finish(wanted) ==
  /\ At("finish")
  /\ status' = TerminalGate(wanted) /\ pc' = "idle"
  /\ UNCHANGED <<attempts, pages, user, facts, conclusions, output, draft, rounds, barred>>

-----------------------------------------------------------------------------
(* What else happens.                                                      *)

\* _ensure_active finds the run cancelled or its wall time used up.
Stop(s) ==
  /\ At(pc) /\ \/ pc \in {"research", "fetch", "extract", "correct"}
               \/ pc = "critic" /\ claims # <<>> /\ ~CriticPasses
  /\ status' = s /\ pc' = "idle"
  /\ UNCHANGED <<attempts, pages, user, facts, conclusions, output, draft, rounds, barred>>

\* An exception no phase catches: the run fails, and what the transaction holds
\* is committed with it.
FailRun ==
  /\ pc \in {"research", "correct", "critic", "report", "review", "finish"} /\ At(pc)
  /\ status' = "failed" /\ pc' = "idle"
  /\ IF draft.report = None THEN UNCHANGED <<report, verdict, draft>> ELSE Publish
  /\ UNCHANGED <<attempts, pages, user, facts, conclusions, wiki, rounds, barred>>

\* The database fails, or the session is beyond use already: the execution ends
\* without its open transaction, the run stays as it is.
Abort ==
  /\ pc # "idle"
  /\ pc' = "idle" /\ draft' = NoDraft
  /\ UNCHANGED <<run, pages, user, facts, conclusions, output, rounds, barred>>

\* The user excludes a source, or takes that back; once the run has ended nobody
\* looks at it.
EditPreference(s) ==
  /\ status = "running" /\ edits < MaxEdits
  /\ excluded' = IF s \in excluded THEN excluded \ {s} ELSE excluded \cup {s}
  /\ edits' = edits + 1
  /\ UNCHANGED <<run, pc, pages, facts, conclusions, output, draft, rounds, barred>>

-----------------------------------------------------------------------------

Execute ==
  \/ Start
  \/ \E new \in SUBSET Source :
       Research(new) \/ \E legal \in SUBSET Source : Fetch(legal, new)
  \/ \E selected \in SUBSET (Source \X Statement) :
       \E bare \in SUBSET selected : Extract(selected, bare)
  \/ Correct \/ Conclude \/ Critic \/ NoDecision
  \/ \E done \in SUBSET NewContradictions : Contradict(done)
  \/ \E some \in SUBSET (DOMAIN claims) :
       Verify(some) \/ Synthesize(some) \/ Compile(some)
  \/ \E cites \in BOOLEAN, v \in Verdict : WriteReport(cites, v)
  \/ Rewrite
  \/ \E wanted \in {"completed", "failed", "budget_exhausted"} : Finish(wanted)

Next ==
  \/ Execute
  \/ FailRun \/ Abort
  \/ \E some \in SUBSET (DOMAIN claims) : CorrectionFails(some)
  \/ \E s \in {"cancelled", "budget_exhausted"} : Stop(s)
  \/ \E s \in Source : EditPreference(s)

Spec == Init /\ [][Next]_vars

\* A worker claims the job while attempts are left and goes on with what it
\* executes, if only to find that its session is broken.
FairSpec == Spec /\ WF_vars(Execute \/ Abort)

-----------------------------------------------------------------------------
(* Properties.                                                             *)

\* No table has a unique key for these rows: executing the pipeline again, after
\* a failure between any two phases, finds and keeps the rows it has made.
NoDuplicateRecords ==
  /\ \A c, d \in DOMAIN claims :
       claims[c].source = claims[d].source /\ claims[c].statement = claims[d].statement => c = d
  /\ \A i, j \in DOMAIN evidence : evidence[i] = evidence[j] => i = j
  /\ IsInjective(contradictions) /\ IsInjective(wiki)

\* A decision is made only from claims with evidence that the verification which
\* came to them last let pass, none of a source that was excluded then: whatever
\* the model names, whatever an earlier execution or a verification that broke off
\* left behind.  A claim the last verification did not come to may be of a source
\* that has been excluded since.
DecisionSupported ==
  [][decision' # decision =>
       \A c \in decision' : /\ claims[c].status \in {"partial", "verified"}
                            /\ c \in Backed
                            /\ c \notin barred]_vars

\* A completed run has a report that its final critic let pass, or has evidence
\* and says what is missing.
CompletedIsDelivered ==
  status = "completed" =>
    /\ report # None
    /\ verdict \in {"pass", "blocked", "research_gap"}
    /\ verdict # "pass" => evidence # <<>>

\* Coverage rounds, rewrites and attempts are bounded: the run ends, or its job
\* has no attempt left.
PipelineEnds ==
  status = "running" ~> status # "running" \/ (pc = "idle" /\ attempts = MaxAttempts)

\* Worker executions are at least once "with domain idempotency"
\* (docs/architecture/RUNTIME_VERIFICATION_GATE.md:40): an execution never fails
\* because of a row that an earlier one has committed.
RetryTolerated == pc # "broken"
=============================================================================
