------------------------------ MODULE Coverage ------------------------------
(***************************************************************************)
(* How a run judges what it has found.  The goal is decomposed into a      *)
(* contract of requirements; evaluate_coverage compares them with the      *)
(* sources and verified claims of the run, and what it calls unresolved    *)
(* decides about further rounds, about PASS and about what the report      *)
(* says is missing.                                                        *)
(*                                                                         *)
(* The text of a claim is reduced to what the checks look for in it: the   *)
(* requirements it is attributed to and its facets, a number, a side of a  *)
(* comparison, a year or a kind of study.  A claim that is found again by  *)
(* another query, and may then be about more, is another claim here.  Why  *)
(* a requirement is open (what was searched, admitted, fetched) is left    *)
(* out.                                                                    *)
(***************************************************************************)
EXTENDS Naturals, FiniteSets, SequencesExt

CONSTANTS
  Goals,     \* the contracts that goals are decomposed into
  Page, Claim,
  ClassOf,   \* the class of a page's source
  On,        \* the page a claim is found on
  Supports,  \* the requirements a claim is about, by its text or its query
  Shows      \* the facets a claim and its quote show

\* A fact is any kind that coverage treats alike.
RequirementKind == {"fact", "comparison", "timeline", "dependency", "source_policy",
                    "synthesis", "output_format"}

\* Requirements that a verified date or office holder may stand for.
Structured == {"R_president", "R_timeline"}

\* What _decompose_requirements yields: the objective comes first; an output format
\* is secondary; what dates and office holders may stand for are facts and
\* timelines; only the guidance waits for another requirement, the office holder,
\* which waits for nothing.
Decomposed(c) ==
  /\ c # <<>> /\ c[1].id = "R0" /\ c[1].deps = {}
  /\ \A i \in DOMAIN c :
       /\ c[i].kind \in RequirementKind
       /\ \A j \in DOMAIN c : c[i].id = c[j].id => i = j
       /\ c[i].kind = "output_format" => ~c[i].central
       /\ c[i].id \in Structured => c[i].kind \in {"fact", "timeline"}
       /\ c[i].deps # {} => c[i].id = "R_gpai_guidance" /\ c[i].deps = {"R_president"}
       /\ c[i].id = "R_president" => c[i].deps = {}

ASSUME CoverageAssumption ==
  /\ \A c \in Goals : Decomposed(c)
  /\ On \in [Claim -> Page]

VARIABLES
  contract,  \* the requirements of the run
  sources,   \* pages whose source is admitted
  verified,  \* claims with evidence that verification let pass
  resolved,  \* requirements that a verified date or office holder stands for
  connected  \* a task of the plan depends on others, and they exist

coverageVars == <<contract, sources, verified, resolved, connected>>

CoverageInit ==
  /\ contract \in Goals
  /\ sources = {} /\ verified = {} /\ resolved = {} /\ connected = FALSE

-----------------------------------------------------------------------------
(* evaluate_coverage.                                                      *)

Supporting(r) == {c \in verified : r.id \in Supports[c]}

\* Mutant of AdequatePortfolio: no source may be of another class.
AdequatePortfolioOnly(r, classes) ==
  classes # {} /\ (r.classes # {} => classes \subseteq r.classes)

\* source_portfolio_is_adequate: a source of an expected class; of any, if none
\* is expected.
AdequatePortfolio(r, classes) ==
  IF r.classes = {} THEN classes # {} \/ r.kind \in {"output_format", "synthesis"}
                    ELSE r.classes \cap classes # {}

\* There is something to support it: the shape of the plan, a verified date or
\* office holder, the sources there are, or claims that are about it.
Founded(r) ==
  \/ r.kind = "dependency" /\ connected
  \/ r.id \in resolved
  \/ r.kind = "source_policy" /\ AdequatePortfolio(r, {ClassOf[p] : p \in sources})
  \/ r.kind # "source_policy" /\ Supporting(r) # {}

\* The number, the sides and the years that are asked for, one of the kinds of
\* study, and a source of an adequate class.
Substantiated(r) ==
  LET claims == Supporting(r)
      shown == UNION {Shows[c] : c \in claims}
  IN
  /\ r.facets \subseteq shown
  /\ r.studies # {} => r.studies \cap shown # {}
  /\ \/ r.kind \in {"source_policy", "dependency"}
     \/ AdequatePortfolio(r, {ClassOf[On[c]] : c \in claims})

\* An output format is judged on the report, everything else on the evidence.
Applicable == {i \in DOMAIN contract : contract[i].kind # "output_format"}

\* evaluate_coverage: what is founded and substantiated; of it, what does not wait
\* for an open requirement (one pass will do: what is waited for does not wait);
\* and the objective when, and only when, all that is central to it is.
Supported ==
  LET checked == {i \in Applicable : Founded(contract[i]) /\ Substantiated(contract[i])}
      blocked == {i \in DOMAIN contract : \E j \in DOMAIN contract \ checked :
                    contract[j].id \in contract[i].deps}
      held == checked \ blocked
      central == {i \in Applicable \ {1} : contract[i].central}
  IN CASE central = {} -> held
       [] central # {} /\ central \subseteq held -> held \cup {1}
       [] OTHER -> held \ {1}

Unresolved == Applicable \ Supported

-----------------------------------------------------------------------------
(* What a run finds, in any order.                                         *)

AdmitSource(p) ==
  /\ p \notin sources
  /\ sources' = sources \cup {p}
  /\ UNCHANGED <<contract, verified, resolved, connected>>

\* Every claim is verified again and may fail now; new ones are of pages that
\* were admitted.
VerifyClaims(passed) ==
  /\ \A c \in passed : On[c] \in sources
  /\ passed # verified
  /\ verified' = passed
  /\ UNCHANGED <<contract, sources, resolved, connected>>

\* Dates and office holders are looked for again on every page, and the first
\* thirty dates replace those before: a date that was there may be gone.
ResolveStructured(ids) ==
  /\ ids # resolved
  /\ sources # {}
  /\ resolved' = ids
  /\ UNCHANGED <<contract, sources, verified, connected>>

ConnectTasks ==
  /\ ~connected
  /\ connected' = TRUE
  /\ UNCHANGED <<contract, sources, verified, resolved>>

CoverageNext ==
  \/ \E p \in Page : AdmitSource(p)
  \/ \E passed \in SUBSET Claim : VerifyClaims(passed)
  \/ \E ids \in SUBSET Structured : ResolveStructured(ids)
  \/ ConnectTasks

CoverageSpec == CoverageInit /\ [][CoverageNext]_coverageVars

-----------------------------------------------------------------------------
CoverageTypeOK ==
  /\ contract \in Goals
  /\ sources \subseteq Page /\ verified \subseteq Claim /\ resolved \subseteq Structured
  /\ connected \in BOOLEAN

\* Finding more never uncovers anything: unless a claim loses its verification, a
\* requirement that was resolved stays so, whatever the new sources and claims say
\* of it or of those it depends on, the objective with it, and even if the date
\* that stood for it is gone: what resolved it has claims besides.  Otherwise a
\* round that found something could keep a run from passing that would have
\* passed without it.
EvidenceNeverHurts ==
  [][verified \subseteq verified' => Unresolved' \subseteq Unresolved]_coverageVars
=============================================================================
