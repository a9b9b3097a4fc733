-------------------------------- MODULE Gate --------------------------------
(***************************************************************************)
(* src/challenge/verify.py: the checks behind Pipeline's Grounded.  Runs   *)
(* follow one another for an account; each has the numbers of its summary, *)
(* is given excerpts one by one (the bundle), receives a verdict and       *)
(* decides.                                                                *)
(*                                                                         *)
(* Numbers are integers in hundredths.  A token of the prose is a value    *)
(* and whether it is plain, that is, has no decimals: only a plain token   *)
(* of four digits can be a year.  An id is a model value; Contains says    *)
(* which id's text contains which.  The messages and the evidence of       *)
(* derive_rule_flags name no id, so that the bundle is the only source.    *)
(***************************************************************************)
EXTENDS Integers

CONSTANTS
    Summaries,   \* sets of numbers an AccountSummary may hold
    Signals,     \* excerpts retrieve_signals may select
    NumbersIn,   \* the numbers in the text of an excerpt
    IdsIn,       \* its id, the entity ids in that id, and those in its text
    Ids,         \* entity ids of the source data and of a provider's mind
    Contains,    \* Contains[big] is the set of ids whose text is within big's
    Verdicts,    \* schema-valid verdicts
    Tenth(_),    \* round(v, 1): how a tie is rounded depends on the binary value
    RelTol,      \* relative_tolerance in thousandths, 5 in renewal.yaml
    Years,       \* year_range
    MinChars     \* narrative_min_chars

(* numbers.update({0.0, 1.0, 2.0, 3.0}), and small_numbers_tolerated.      *)
Always == {0, 100, 200, 300}

Magnitude(n) == IF n < 0 THEN -n ELSE n
Apart(m, n)  == Magnitude(m - n)

(* Every number the checks may meet.                                       *)
Numbers ==
    (UNION Summaries) \cup (UNION {NumbersIn[s] : s \in Signals})
        \cup {c.value : c \in UNION {v.claims : v \in Verdicts}} \cup Always

ASSUME NumbersAssumption ==
    /\ Summaries \subseteq SUBSET Int
    /\ NumbersIn \in [Signals -> SUBSET Nat]
    /\ RelTol \in Nat /\ Years \subseteq Nat /\ MinChars \in Nat

ASSUME TenthAssumption ==
    \A k \in Numbers : \A n \in {k, Magnitude(k), Tenth(k)} :
        Tenth(n) \in Int /\ Tenth(n) % 10 = 0 /\ Apart(Tenth(n), n) <= 5

ASSUME IdsAssumption ==
    /\ IdsIn \in [Signals -> SUBSET Ids]
    /\ Contains \in [Ids -> SUBSET Ids]
    /\ \A i \in Ids : i \in Contains[i]

(* What RenewalVerdict's schema leaves open: tokens and ids of the prose,  *)
(* the ids of the talking points' cites, the length of the narrative.      *)
ASSUME VerdictsAssumption ==
    \A v \in Verdicts :
        /\ v.claims \subseteq [value : Nat, plain : BOOLEAN]
        /\ v.entities \subseteq Ids
        /\ v.cites \subseteq Ids
        /\ v.chars \in Nat

VARIABLES
    facts,    \* the numbers of the summary
    bundle,   \* the excerpts selected so far
    verdict,  \* the verdict to be checked, if there is one: a set of at most one
    result    \* VerificationResult.passed

vars == <<facts, bundle, verdict, result>>

GateTypeOK ==
    /\ facts \in Summaries
    /\ bundle \subseteq Signals
    /\ verdict \in {{}} \cup {{v} : v \in Verdicts}
    /\ result \in {"none", "passed", "failed"}
    /\ result # "none" => verdict # {}

-----------------------------------------------------------------------------
(* _summary_numbers: of the summary the number, its roundings and its      *)
(* magnitude (dates are not walked), of an excerpt the number and its      *)
(* roundings.                                                              *)
SummaryNumbers ==
    facts \cup {Tenth(n) : n \in facts} \cup {Magnitude(n) : n \in facts}
    \cup (UNION {NumbersIn[s] \cup {Tenth(n) : n \in NumbersIn[s]} : s \in bundle})
    \cup Always

(* Mutant: a number is only ever compared relatively.                      *)
NearNumberRelative(claim, n) == n # 0 /\ 1000 * Apart(claim, n) <= RelTol * Magnitude(n)

(* Mutant: the relative tolerance is read as a percentage.                 *)
NearNumberPercent(claim, n) ==
    n # 0 /\ \/ 100 * Apart(claim, n) <= RelTol * Magnitude(n)
             \/ Apart(claim, n) <= 50

(* abs(claim - s) <= max(abs(s) * rel_tol, 0.5)                            *)
NearNumber(claim, n) ==
    n # 0 /\ \/ 1000 * Apart(claim, n) <= RelTol * Magnitude(n)
             \/ Apart(claim, n) <= 50

(* The last loop compares the tenths, which are equal or 0.1 apart.        *)
WithinTolerance(claim) ==
    \/ claim \in SummaryNumbers
    \/ \E n \in SummaryNumbers : NearNumber(claim, n)
    \/ \E n \in SummaryNumbers : Tenth(claim) = Tenth(n)

IsYear(c) == c.plain /\ c.value % 100 = 0 /\ c.value \div 100 \in Years

CitableIds == UNION {IdsIn[s] : s \in bundle}

NumericDiagnostics(v) ==
    {c \in v.claims : c.value \notin Always /\ ~IsYear(c) /\ ~WithinTolerance(c.value)}

(* Mutant: the first excerpt without the id decides.                       *)
CitationDiagnosticsFirst(v) ==
    {e \in v.entities :
        bundle = {} \/ \E s \in bundle : ~\E i \in IdsIn[s] : e \in Contains[i]}

CitationDiagnostics(v) ==
    {e \in v.entities : ~\E i \in CitableIds : e \in Contains[i]}

Passes(v) ==
    /\ NumericDiagnostics(v) = {}
    /\ CitationDiagnostics(v) = {}
    /\ v.cites # {}
    /\ v.chars >= MinChars

-----------------------------------------------------------------------------
Init ==
    /\ facts \in Summaries
    /\ bundle = {} /\ verdict = {} /\ result = "none"

(* retrieve_signals puts another excerpt into the bundle.                  *)
Retrieve(s) ==
    /\ verdict = {} /\ s \notin bundle
    /\ bundle' = bundle \cup {s}
    /\ UNCHANGED <<facts, verdict, result>>

(* synthesize_verdict returns.                                             *)
Synthesize(v) ==
    /\ verdict = {}
    /\ verdict' = {v}
    /\ UNCHANGED <<facts, bundle, result>>

(* Mutant: decides without waiting for a verdict.                          *)
VerifyNothing ==
    /\ result = "none"
    /\ result' = IF \A v \in verdict : Passes(v) THEN "passed" ELSE "failed"
    /\ UNCHANGED <<facts, bundle, verdict>>

Verify ==
    /\ verdict # {} /\ result = "none"
    /\ result' = IF \A v \in verdict : Passes(v) THEN "passed" ELSE "failed"
    /\ UNCHANGED <<facts, bundle, verdict>>

(* The next run, on other data.                                            *)
Rerun(f) ==
    /\ result # "none"
    /\ facts' = f
    /\ bundle' = {} /\ verdict' = {} /\ result' = "none"

Next ==
    \/ \E s \in Signals : Retrieve(s)
    \/ \E v \in Verdicts : Synthesize(v)
    \/ Verify
    \/ \E f \in Summaries : Rerun(f)

Spec == Init /\ [][Next]_vars

-----------------------------------------------------------------------------
(* Properties.                                                             *)

(* A hallucinated number is refused: one in an accepted verdict that is    *)
(* not a year is at most 0.5 or RelTol away from a number of the summary   *)
(* or of an excerpt, taken without its sign, or from 0 to 3.  The sources  *)
(* are rounded to tenths too, which adds 0.05.                             *)
Sources ==
    {Magnitude(n) : n \in facts} \cup (UNION {NumbersIn[s] : s \in bundle}) \cup Always

InventedNumberIsRefused ==
    result = "passed" =>
        \A v \in verdict : \A c \in v.claims :
            IsYear(c) \/ \E n \in Sources :
                \/ 1000 * (Apart(c.value, n) - 5) <= RelTol * (n + 5)
                \/ Apart(c.value, n) <= 55

(* An honest narrative is not refused for how it rounds: every number of   *)
(* the summary or of an excerpt may be quoted exactly, to tenths or to     *)
(* units, without its sign.                                                *)
HonestQuotes(n) == {q \in {c.value : c \in UNION {v.claims : v \in Verdicts}} :
                        q = n \/ q = Tenth(n) \/ (q % 100 = 0 /\ Apart(q, n) <= 50)}

HonestQuoteIsAccepted == \A n \in Sources : \A q \in HonestQuotes(n) : WithinTolerance(q)

(* Showing the provider more never makes the gate refuse what it would     *)
(* have accepted.                                                          *)
MoreSignalsNeverRefuse ==
    [][bundle \subseteq bundle' /\ facts' = facts =>
           \A v \in Verdicts : Passes(v) => Passes(v)']_vars

(* signals.py, "so the verifier in Stage 6 can confirm that any cited      *)
(* TextSignal actually exists": what a talking point cites was shown to    *)
(* the provider.                                                           *)
CitedSignalExists ==
    result = "passed" =>
        \A v \in verdict : \A e \in v.cites : \E i \in CitableIds : e \in Contains[i]
=============================================================================
