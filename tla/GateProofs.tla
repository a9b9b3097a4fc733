----------------------------- MODULE GateProofs -----------------------------
(***************************************************************************)
(* The checks of verify.py for every policy, every summary, every bundle   *)
(* of excerpts and every rule for rounding a tie.  The checks are made     *)
(* once: they still hold later (Accepted) because neither the bundle nor   *)
(* the summary changes before the next run, which forgets the verdict.     *)
(***************************************************************************)
EXTENDS Gate, TLAPS

Near(c, n) ==
    \/ 1000 * (Apart(c, n) - 5) <= RelTol * (n + 5)
    \/ Apart(c, n) <= 55

-----------------------------------------------------------------------------
(* The numbers of a state are numbers, and rounding moves them by 5 at     *)
(* most.                                                                   *)
LEMMA KnownNumbers ==
    ASSUME GateTypeOK
    PROVE  /\ \A n \in facts : n \in Numbers /\ n \in Int
           /\ \A s \in bundle : \A n \in NumbersIn[s] : n \in Numbers /\ n \in Nat
           /\ \A n \in Always : n \in Numbers /\ n \in Nat
<1>1. ASSUME NEW n \in facts PROVE n \in Numbers /\ n \in Int
  BY NumbersAssumption DEF GateTypeOK, Numbers
<1>2. ASSUME NEW s \in bundle, NEW n \in NumbersIn[s] PROVE n \in Numbers /\ n \in Nat
  <2>1. s \in Signals /\ NumbersIn[s] \in SUBSET Nat
    BY NumbersAssumption DEF GateTypeOK
  <2> QED BY <2>1 DEF Numbers
<1>3. ASSUME NEW n \in Always PROVE n \in Numbers /\ n \in Nat
  BY DEF Always, Numbers
<1> QED BY <1>1, <1>2, <1>3

LEMMA Rounding ==
    ASSUME NEW k \in Numbers, k \in Int, NEW n \in {k, Magnitude(k), Tenth(k)}
    PROVE  /\ n \in Int /\ Tenth(n) \in Int /\ Tenth(n) % 10 = 0
           /\ Tenth(n) - n <= 5 /\ n - Tenth(n) <= 5
<1>1. Tenth(k) \in Int /\ Tenth(n) \in Int /\ Tenth(n) % 10 = 0 /\ Apart(Tenth(n), n) <= 5
  BY TenthAssumption
<1>2. n \in Int
  BY <1>1 DEF Magnitude
<1> QED BY <1>1, <1>2 DEF Apart, Magnitude

(* Every number a claim is compared with is a source up to its sign and    *)
(* 0.05.                                                                   *)
LEMMA SummaryNumberHasSource ==
    ASSUME GateTypeOK, NEW m \in SummaryNumbers
    PROVE  /\ m \in Int
           /\ \E n \in Sources : n \in Nat /\ Apart(Magnitude(m), n) <= 5
<1>1. CASE m \in facts \/ \E n \in facts : m = Magnitude(n)
  <2>1. PICK n \in facts : m = n \/ m = Magnitude(n)
    BY <1>1
  <2>2. n \in Int /\ Magnitude(n) \in Sources
    BY KnownNumbers DEF Sources
  <2>3. m \in Int /\ Magnitude(n) \in Nat /\ Magnitude(m) = Magnitude(n)
    BY <2>1, <2>2 DEF Magnitude
  <2>4. Apart(Magnitude(m), Magnitude(n)) <= 5
    BY <2>3 DEF Apart, Magnitude
  <2> QED BY <2>2, <2>3, <2>4
<1>2. CASE \E n \in facts : m = Tenth(n)
  <2>1. PICK n \in facts : m = Tenth(n)
    BY <1>2
  <2>2. m \in Int /\ n \in Int /\ m - n <= 5 /\ n - m <= 5
    BY <2>1, KnownNumbers, Rounding
  <2>3. Magnitude(n) \in Sources
    BY DEF Sources
  <2>4. Magnitude(n) \in Nat /\ Apart(Magnitude(m), Magnitude(n)) <= 5
    BY <2>2 DEF Apart, Magnitude
  <2> QED BY <2>2, <2>3, <2>4
<1>3. CASE \E s \in bundle : m \in NumbersIn[s]
  BY <1>3, KnownNumbers DEF Sources, Apart, Magnitude
<1>4. CASE \E s \in bundle : \E n \in NumbersIn[s] : m = Tenth(n)
  <2>1. PICK s \in bundle : \E n \in NumbersIn[s] : m = Tenth(n)
    BY <1>4
  <2>2. PICK n \in NumbersIn[s] : m = Tenth(n)
    BY <2>1
  <2>3. m \in Int /\ n \in Nat /\ m - n <= 5 /\ n - m <= 5
    BY <2>2, KnownNumbers, Rounding
  <2>4. n \in Sources
    BY DEF Sources
  <2>5. Apart(Magnitude(m), n) <= 5
    BY <2>3 DEF Apart, Magnitude
  <2> QED BY <2>3, <2>4, <2>5
<1>5. CASE m \in Always
  <2>1. m \in Nat /\ m \in Sources
    BY <1>5, KnownNumbers DEF Sources
  <2> QED BY <2>1 DEF Apart, Magnitude
<1> QED BY <1>1, <1>2, <1>3, <1>4, <1>5 DEF SummaryNumbers

(* A claim the tolerance lets through is near a source.                    *)
LEMMA AcceptedIsNear ==
    ASSUME GateTypeOK, NEW c \in Nat, c \in Numbers, WithinTolerance(c)
    PROVE  \E n \in Sources : Near(c, n)
<1>1. PICK m \in SummaryNumbers : c = m \/ NearNumber(c, m) \/ Tenth(c) = Tenth(m)
  BY DEF WithinTolerance
<1>2. m \in Int /\ RelTol \in Nat
  BY SummaryNumberHasSource, NumbersAssumption
<1>3. PICK n \in Sources : n \in Nat /\ Apart(Magnitude(m), n) <= 5
  BY SummaryNumberHasSource
<1>4. Apart(c, n) - 5 <= Apart(c, m)
  BY <1>2, <1>3 DEF Apart, Magnitude
<1>5. Magnitude(m) <= n + 5 /\ Magnitude(m) \in Nat /\ Apart(c, n) \in Nat /\ Apart(c, m) \in Nat
  BY <1>2, <1>3 DEF Apart, Magnitude
<1>6. RelTol * Magnitude(m) <= RelTol * (n + 5)
  BY <1>2, <1>3, <1>5
<1>7. CASE c = m
  <2>1. Apart(c, m) = 0
    BY <1>2, <1>7 DEF Apart, Magnitude
  <2> QED BY <1>3, <1>4, <1>5, <2>1 DEF Near
<1>8. CASE NearNumber(c, m)
  <2>1. 1000 * Apart(c, m) <= RelTol * Magnitude(m) \/ Apart(c, m) <= 50
    BY <1>8 DEF NearNumber
  <2>2. CASE Apart(c, m) <= 50
    BY <1>3, <1>4, <1>5, <2>2 DEF Near
  <2>3. CASE 1000 * Apart(c, m) <= RelTol * Magnitude(m)
    <3>1. 1000 * (Apart(c, n) - 5) <= 1000 * Apart(c, m)
      BY <1>4, <1>5
    <3>2. RelTol * Magnitude(m) \in Nat /\ RelTol * (n + 5) \in Nat
      BY <1>2, <1>3, <1>5
    <3>3. 1000 * (Apart(c, n) - 5) <= RelTol * (n + 5)
      BY <3>1, <3>2, <1>5, <1>6, <2>3
    <3> QED BY <3>3 DEF Near
  <2> QED BY <2>1, <2>2, <2>3
<1>9. CASE Tenth(c) = Tenth(m)
  <2>1. \E k \in Numbers : k \in Int /\ m \in {k, Magnitude(k), Tenth(k)}
    BY KnownNumbers DEF SummaryNumbers
  <2>2. Tenth(m) \in Int /\ Tenth(m) - m <= 5 /\ m - Tenth(m) <= 5
    BY <2>1, Rounding
  <2>3. Tenth(c) - c <= 5 /\ c - Tenth(c) <= 5
    BY Rounding
  <2>4. Apart(c, m) <= 10
    BY <1>2, <1>9, <2>2, <2>3 DEF Apart, Magnitude
  <2> QED BY <1>3, <1>4, <1>5, <2>4 DEF Near
<1> QED BY <1>1, <1>7, <1>8, <1>9

-----------------------------------------------------------------------------
Accepted == result = "passed" => \A v \in verdict : Passes(v)

GateInv == GateTypeOK /\ Accepted

LEMMA GateInvStep == GateInv /\ [Next]_vars => GateInv'
<1> SUFFICES ASSUME GateInv, [Next]_vars PROVE GateInv'
  OBVIOUS
<1> USE DEF GateInv
<1>1. ASSUME NEW s \in Signals, Retrieve(s) PROVE GateInv'
  BY <1>1 DEF Retrieve, GateTypeOK, Accepted
<1>2. ASSUME NEW v \in Verdicts, Synthesize(v) PROVE GateInv'
  BY <1>2 DEF Synthesize, GateTypeOK, Accepted
<1>3. CASE Verify
  <2>1. GateTypeOK'
    BY <1>3 DEF Verify, GateTypeOK
  <2>2. ASSUME NEW v \in Verdicts PROVE Passes(v)' = Passes(v)
    BY <1>3 DEF Verify, Passes, NumericDiagnostics, CitationDiagnostics, WithinTolerance,
                SummaryNumbers, CitableIds
  <2>3. Accepted'
    BY <1>3, <2>2 DEF Verify, GateTypeOK, Accepted
  <2> QED BY <2>1, <2>3
<1>4. ASSUME NEW f \in Summaries, Rerun(f) PROVE GateInv'
  BY <1>4 DEF Rerun, GateTypeOK, Accepted
<1>5. CASE UNCHANGED vars
  BY <1>5 DEF vars, GateTypeOK, Accepted, Passes, NumericDiagnostics, CitationDiagnostics,
              WithinTolerance, SummaryNumbers, CitableIds
<1> QED BY <1>1, <1>2, <1>3, <1>4, <1>5 DEF Next

(* Every variable keeps its type, a decision has a verdict, and an         *)
(* accepted verdict is one the checks hold of, now and not only then.      *)
THEOREM GateCorrect == Spec => []GateInv
<1>1. Init => GateInv
  BY DEF Init, GateInv, GateTypeOK, Accepted
<1> QED BY <1>1, GateInvStep, PTL DEF Spec

(* The numbers in play, the bundle and the verdict keep their types.       *)
THEOREM GateTypeCorrect == Spec => []GateTypeOK
<1>1. GateInv => GateTypeOK
  BY DEF GateInv
<1> QED BY <1>1, GateCorrect, PTL

(* A number in an accepted verdict is a year or near a source.             *)
THEOREM NoInventedNumber == Spec => []InventedNumberIsRefused
<1>1. GateInv => InventedNumberIsRefused
  <2> SUFFICES ASSUME GateInv, result = "passed", NEW v \in verdict, NEW c \in v.claims,
                      ~IsYear(c)
               PROVE  \E n \in Sources : Near(c.value, n)
    BY DEF InventedNumberIsRefused, Near
  <2>1. v \in Verdicts /\ Passes(v)
    BY DEF GateInv, GateTypeOK, Accepted
  <2>2. c.value \in Nat /\ c.value \in Numbers
    <3>1. c \in UNION {w.claims : w \in Verdicts}
      BY <2>1
    <3> QED BY <2>1, <3>1, VerdictsAssumption DEF Numbers
  <2>3. CASE c.value \in Always
    <3>1. c.value \in Sources /\ Apart(c.value, c.value) = 0
      BY <2>2, <2>3 DEF Sources, Apart, Magnitude
    <3> QED BY <3>1 DEF Near
  <2>4. CASE WithinTolerance(c.value)
    BY <2>2, <2>4, AcceptedIsNear DEF GateInv
  <2> QED BY <2>1, <2>3, <2>4 DEF Passes, NumericDiagnostics
<1> QED BY <1>1, GateCorrect, PTL

-----------------------------------------------------------------------------
(* What the bundle supports, a larger one supports.                        *)
LEMMA MoreSupport ==
    ASSUME bundle \subseteq bundle', facts' = facts, NEW v, Passes(v)
    PROVE  Passes(v)'
<1>1. SummaryNumbers \subseteq SummaryNumbers'
  BY DEF SummaryNumbers
<1>2. CitableIds \subseteq CitableIds'
  BY DEF CitableIds
<1>3. ASSUME NEW n, WithinTolerance(n) PROVE WithinTolerance(n)'
  BY <1>1, <1>3 DEF WithinTolerance
<1>4. NumericDiagnostics(v)' = {}
  BY <1>3 DEF Passes, NumericDiagnostics
<1>5. CitationDiagnostics(v)' = {}
  BY <1>2 DEF Passes, CitationDiagnostics
<1> QED BY <1>4, <1>5 DEF Passes

(* More excerpts never turn an acceptance into a refusal.                  *)
THEOREM MoreSignalsAreSafe == Spec => MoreSignalsNeverRefuse
<1>1. [Next]_vars => [bundle \subseteq bundle' /\ facts' = facts =>
                        \A v \in Verdicts : Passes(v) => Passes(v)']_vars
  BY MoreSupport
<1> QED BY <1>1, PTL DEF Spec, MoreSignalsNeverRefuse

(* The numbers the provider was given may be quoted rounded.               *)
THEOREM HonestQuotesAreAccepted == Spec => []HonestQuoteIsAccepted
<1>1. GateInv => HonestQuoteIsAccepted
  <2> SUFFICES ASSUME GateInv, NEW n \in Sources, NEW q \in HonestQuotes(n)
               PROVE  WithinTolerance(q)
    BY DEF HonestQuoteIsAccepted
  <2>1. n \in Nat /\ n \in SummaryNumbers
    BY KnownNumbers DEF GateInv, Sources, SummaryNumbers, Magnitude
  <2>2. q \in Nat
    BY VerdictsAssumption DEF HonestQuotes
  <2>3. CASE q = n
    BY <2>1, <2>3 DEF WithinTolerance
  <2>4. CASE q = Tenth(n)
    <3>1. n \in Numbers \/ \E k \in Numbers : k \in Int /\ n = Magnitude(k)
      BY KnownNumbers DEF GateInv, Sources
    <3>2. Tenth(n) % 10 = 0 /\ Tenth(n) - n <= 5 /\ n - Tenth(n) <= 5
      <4>1. \E k \in Numbers : k \in Int /\ n \in {k, Magnitude(k), Tenth(k)}
        BY <2>1, <3>1
      <4> QED BY <4>1, Rounding
    <3>3. CASE n = 0
      <4>1. q = 0
        <5>1. q % 10 = 0 /\ q - n <= 5
          BY <2>4, <3>2
        <5>2. \A k \in Nat : k <= 5 /\ k # 0 => k % 10 # 0
          BY SMT
        <5> QED BY <2>2, <3>3, <5>1, <5>2
      <4> QED BY <2>1, <3>3, <4>1 DEF WithinTolerance
    <3>4. CASE n # 0
      <4>1. Apart(q, n) <= 50
        BY <2>1, <2>2, <2>4, <3>2 DEF Apart, Magnitude
      <4> QED BY <2>1, <3>4, <4>1 DEF WithinTolerance, NearNumber
    <3> QED BY <3>3, <3>4
  <2>5. CASE q % 100 = 0 /\ Apart(q, n) <= 50
    <3>1. CASE n = 0
      BY <2>2, <2>5, <3>1 DEF Apart, Magnitude, WithinTolerance, SummaryNumbers, Always
    <3>2. CASE n # 0
      BY <2>1, <2>5, <3>2 DEF WithinTolerance, NearNumber
    <3> QED BY <3>1, <3>2
  <2> QED BY <2>3, <2>4, <2>5 DEF HonestQuotes
<1> QED BY <1>1, GateCorrect, PTL
=============================================================================
