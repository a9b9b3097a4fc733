---------------------------- MODULE EnrichProofs ----------------------------
(***************************************************************************)
(* Stages 1 to 4 for every export, rule file and calendar: what Attribution*)
(* promises carries over to them; what is dropped is counted; what is      *)
(* known of a spelling is kept, and drift is seen; and the signals and the *)
(* summary agree about open tickets.                                       *)
(***************************************************************************)
EXTENDS Enrich, AttributionProofs

-----------------------------------------------------------------------------
(* Steps of Enrich are steps of Attribution, or leave it alone.            *)
LEMMA EnrichStepIsStep == [EnrichNext]_enrichVars => [Next]_vars
<1> SUFFICES ASSUME [EnrichNext]_enrichVars PROVE Next \/ UNCHANGED vars
  OBVIOUS
<1>1. ASSUME NEW r \in Rows, BookRow(r) PROVE Next
  BY <1>1 DEF BookRow, Next
<1>2. ASSUME NEW r \in OtherRows, AppendRow(r) PROVE Next
  BY <1>2 DEF AppendRow, Next
<1>3. ASSUME NEW m \in Malformed, Garble(m) PROVE UNCHANGED vars
  BY <1>3 DEF Garble, vars
<1>4. ASSUME NEW v, NEW k, Confirm(v, k) PROVE UNCHANGED vars
  BY <1>4 DEF Confirm, vars
<1>5. ASSUME NEW k, AddName(k) PROVE UNCHANGED vars
  BY <1>5 DEF AddName, vars
<1>6. ASSUME NextDay PROVE UNCHANGED vars
  BY <1>6 DEF NextDay, vars
<1>7. ASSUME NEW a \in Accounts, RunEnriches(a) PROVE Next
  BY <1>7 DEF RunEnriches, Next
<1>8. ASSUME NEW a \in Accounts, RunRaises(a) PROVE Next
  BY <1>8 DEF RunRaises, Next
<1>9. CASE UNCHANGED enrichVars
  BY <1>9 DEF enrichVars, vars
<1> QED BY <1>1, <1>2, <1>3, <1>4, <1>5, <1>6, <1>7, <1>8, <1>9 DEF EnrichNext

-----------------------------------------------------------------------------
(* Spellings.                                                              *)

(* What each tier of normalise_value gives, and which values it is for.    *)
LEMMA Tiers ==
    ASSUME NEW f, IsRule(f), NEW v \in Names \cup {Blank}
    PROVE  LET o == Normalise(v, f)
           IN  /\ o \in [to : Names \cup {Blank}, tier : {"known", "alias", "fuzzy", "unknown"}]
               /\ o.tier = "known" => v \in f.known \cup {Blank}
               /\ v \in f.known \cup {Blank} => o = Outcome(v, "known")
               /\ o.tier = "alias" => v \in DOMAIN f.aliases
               /\ v \in DOMAIN f.aliases \ f.known => o = Outcome(f.aliases[v], "alias")
               /\ o.tier = "fuzzy" => o.to \in f.known
               /\ o.tier = "unknown" => o.to = v
<1> DEFINE k == CHOOSE x \in Similar(v, f) : TRUE
<1>1. f.known \subseteq Names /\ DOMAIN f.aliases \subseteq Names
  BY DEF IsRule
<1>2. ASSUME NEW w \in DOMAIN f.aliases PROVE f.aliases[w] \in Names
  BY <1>2 DEF IsRule
<1>3. Blank \notin Names
  BY CanonicalAssumption
<1>4. Similar(v, f) # {} => k \in f.known
  BY DEF Similar, Closest
<1>5. Outcome(v, "known") = [to |-> v, tier |-> "known"]
  BY DEF Outcome
<1>6. CASE v \in f.known \cup {Blank}
  BY <1>1, <1>3, <1>6 DEF Normalise, Outcome
<1>7. CASE v \notin f.known \cup {Blank} /\ v \in DOMAIN f.aliases
  BY <1>1, <1>2, <1>7 DEF Normalise, Outcome
<1>8. CASE v \notin f.known \cup {Blank} /\ v \notin DOMAIN f.aliases /\ Similar(v, f) # {}
  <2>1. Normalise(v, f) = [to |-> k, tier |-> "fuzzy"]
    BY <1>8 DEF Normalise, Outcome
  <2> HIDE DEF k
  <2> QED BY <1>1, <1>4, <1>8, <2>1
<1>9. CASE v \notin f.known \cup {Blank} /\ v \notin DOMAIN f.aliases /\ Similar(v, f) = {}
  BY <1>1, <1>9 DEF Normalise, Outcome
<1> QED BY <1>6, <1>7, <1>8, <1>9

(* People only add to the rule file.                                       *)
LEMMA RuleGrows ==
    ASSUME IsRule(rule), [EnrichNext]_enrichVars
    PROVE  /\ IsRule(rule)'
           /\ rule.known \subseteq rule'.known
           /\ \A v \in DOMAIN rule.aliases :
                 v \in DOMAIN rule'.aliases /\ rule'.aliases[v] = rule.aliases[v]
<1>1. ASSUME NEW v \in Names, NEW k \in Names, Confirm(v, k)
      PROVE  /\ IsRule(rule)'
             /\ rule.known \subseteq rule'.known
             /\ \A w \in DOMAIN rule.aliases :
                   w \in DOMAIN rule'.aliases /\ rule'.aliases[w] = rule.aliases[w]
  <2> DEFINE more == [w \in DOMAIN rule.aliases \cup {v} |->
                        IF w = v THEN k ELSE rule.aliases[w]]
  <2>1. rule = [known |-> rule.known, aliases |-> rule.aliases]
    BY DEF IsRule
  <2>2. v \notin DOMAIN rule.aliases /\ rule' = [rule EXCEPT !.aliases = more]
    BY <1>1 DEF Confirm
  <2>3. /\ DOMAIN more = DOMAIN rule.aliases \cup {v}
        /\ \A w \in DOMAIN rule.aliases : v # w => more[w] = rule.aliases[w]
        /\ more \in [DOMAIN more -> Names]
    BY DEF IsRule
  <2> HIDE DEF more
  <2>4. rule' = [known |-> rule.known, aliases |-> more]
    BY <2>1, <2>2
  <2> QED BY <2>2, <2>3, <2>4 DEF IsRule
<1>2. ASSUME NEW k \in Names, AddName(k)
      PROVE  /\ IsRule(rule)'
             /\ rule.known \subseteq rule'.known /\ rule'.aliases = rule.aliases
  <2>1. rule = [known |-> rule.known, aliases |-> rule.aliases]
    BY DEF IsRule
  <2>2. rule' = [known |-> rule.known \cup {k}, aliases |-> rule.aliases]
    BY <1>2, <2>1 DEF AddName
  <2> QED BY <2>2 DEF IsRule
<1>3. ASSUME rule' = rule PROVE IsRule(rule)'
  BY <1>3 DEF IsRule
<1>4. Aliases \subseteq Names \X Names /\ NewNames \subseteq Names
  BY EnrichAssumption
<1>5. CASE \E p \in Aliases : Confirm(p[1], p[2])
  BY <1>1, <1>4, <1>5
<1>6. CASE \E k \in NewNames : AddName(k)
  BY <1>2, <1>4, <1>6
<1>7. CASE rule' = rule
  BY <1>3, <1>7
<1> QED BY <1>5, <1>6, <1>7
        DEF EnrichNext, enrichVars, growth, BookRow, AppendRow, Garble, NextDay, RunEnriches,
            RunRaises

-----------------------------------------------------------------------------
(* Loading.                                                                *)

LEMMA RowsAreFinite ==
    ASSUME EnrichTypeOK
    PROVE  /\ IsFiniteSet(billing \cup others) /\ IsFiniteSet(malformed)
           /\ billing \cup others \subseteq Rows \cup OtherRows
           /\ IsFiniteSet(Rows \cup OtherRows)
<1>1. IsFiniteSet(Rows \cup OtherRows)
  BY FS_Union, EnrichAssumption
<1>2. billing \cup others \subseteq Rows \cup OtherRows /\ malformed \subseteq Malformed
  BY DEF EnrichTypeOK, TypeOK
<1> QED BY <1>1, <1>2, FS_Subset, EnrichAssumption

(* The rows of a file and those skipped take a line each at least; just as *)
(* many lines as they are when none takes more.                            *)
LEMMA LinesAreCounted ==
    ASSUME NEW S, IsFiniteSet(S), \A r \in S : r.lines \in Nat \ {0}
    PROVE  /\ Cardinality(LinesOf(S)) \in Nat
           /\ Cardinality(S) <= Cardinality(LinesOf(S))
           /\ (\A r \in S : r.lines = 1) => Cardinality(LinesOf(S)) = Cardinality(S)
<1> DEFINE firsts == {<<r, 1>> : r \in S}
           f == [r \in S |-> <<r, 1>>]
<1>1. IsFiniteSet(LinesOf(S))
  <2>1. ASSUME NEW r \in S PROVE IsFiniteSet({r} \X (1..r.lines))
    <3>1. IsFiniteSet({r}) /\ IsFiniteSet(1..r.lines)
      BY FS_Singleton, FS_Interval, r.lines \in Int, 1 \in Int
    <3> QED BY <3>1, FS_Product
  <2> DEFINE parts == {{r} \X (1..r.lines) : r \in S}
         g == [r \in S |-> {r} \X (1..r.lines)]
  <2>2. g \in Surjection(S, parts)
    BY DEF Surjection
  <2>3. IsFiniteSet(parts)
    BY <2>2, FS_Surjection
  <2> QED BY <2>1, <2>3, FS_UNION DEF LinesOf
<1>2. firsts \subseteq LinesOf(S)
  BY DEF LinesOf
<1>3. f \in Bijection(S, firsts)
  BY DEF Bijection, Injection, IsInjective, Surjection
<1>4. Cardinality(firsts) = Cardinality(S)
  BY <1>3, FS_Bijection DEF ExistsBijection
<1>5. (\A r \in S : r.lines = 1) => LinesOf(S) = firsts
  BY DEF LinesOf
<1> QED BY <1>1, <1>2, <1>4, <1>5, FS_Subset, FS_CardinalityType

LEMMA DropsAreCounted ==
    ASSUME EnrichTypeOK, NEW src \in Files
    PROVE  /\ Dropped(src) \in Nat
           /\ Cardinality(Skipped(src)) <= Dropped(src)
           /\ (\A r \in File(src) \cup Skipped(src) : r.lines = 1) =>
                 Dropped(src) = Cardinality(Skipped(src))
<1> DEFINE F == File(src)
           S == Skipped(src)
<1>1. /\ IsFiniteSet(F) /\ IsFiniteSet(S) /\ F \cap S = {}
      /\ \A r \in F \cup S : r.lines \in Nat \ {0}
  <2>1. /\ F \subseteq Rows \cup OtherRows /\ S \subseteq Malformed
        /\ F \subseteq billing \cup others /\ S \subseteq malformed
    BY RowsAreFinite DEF File, Skipped, EnrichTypeOK
  <2> HIDE DEF F, S
  <2> QED BY <2>1, RowsAreFinite, FS_Subset, EnrichAssumption
<1> HIDE DEF F, S
<1>2. /\ IsFiniteSet(F \cup S) /\ Cardinality(F) \in Nat /\ Cardinality(S) \in Nat
      /\ Cardinality(F \cup S) = Cardinality(F) + Cardinality(S)
  <2>1. Cardinality(F) \in Nat /\ Cardinality(S) \in Nat
    BY <1>1, FS_CardinalityType
  <2>2. Cardinality(F \cap S) = 0
    BY <1>1, FS_EmptySet
  <2>3. /\ IsFiniteSet(F \cup S)
        /\ Cardinality(F \cup S) = Cardinality(F) + Cardinality(S) - Cardinality(F \cap S)
    BY <1>1, FS_Union
  <2> QED BY <2>1, <2>2, <2>3
<1>3. /\ Cardinality(LinesOf(F \cup S)) \in Nat
      /\ Cardinality(F \cup S) <= Cardinality(LinesOf(F \cup S))
      /\ (\A r \in F \cup S : r.lines = 1) => Cardinality(LinesOf(F \cup S)) = Cardinality(F \cup S)
  BY <1>1, <1>2, LinesAreCounted
<1>4. Dropped(src) = IF Cardinality(LinesOf(F \cup S)) > Cardinality(F)
                      THEN Cardinality(LinesOf(F \cup S)) - Cardinality(F) ELSE 0
  BY DEF Dropped, F, S
<1>5. /\ Dropped(src) \in Nat /\ Cardinality(S) <= Dropped(src)
      /\ (\A r \in F \cup S : r.lines = 1) => Dropped(src) = Cardinality(S)
  BY <1>2, <1>3, <1>4
<1> QED BY <1>5 DEF F, S

-----------------------------------------------------------------------------
(* What a run makes of the rows it has.                                    *)

(* Every spelling in the file, and so every one the summary sees, has one  *)
(* of the four outcomes of the rule.                                       *)
LEMMA ColumnIsNormalised ==
    ASSUME EnrichTypeOK
    PROVE  /\ DOMAIN Outcomes = Spellings /\ Spellings \subseteq Names \cup {Blank}
           /\ \A v \in Spellings : Outcomes[v] = Normalise(v, rule)
           /\ Outcomes \in [Spellings -> [to : Names \cup {Blank},
                                          tier : {"known", "alias", "fuzzy", "unknown"}]]
<1>1. Spellings \subseteq Names \cup {Blank}
  <2>1. ASSUME NEW r \in File("product_usage") PROVE r.department \in Names \cup {Blank}
    <3>1. r.source = "product_usage" /\ r \in Rows \cup OtherRows
      BY DEF File, EnrichTypeOK, TypeOK
    <3> QED BY <3>1, EnrichAssumption
  <2> QED BY <2>1 DEF Spellings
<1>2. DOMAIN Outcomes = Spellings /\ \A v \in Spellings : Outcomes[v] = Normalise(v, rule)
  BY DEF Outcomes, NormaliseColumn
<1>3. \A v \in Spellings : Normalise(v, rule) \in
         [to : Names \cup {Blank}, tier : {"known", "alias", "fuzzy", "unknown"}]
  BY <1>1, Tiers DEF EnrichTypeOK
<1>4. Outcomes = [v \in Spellings |-> Normalise(v, rule)]
  BY DEF Outcomes, NormaliseColumn
<1> QED BY <1>1, <1>2, <1>3, <1>4

(* The rows of a context are in the files.                                 *)
LEMMA ContextIsInFiles ==
    ASSUME NEW a, BuildContext(a)
    PROVE  /\ last'.outcome = "built" /\ last'.account = a
           /\ last'.rows \subseteq billing \cup others
<1>1. PICK p \in InvoicePrefixes(a) :
          last' = [account |-> a, outcome |-> "built", rows |-> Billing(a, p) \cup Others(a)]
  BY DEF BuildContext
<1>2. Billing(a, p) \subseteq billing /\ Others(a) \subseteq others
  BY DEF Billing, Others, Resolved
<1> QED BY <1>1, <1>2

(* The parts of a report, in one place.                                    *)
LEMMA ReportOfRun ==
    ASSUME NEW a, RunEnriches(a)
    PROVE  LET of(src) == {r \in last'.rows : r.source = src}
           IN  /\ report'.ready = TRUE
               /\ report'.dropped = [src \in Files |-> Dropped(src)]
               /\ report'.outcomes = Outcomes
               /\ report'.surfaced = Surfaced(Outcomes)
               /\ report'.departments = Departments(of("product_usage"))
               /\ report'.disputes = OpenDisputes(of("billing"))
               /\ report'.final \in Finals(of("support_tickets"))
               /\ report'.open = OpenTickets(report'.final)
               /\ \E first \in Firsts(of("support_tickets")),
                     final \in Finals(of("support_tickets")) :
                       report'.bundle =
                          RetrieveSignals(last'.rows, of("crm_interactions"), first, final, now)
BY DEF RunEnriches, Enriched

-----------------------------------------------------------------------------
(* Types.                                                                  *)

(* What a report is like, whichever run it is of.                          *)
ReportTypeOK ==
    /\ report.ready \in BOOLEAN
    /\ report.ready =>
          /\ last.outcome = "built"
          /\ report.outcomes \in [DOMAIN report.outcomes ->
                 [to : Names \cup {Blank}, tier : {"known", "alias", "fuzzy", "unknown"}]]
          /\ report.dropped \in [Files -> Nat]
          /\ report.departments \subseteq Names

LEMMA RunKeepsReportType ==
    ASSUME EnrichTypeOK, NEW a, RunEnriches(a)
    PROVE  ReportTypeOK'
<1> DEFINE usage == {r \in last'.rows : r.source = "product_usage"}
<1>1. /\ report'.ready = TRUE
      /\ report'.dropped = [src \in Files |-> Dropped(src)]
      /\ report'.outcomes = Outcomes
      /\ report'.departments = Departments(usage)
  BY ReportOfRun
<1>2. last'.outcome = "built" /\ last'.rows \subseteq billing \cup others
  BY ContextIsInFiles DEF RunEnriches
<1>3. [src \in Files |-> Dropped(src)] \in [Files -> Nat]
  BY DropsAreCounted
<1>4. Departments(usage) \subseteq Names
  <2>1. ASSUME NEW r \in usage PROVE Outcomes[r.department].to \in Names \cup {Blank}
    <3>1. r.department \in Spellings
      BY <1>2 DEF Spellings, File
    <3> QED BY <3>1, ColumnIsNormalised
  <2> QED BY <2>1 DEF Departments
<1>5. Outcomes \in [DOMAIN Outcomes ->
         [to : Names \cup {Blank}, tier : {"known", "alias", "fuzzy", "unknown"}]]
  BY ColumnIsNormalised
<1> HIDE DEF usage
<1>6. Files' = Files
  BY DEF Files
<1> QED BY <1>1, <1>2, <1>3, <1>4, <1>5, <1>6 DEF ReportTypeOK

LEMMA EnrichStepKeepsTypes ==
    ASSUME EnrichTypeOK, [EnrichNext]_enrichVars
    PROVE  EnrichTypeOK'
<1>1. TypeOK' /\ IsRule(rule)'
  BY EnrichStepIsStep, StepKeepsTypes, RuleGrows DEF EnrichTypeOK
<1>2. contracts' = contracts
  BY DEF EnrichNext, enrichVars, BookRow, Book, AppendRow, Append, Garble, Confirm, AddName,
         NextDay, RunEnriches, BuildContext, RunRaises, ContextRaises
<1>3. malformed' \subseteq Malformed
  BY DEF EnrichTypeOK, EnrichNext, enrichVars, growth, BookRow, AppendRow, Garble, Confirm,
         AddName, NextDay, RunEnriches, RunRaises
<1>4. now' \in Nat /\ changes' \in 0..MaxChanges
  <2>1. CASE Change
    <3>1. changes' \in 0..MaxChanges
      BY <2>1, EnrichAssumption DEF Change, EnrichTypeOK
    <3>2. now' \in {now, now + 1}
      BY <2>1 DEF EnrichNext, enrichVars, growth, BookRow, AppendRow, Garble, Confirm,
         AddName, NextDay, RunEnriches, RunRaises
    <3> QED BY <3>1, <3>2 DEF EnrichTypeOK
  <2>2. CASE ~Change
    BY <2>2 DEF EnrichTypeOK, EnrichNext, enrichVars, growth, BookRow, AppendRow, Garble,
         Confirm, AddName, NextDay, RunEnriches, RunRaises
  <2> QED BY <2>1, <2>2
<1>5. ReportTypeOK'
  <2>1. ASSUME report' = report, last' = last PROVE ReportTypeOK'
    BY <2>1 DEF ReportTypeOK, EnrichTypeOK, Files
  <2>2. ASSUME NEW a \in Accounts, RunEnriches(a) PROVE ReportTypeOK'
    BY <2>2, RunKeepsReportType
  <2>3. ASSUME NEW a \in Accounts, RunRaises(a) PROVE ReportTypeOK'
    BY <2>3 DEF RunRaises, NoReport, ReportTypeOK
  <2> QED BY <2>1, <2>2, <2>3
          DEF EnrichNext, enrichVars, BookRow, Book, AppendRow, Append, Garble, Confirm, AddName,
              NextDay
<1> QED BY <1>1, <1>2, <1>3, <1>4, <1>5 DEF EnrichTypeOK, ReportTypeOK

(* Every specification of the module keeps its types: a report is of a run *)
(* that built its context, its departments are names, its counts numbers.  *)
THEOREM EnrichTypeCorrect == EnrichSpec => []EnrichTypeOK
<1>1. EnrichInit => EnrichTypeOK
  BY EnrichAssumption DEF EnrichInit, EnrichTypeOK, TypeOK, NoReport
<1> QED BY <1>1, EnrichStepKeepsTypes, PTL DEF EnrichSpec

(* Stages 1 to 4 take only the account's own rows, as Attribution promises *)
(* of exports that tell the truth.                                         *)
THEOREM EnrichTakesNoForeignRow ==
    ASSUME Truthful, Strict
    PROVE  EnrichSpec => []NoForeignRow
<1>1. EnrichInit => NoForeignRow
  BY DEF EnrichInit, NoForeignRow
<1>2. EnrichTypeOK /\ NoForeignRow /\ [EnrichNext]_enrichVars => NoForeignRow'
  BY EnrichStepIsStep, StepIsOwn DEF EnrichTypeOK
<1> QED BY <1>1, <1>2, EnrichTypeCorrect, PTL DEF EnrichSpec

-----------------------------------------------------------------------------
(* Loss and drift.                                                         *)

(* A new report that is ready comes from a run.                            *)
LEMMA ReportsAreOfRuns ==
    ASSUME [EnrichNext]_enrichVars, report' # report, report'.ready
    PROVE  \E a \in Accounts : RunEnriches(a)
<1>1. ASSUME NEW a, RunRaises(a) PROVE FALSE
  BY <1>1 DEF RunRaises, NoReport
<1>2. \/ report' = report
      \/ \E a \in Accounts : RunEnriches(a) \/ RunRaises(a)
  BY DEF EnrichNext, enrichVars, BookRow, AppendRow, Garble, Confirm, AddName, NextDay
<1> QED BY <1>1, <1>2

(* A report counts as dropped at least the rows the parser skipped, and    *)
(* exactly those where no row of the file takes several lines.             *)
THEOREM LossIsCounted == EnrichSpec => LossIsReported
<1> DEFINE Counted == report' # report /\ report'.ready =>
         \A src \in Files :
            /\ Cardinality(Skipped(src)) <= report'.dropped[src]
            /\ (\A r \in File(src) \cup Skipped(src) : r.lines = 1) =>
                  report'.dropped[src] = Cardinality(Skipped(src))
<1>1. EnrichTypeOK /\ [EnrichNext]_enrichVars => [Counted]_enrichVars
  <2> SUFFICES ASSUME EnrichTypeOK, EnrichNext, report' # report, report'.ready,
                      NEW src \in Files
               PROVE  /\ Cardinality(Skipped(src)) <= report'.dropped[src]
                      /\ (\A r \in File(src) \cup Skipped(src) : r.lines = 1) =>
                            report'.dropped[src] = Cardinality(Skipped(src))
    OBVIOUS
  <2>1. PICK a \in Accounts : RunEnriches(a)
    BY ReportsAreOfRuns
  <2>2. report'.dropped[src] = Dropped(src)
    BY <2>1, ReportOfRun
  <2> QED BY <2>2, DropsAreCounted
<1> QED BY <1>1, EnrichTypeCorrect, PTL DEF EnrichSpec, LossIsReported

(* A department in the facts is a known name, the target of an alias, or   *)
(* among the values the report surfaces for review; names and aliases are  *)
(* never taken back, so that this stays true of an older report.           *)
THEOREM DriftIsSeen == EnrichSpec => []DriftIsVisible
<1>1. EnrichInit => DriftIsVisible
  BY DEF EnrichInit, NoReport, DriftIsVisible
<1>2. EnrichTypeOK /\ DriftIsVisible /\ [EnrichNext]_enrichVars => DriftIsVisible'
  <2> SUFFICES ASSUME EnrichTypeOK, DriftIsVisible, [EnrichNext]_enrichVars,
                      report'.ready, NEW d \in report'.departments
               PROVE  \/ d \in rule'.known \cup report'.surfaced
                      \/ \E v \in DOMAIN rule'.aliases : rule'.aliases[v] = d
    BY DEF DriftIsVisible
  <2>1. /\ rule.known \subseteq rule'.known
        /\ \A v \in DOMAIN rule.aliases :
              v \in DOMAIN rule'.aliases /\ rule'.aliases[v] = rule.aliases[v]
    BY RuleGrows DEF EnrichTypeOK
  <2>2. CASE report' = report
    BY <2>1, <2>2 DEF DriftIsVisible
  <2>3. CASE report' # report
    <3>1. PICK a \in Accounts : RunEnriches(a)
      BY <2>3, ReportsAreOfRuns
    <3> DEFINE usage == {r \in last'.rows : r.source = "product_usage"}
    <3>2. report'.departments = Departments(usage) /\ report'.surfaced = Surfaced(Outcomes)
      BY <3>1, ReportOfRun
    <3>3. PICK r \in usage : d = Outcomes[r.department].to /\ d # Blank
      BY <3>2 DEF Departments
    <3>4. r.department \in Spellings
      BY <3>1, <3>3, ContextIsInFiles DEF RunEnriches, Spellings, File
    <3> DEFINE v == r.department
               o == Normalise(v, rule)
    <3>5. v \in Names \cup {Blank} /\ v \in DOMAIN Outcomes /\ Outcomes[v] = o /\ IsRule(rule)
      BY <3>4, ColumnIsNormalised DEF EnrichTypeOK
    <3>6. CASE o.tier \in {"known", "fuzzy"}
      BY <2>1, <3>3, <3>5, <3>6, Tiers DEF Outcome
    <3>7. CASE o.tier = "alias"
      <4>1. v \in DOMAIN rule.aliases
        BY <3>5, <3>7, Tiers
      <4>2. v \notin rule.known
        BY <3>5, <3>7, Tiers DEF Outcome
      <4>3. d = rule.aliases[v]
        BY <3>3, <3>5, <4>1, <4>2, Tiers DEF Outcome
      <4> QED BY <2>1, <4>1, <4>3
    <3>8. CASE o.tier = "unknown"
      BY <3>2, <3>3, <3>5, <3>8, Tiers DEF Surfaced
    <3> QED BY <3>5, <3>6, <3>7, <3>8, Tiers
  <2> QED BY <2>2, <2>3
<1> QED BY <1>1, <1>2, EnrichTypeCorrect, PTL DEF EnrichSpec

(* What a report says is settled about a spelling, the rule file says too. *)
Settled ==
    report.ready => \A v \in DOMAIN report.outcomes :
       /\ report.outcomes[v].tier = "known" =>
             report.outcomes[v] = Outcome(v, "known") /\ v \in rule.known \cup {Blank}
       /\ report.outcomes[v].tier = "alias" =>
             /\ v \in DOMAIN rule.aliases
             /\ report.outcomes[v] = Outcome(rule.aliases[v], "alias")

LEMMA StepKeepsSettled ==
    ASSUME EnrichTypeOK, Settled, [EnrichNext]_enrichVars
    PROVE  Settled'
<1>1. /\ rule.known \subseteq rule'.known
      /\ \A v \in DOMAIN rule.aliases :
            v \in DOMAIN rule'.aliases /\ rule'.aliases[v] = rule.aliases[v]
  BY RuleGrows DEF EnrichTypeOK
<1>2. CASE report' = report
  BY <1>1, <1>2 DEF Settled
<1>3. CASE report' # report /\ report'.ready
  <2>1. PICK a \in Accounts : RunEnriches(a)
    BY <1>3, ReportsAreOfRuns
  <2>2. report'.outcomes = Outcomes
    BY <2>1, ReportOfRun
  <2>3. ASSUME NEW v \in Spellings
        PROVE  LET o == Normalise(v, rule)
               IN  /\ o.tier = "known" =>
                         o = Outcome(v, "known") /\ v \in rule.known \cup {Blank}
                   /\ o.tier = "alias" =>
                         v \in DOMAIN rule.aliases /\ o = Outcome(rule.aliases[v], "alias")
    <3>1. v \in Names \cup {Blank} /\ IsRule(rule)
      BY <2>3, ColumnIsNormalised DEF EnrichTypeOK
    <3>2. Normalise(v, rule).tier = "alias" => v \notin rule.known
      BY <3>1, Tiers DEF Outcome
    <3> QED BY <3>1, <3>2, Tiers
  <2> QED BY <1>1, <2>2, <2>3, ColumnIsNormalised DEF Settled
<1>4. CASE ~report'.ready
  BY <1>4 DEF Settled
<1> QED BY <1>2, <1>3, <1>4

(* Between two reports, a spelling that was known or had an alias keeps    *)
(* its outcome, unless it has become a name itself.                        *)
THEOREM SettledNamesStay == EnrichSpec => ConfirmedNamesStay
<1> DEFINE Stays == report.ready /\ report'.ready =>
         \A v \in DOMAIN report.outcomes \cap DOMAIN report'.outcomes :
            report.outcomes[v].tier \in {"known", "alias"} =>
               report'.outcomes[v] = report.outcomes[v] \/ v \in rule.known
<1>1. EnrichInit => Settled
  BY DEF EnrichInit, NoReport, Settled
<1>2. EnrichTypeOK /\ Settled /\ [EnrichNext]_enrichVars => Settled'
  BY StepKeepsSettled
<1>3. EnrichTypeOK /\ Settled /\ [EnrichNext]_enrichVars => [Stays]_enrichVars
  <2> SUFFICES ASSUME EnrichTypeOK, Settled, EnrichNext, report.ready, report'.ready,
                      report' # report,
                      NEW v \in DOMAIN report.outcomes \cap DOMAIN report'.outcomes,
                      report.outcomes[v].tier \in {"known", "alias"}, v \notin rule.known
               PROVE  report'.outcomes[v] = report.outcomes[v]
    OBVIOUS
  <2>1. PICK a \in Accounts : RunEnriches(a)
    BY ReportsAreOfRuns
  <2>2. report'.outcomes = Outcomes
    BY <2>1, ReportOfRun
  <2>3. v \in Names \cup {Blank} /\ report'.outcomes[v] = Normalise(v, rule) /\ IsRule(rule)
    BY <2>2, ColumnIsNormalised DEF EnrichTypeOK
  <2>4. CASE report.outcomes[v].tier = "known"
    BY <2>3, <2>4, Tiers DEF Settled
  <2>5. CASE report.outcomes[v].tier = "alias"
    BY <2>3, <2>5, Tiers DEF Settled
  <2> QED BY <2>4, <2>5
<1> QED BY <1>1, <1>2, <1>3, EnrichTypeCorrect, PTL DEF EnrichSpec, ConfirmedNamesStay

-----------------------------------------------------------------------------
(* Open tickets.                                                           *)

LEMMA TicketsAreFinite ==
    ASSUME NEW st, IsFiniteSet(st)
    PROVE  IsFiniteSet(Tickets(st))
<1> DEFINE names == {r.ticket : r \in st}
           g == [r \in st |-> r.ticket]
<1>1. g \in Surjection(st, names)
  BY DEF Surjection
<1>2. IsFiniteSet(names)
  BY <1>1, FS_Surjection
<1> QED BY <1>2, FS_Subset DEF Tickets

LEMMA TicketExcerptsAreFinite ==
    ASSUME NEW first, NEW final, IsFiniteSet(DOMAIN first)
    PROVE  IsFiniteSet(TicketExcerpts(first, final))
<1> DEFINE U == Urgent(first, final)
           g == [t \in U |-> Excerpt(Id("TKT", t, "content"), first[t])]
<1>1. IsFiniteSet(U)
  BY FS_Subset DEF Urgent
<1>2. g \in Surjection(U, TicketExcerpts(first, final))
  BY DEF Surjection, TicketExcerpts
<1> QED BY <1>1, <1>2, FS_Surjection

(* The difference of summary.py counts the tickets that are not resolved.  *)
LEMMA OpenIsNotResolved ==
    ASSUME NEW final, IsFiniteSet(DOMAIN final)
    PROVE  OpenTickets(final) = Cardinality(DOMAIN final \ ResolvedTickets(final))
<1> DEFINE D == DOMAIN final
           R == ResolvedTickets(final)
<1>1. R \subseteq D /\ IsFiniteSet(D)
  BY DEF ResolvedTickets
<1>2. OpenTickets(final) = Cardinality(D) - Cardinality(R)
  BY DEF OpenTickets
<1> HIDE DEF D, R
<1>3. D \cap R = R
  BY <1>1
<1>4. Cardinality(D \ R) = Cardinality(D) - Cardinality(R)
  BY <1>1, <1>3, FS_Difference
<1> QED BY <1>2, <1>4 DEF D, R

-----------------------------------------------------------------------------
(* Open disputes.                                                          *)

(* With its keys in order, a dispute is in the context of its own account, *)
(* and of no other.                                                        *)
LEMMA DisputesAreAttributed ==
    ASSUME Truthful, OneCode, Strict, EnrichTypeOK, DisputesAreKept,
           NEW a \in Accounts, BuildContext(a), NEW r \in Disputes
    PROVE  r \in last'.rows <=> r.of = a
<1>1. PICK p \in InvoicePrefixes(a) :
          last' = [account |-> a, outcome |-> "built", rows |-> Billing(a, p) \cup Others(a)]
  BY DEF BuildContext
<1>2. TypeOK
  BY DEF EnrichTypeOK
<1>3. r \in last'.rows => r.of = a
  BY <1>2, ContextIsOwn
<1>4. ASSUME r.of = a PROVE r \in last'.rows
  <2>1. r \in billing /\ r \in Rows /\ r.invoice # "none" /\ Pattern[r.invoice] # "none"
    BY <1>2 DEF Disputes, DisputesAreKept, TypeOK
  <2>2. r.invoice \in Documents /\ IssuedTo[r.invoice] = a
    BY <1>4, <2>1 DEF Truthful, TruthfulKeys
  <2>3. Pattern[r.invoice] \in PossibleCodes(a) /\ p \in PossibleCodes(a)
    BY <1>2, <2>1, <2>2, PrefixIsPossible DEF Truthful, TruthfulKeys
  <2>4. Pattern[r.invoice] = p
    BY <2>3 DEF OneCode
  <2> QED BY <1>1, <2>1, <2>4 DEF Billing, ByInvoice
<1> QED BY <1>3, <1>4

(* As many disputes are still open as were opened and not resolved, when   *)
(* each has a number of its own and is opened before it is resolved.       *)
LEMMA DisputesPairUp ==
    ASSUME NEW O, NEW S, IsFiniteSet(O), IsFiniteSet(S),
           \A o, p \in O : o.dispute = p.dispute => o = p,
           \A r, q \in S : r.dispute = q.dispute => r = q,
           \A r \in S : \E o \in O : o.dispute = r.dispute
    PROVE  Cardinality({o \in O : \A r \in S : r.dispute # o.dispute})
               = Cardinality(O) - Cardinality(S)
<1> DEFINE M == {o \in O : \E r \in S : r.dispute = o.dispute}
           f == [r \in S |-> CHOOSE o \in O : o.dispute = r.dispute]
<1>1. \A r \in S : f[r] \in O /\ f[r].dispute = r.dispute
  OBVIOUS
<1>2. f \in [S -> M]
  BY <1>1
<1>3. \A r, q \in S : f[r] = f[q] => r = q
  BY <1>1
<1>4. \A o \in M : \E r \in S : f[r] = o
  BY <1>1
<1> HIDE DEF f
<1>5. f \in Bijection(S, M)
  BY <1>2, <1>3, <1>4 DEF Bijection, Injection, IsInjective, Surjection
<1>6. Cardinality(M) = Cardinality(S)
  BY <1>5, FS_Bijection DEF ExistsBijection
<1>7. {o \in O : \A r \in S : r.dispute # o.dispute} = O \ M /\ O \cap M = M
  OBVIOUS
<1> HIDE DEF M
<1>8. Cardinality(O \ M) = Cardinality(O) - Cardinality(O \cap M)
  BY FS_Difference
<1> QED BY <1>6, <1>7, <1>8

(* The open disputes of a report are the customer's own in the export that *)
(* nothing has resolved, although the code subtracts one count from        *)
(* another and no step of it looks at dispute numbers.                     *)
THEOREM OpenDisputesAreRight ==
    ASSUME Truthful, OneCode, Strict
    PROVE  EnrichSpec => OpenDisputesAreCounted
<1> DEFINE Counted == report' # report /\ report'.ready /\ DisputesAreKept =>
         report'.disputes = Cardinality(StillOpen(last'.account))
<1>1. EnrichTypeOK /\ [EnrichNext]_enrichVars => [Counted]_enrichVars
  <2> SUFFICES ASSUME EnrichTypeOK, EnrichNext, report' # report, report'.ready, DisputesAreKept
               PROVE  report'.disputes = Cardinality(StillOpen(last'.account))
    OBVIOUS
  <2>1. PICK a \in Accounts : RunEnriches(a)
    BY ReportsAreOfRuns
  <2>2. BuildContext(a) /\ last'.account = a /\ last'.rows \subseteq billing \cup others
    BY <2>1, ContextIsInFiles DEF RunEnriches
  <2> DEFINE b == {r \in last'.rows : r.source = "billing"}
             O == OfEvent(b, "dispute_opened")
             S == OfEvent(b, "dispute_resolved")
  <2>3. report'.disputes = Cardinality(O) - Cardinality(S)
    BY <2>1, ReportOfRun DEF OpenDisputes, Events
  <2>4. b = last'.rows \cap billing
    <3>1. \A r \in billing : r.source = "billing"
      BY EnrichAssumption DEF EnrichTypeOK, TypeOK
    <3>2. \A r \in others : r.source # "billing"
      BY EnrichAssumption DEF EnrichTypeOK, TypeOK, Sources, Policed
    <3> QED BY <2>2, <3>1, <3>2
  <2>5. /\ O = {r \in Disputes : r.event = "dispute_opened" /\ r.of = a}
        /\ S = {r \in Disputes : r.event = "dispute_resolved" /\ r.of = a}
    <3>1. \A r \in Disputes : r \in b <=> r.of = a
      BY <2>2, <2>4, DisputesAreAttributed DEF Disputes
    <3>2. \A r \in b : r \in billing
      BY <2>4
    <3> HIDE DEF b
    <3> QED BY <3>1, <3>2 DEF OfEvent, Disputes
  <2>6. IsFiniteSet(O) /\ IsFiniteSet(S)
    BY RowsAreFinite, <2>5, FS_Subset DEF Disputes
  <2>7. StillOpen(a) = {o \in O : \A r \in S : r.dispute # o.dispute}
    <3>1. ASSUME NEW o \in O, \A r \in S : r.dispute # o.dispute,
                 NEW q \in Disputes, q.dispute = o.dispute, q.event # "dispute_opened"
          PROVE  FALSE
      <4>1. q.event = "dispute_resolved"
        BY <3>1 DEF Disputes
      <4>2. PICK p \in Disputes : p.event = "dispute_opened" /\ p.dispute = q.dispute /\ p.of = q.of
        BY <4>1 DEF DisputesAreKept
      <4>3. p = o
        BY <2>5, <3>1, <4>2 DEF DisputesAreKept
      <4> QED BY <2>5, <3>1, <4>1, <4>2, <4>3
    <3> HIDE DEF O, S
    <3> QED BY <2>5, <3>1 DEF StillOpen
  <2>8. /\ \A o, p \in O : o.dispute = p.dispute => o = p
        /\ \A r, q \in S : r.dispute = q.dispute => r = q
        /\ \A r \in S : \E o \in O : o.dispute = r.dispute
    BY <2>5 DEF DisputesAreKept
  <2> HIDE DEF O, S
  <2> QED BY <2>2, <2>3, <2>6, <2>7, <2>8, DisputesPairUp
<1> QED BY <1>1, EnrichTypeCorrect, PTL DEF EnrichSpec, OpenDisputesAreCounted
=============================================================================
