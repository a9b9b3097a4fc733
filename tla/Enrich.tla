------------------------------- MODULE Enrich -------------------------------
(***************************************************************************)
(* Stages 1 to 4 of src/challenge/pipeline.py, composed: the exports are   *)
(* loaded (ingest/data_io.py), names brought in line (Canonical), the rows *)
(* of the account attributed (Attribution), and facts, flags and excerpts  *)
(* computed from them (Summary, Signals).  Between runs the exports grow,  *)
(* the calendar moves on, and people answer what a report surfaced by      *)
(* adding to the rule file of product_usage.department.                    *)
(*                                                                         *)
(* The rows are those of Attribution with the cells Summary and Signals    *)
(* read, the place in the file (pos) and the physical lines they take.     *)
(***************************************************************************)
EXTENDS Attribution, Signals, Canonical

CONSTANTS
    Shipped,        \* the rows that are there at first
    FirstRule,      \* the rule file at first
    FirstDay,
    Malformed,      \* what the parser may come to skip: a source, lines
    Aliases,        \* the aliases people may confirm: from, to
    NewNames,       \* the names they may add
    Thresholds,     \* risk_thresholds of each customer file
    MaxChanges      \* how much may happen to exports, rule and calendar

Files == Sources \cup {"billing"}

(* What the ids of excerpts are made of.                                   *)
Words ==
    {"TKT", "content", "recent"} \cup Files \cup {r.id : r \in Rows \cup OtherRows}
        \cup {r.ticket : r \in OtherRows} \cup (UNION {r.hits : r \in Rows \cup OtherRows})

ASSUME EnrichAssumption ==
    /\ IsFiniteSet(Rows) /\ IsFiniteSet(OtherRows) /\ IsFiniteSet(Malformed)
    /\ \A r \in Rows : r.source = "billing"
    /\ \A r \in OtherRows : /\ r.source \in Sources
                            /\ r.source = "product_usage" => r.department \in Names \cup {Blank}
    /\ \A r \in Rows \cup OtherRows : r.at \in Nat /\ r.pos \in Nat /\ IsFiniteSet(r.hits)
    /\ \A r \in Rows \cup OtherRows \cup Malformed : r.lines \in Nat \ {0}
    /\ Malformed \cap (Rows \cup OtherRows) = {}
    /\ Words \subseteq DOMAIN Alphabet
    /\ IsRule(FirstRule)
    /\ Aliases \subseteq Names \X Names /\ NewNames \subseteq Names
    /\ FirstDay \in Nat /\ MaxChanges \in Nat

(* Cells that hold no number were made into 0 or NoDate.                   *)
ASSUME CellsAssumption ==
    /\ \A r \in Rows : r.cents \in Int
    /\ \A r \in OtherRows : r.source = "product_usage" => r.week \in Nat /\ r.sessions \in Int
    /\ \A a \in Accounts : LET th == Thresholds[a]
                        IN  {th.outstanding, th.reminders, th.breaches} \subseteq Int

VARIABLES
    malformed,  \* what the parser skips
    rule,       \* config/canonicalisations/product_usage.department.yaml
    now,        \* the day, which retrieve_signals reads off the clock
    changes,
    report      \* what the last run hands to the synthesis and the renderer

growth     == <<malformed, rule, now, changes>>
enrichVars == <<contracts, billing, others, last, growth, report>>

File(src) == {r \in billing \cup others : r.source = src}

-----------------------------------------------------------------------------
(* load_all.                                                               *)

LinesOf(rows) == UNION {{r} \X (1..r.lines) : r \in rows}
Skipped(src)  == {m \in malformed : m.source = src}

(* Mutant: the header is taken off twice.                                  *)
DroppedLessHeader(src) ==
    LET lines == Cardinality(LinesOf(File(src) \cup Skipped(src))) - 1
        rows  == Cardinality(File(src))
    IN  IF lines > rows THEN lines - rows ELSE 0

(* _read_csv: the lines under the header, less the rows that came of them. *)
Dropped(src) ==
    LET lines == Cardinality(LinesOf(File(src) \cup Skipped(src)))
        rows  == Cardinality(File(src))
    IN  IF lines > rows THEN lines - rows ELSE 0

Spellings == {r.department : r \in File("product_usage")}
Outcomes  == NormaliseColumn(Spellings, rule)

(* departments_canonical: the summary sees the column as it was loaded.    *)
Departments(u) == {Outcomes[r.department].to : r \in u} \ {Blank}

-----------------------------------------------------------------------------
NoReport == [ready |-> FALSE]

(* build_account_summary and retrieve_signals on the rows of the context.  *)
(* The final statuses the summary counts need not be those signals.py sees. *)
Enriched(a, rows, counted, first, final) ==
    LET of(src) == {r \in rows : r.source = src}
    IN  [ready       |-> TRUE,
         dropped     |-> [src \in Files |-> Dropped(src)],
         outcomes    |-> Outcomes,
         surfaced    |-> Surfaced(Outcomes),
         departments |-> Departments(of("product_usage")),
         final       |-> counted,
         open        |-> OpenTickets(counted),
         disputes    |-> OpenDisputes(of("billing")),
         flags       |-> RuleFlags(of("billing"), of("product_usage"), of("support_tickets"),
                                  Thresholds[a]),
         bundle      |-> RetrieveSignals(rows, of("crm_interactions"), first, final, now)]

SummaryRaises(rows) ==
    \/ BillingRaises({r \in rows : r.source = "billing"})
    \/ UsageRaises({r \in rows : r.source = "product_usage"})

-----------------------------------------------------------------------------
EnrichInit ==
    /\ contracts = Contracts
    /\ billing = Rows \cap Shipped /\ others = OtherRows \cap Shipped
    /\ last \in [account : Accounts, outcome : {"none"}, rows : {{}}]
    /\ malformed = {} /\ rule = FirstRule /\ now = FirstDay /\ changes = 0
    /\ report = NoReport

Change == changes < MaxChanges /\ changes' = changes + 1

(* Exports are appended to.                                                *)
AtEnd(r) == \A q \in File(r.source) : q.pos < r.pos

BookRow(r) ==
    /\ Change /\ AtEnd(r) /\ Book(r)
    /\ UNCHANGED <<malformed, rule, now, report>>

AppendRow(r) ==
    /\ Change /\ AtEnd(r) /\ Append(r)
    /\ UNCHANGED <<malformed, rule, now, report>>

Garble(m) ==
    /\ Change /\ m \notin malformed
    /\ malformed' = malformed \cup {m}
    /\ UNCHANGED <<contracts, billing, others, last, rule, now, report>>

Confirm(v, k) ==
    /\ Change /\ v \notin DOMAIN rule.aliases
    /\ rule' = [rule EXCEPT !.aliases =
                  [w \in DOMAIN rule.aliases \cup {v} |-> IF w = v THEN k ELSE rule.aliases[w]]]
    /\ UNCHANGED <<contracts, billing, others, last, malformed, now, report>>

AddName(k) ==
    /\ Change /\ k \notin rule.known
    /\ rule' = [rule EXCEPT !.known = @ \cup {k}]
    /\ UNCHANGED <<contracts, billing, others, last, malformed, now, report>>

NextDay ==
    /\ Change
    /\ now' = now + 1
    /\ UNCHANGED <<contracts, billing, others, last, malformed, rule, report>>

(* support_facts and retrieve_signals sort and group each for itself.      *)
RunEnriches(a) ==
    /\ BuildContext(a)
    /\ ~SummaryRaises(last'.rows)
    /\ LET tickets == {r \in last'.rows : r.source = "support_tickets"}
       IN  \E counted, final \in Finals(tickets), first \in Firsts(tickets) :
              report' = Enriched(a, last'.rows, counted, first, final)
    /\ UNCHANGED growth

(* Mutant: the report of the run before stays.                             *)
RunRaisesKeeping(a) ==
    /\ \/ ContextRaises(a)
       \/ BuildContext(a) /\ SummaryRaises(last'.rows)
    /\ UNCHANGED <<growth, report>>

RunRaises(a) ==
    /\ \/ ContextRaises(a)
       \/ BuildContext(a) /\ SummaryRaises(last'.rows)
    /\ report' = NoReport
    /\ UNCHANGED growth

EnrichNext ==
    \/ \E r \in Rows : BookRow(r)
    \/ \E r \in OtherRows : AppendRow(r)
    \/ \E m \in Malformed : Garble(m)
    \/ \E p \in Aliases : Confirm(p[1], p[2])
    \/ \E k \in NewNames : AddName(k)
    \/ NextDay
    \/ \E a \in Accounts : RunEnriches(a) \/ RunRaises(a)

EnrichSpec == EnrichInit /\ [][EnrichNext]_enrichVars
-----------------------------------------------------------------------------
(* Properties.                                                             *)

Of(src) == {r \in last.rows : r.source = src}

EnrichTypeOK ==
    /\ contracts = Contracts
    /\ TypeOK
    /\ malformed \subseteq Malformed /\ IsRule(rule)
    /\ now \in Nat /\ changes \in 0..MaxChanges
    /\ report.ready \in BOOLEAN
    /\ report.ready =>
          /\ last.outcome = "built"
          /\ report.outcomes \in [DOMAIN report.outcomes ->
                 [to : Names \cup {Blank}, tier : {"known", "alias", "fuzzy", "unknown"}]]
          /\ report.dropped \in [Files -> Nat]
          /\ report.departments \subseteq Names

(* "drift detection requires drift to be visible": a department of the     *)
(* facts is one people know of, or the report says nothing is known of it. *)
DriftIsVisible ==
    report.ready => \A d \in report.departments :
        \/ d \in rule.known \cup report.surfaced
        \/ \E v \in DOMAIN rule.aliases : rule.aliases[v] = d

(* What people have settled about a spelling, a later run keeps, whatever  *)
(* is added to the rule file since; unless the spelling becomes a name.    *)
ConfirmedNamesStay ==
    [][report.ready /\ report'.ready =>
         \A v \in DOMAIN report.outcomes \cap DOMAIN report'.outcomes :
            report.outcomes[v].tier \in {"known", "alias"} =>
               report'.outcomes[v] = report.outcomes[v] \/ v \in rule.known]_enrichVars

(* "every data-quality anomaly ... ends up here rather than being silently *)
(* swallowed": no fewer rows are reported dropped than the parser skipped, *)
(* and no more where each row is one line.                                 *)
LossIsReported ==
    [][report' # report /\ report'.ready =>
         \A src \in Files :
            /\ Cardinality(Skipped(src)) <= report'.dropped[src]
            /\ (\A r \in File(src) \cup Skipped(src) : r.lines = 1) =>
                  report'.dropped[src] = Cardinality(Skipped(src))]_enrichVars

(* The disputes of an export have numbers, the rows of each have an invoice *)
(* id with a code, and each is opened once and before it is resolved.      *)
Disputes == {r \in billing : r.event \in {"dispute_opened", "dispute_resolved"}}

DisputesAreKept ==
    \A r \in Disputes :
       /\ r.invoice # "none" /\ Pattern[r.invoice] # "none"
       /\ \A q \in Disputes : q.event = r.event /\ q.dispute = r.dispute => q = r
       /\ r.event = "dispute_resolved" => \E q \in Disputes :
             q.event = "dispute_opened" /\ q.dispute = r.dispute /\ q.of = r.of

StillOpen(a) ==
    {r \in Disputes : /\ r.event = "dispute_opened" /\ r.of = a
                      /\ \A q \in Disputes : q.dispute = r.dispute => q.event = "dispute_opened"}

(* The open disputes of a report are those of the customer in the export,  *)
(* though attribution never looks at dispute numbers and the count is a    *)
(* difference of two others.                                               *)
OpenDisputesAreCounted ==
    [][report' # report /\ report'.ready /\ DisputesAreKept =>
         report'.disputes = Cardinality(StillOpen(last'.account))]_enrichVars

(* What may clear a flag: what is paid, credited or refunded for a balance. *)
Clears(id, r) ==
    \/ id = "outstanding-balance" /\ r.source = "billing"
         /\ r.event \in {"payment_received", "credit_note_issued", "refund_completed"}
    \/ id = "open-disputes" /\ r.source = "billing" /\ r.event = "dispute_resolved"
    \/ id = "usage-declining" /\ r.source = "product_usage"
    \/ id = "low-csat" /\ r.source = "support_tickets" /\ r.kind = "survey"

(* A flag is in the next report of the customer, as severe as it was, or a *)
(* row came since that can clear it; reminders and breaches stay.          *)
FlagsClearForAReason ==
    [][report.ready /\ report'.ready /\ last'.account = last.account =>
         \A f \in report.flags :
            \/ \E g \in report'.flags :
                  g.id = f.id /\ (f.severity = "alert" => g.severity = "alert")
            \/ \E r \in last'.rows \ last.rows : Clears(f.id, r)]_enrichVars

(* When no week has seen less use than the week before, use is not called  *)
(* declining, in whatever order the weeks were exported.                   *)
SteadyUseIsNotDeclining ==
    LET u == Of("product_usage")
    IN  report.ready /\ (\A v, w \in Weeks(u) : v <= w => WeekTotal(u, v) <= WeekTotal(u, w)) =>
            \A f \in report.flags : f.id # "usage-declining"

(* When each week has seen less use than the week before, use is called    *)
(* declining: the first two weeks are enough for that.                      *)
FallingUseIsDeclining ==
    LET u == Of("product_usage")
    IN  /\ report.ready /\ Cardinality(Weeks(u)) >= 2
        /\ \A v, w \in Weeks(u) : v < w => WeekTotal(u, w) < WeekTotal(u, v)
        => \E f \in report.flags : f.id = "usage-declining"

(* "a -€3,600 credit_note_issued row reduces what the customer owes": when *)
(* nothing but credit notes came to the billing rows since the last report *)
(* of the customer, no outstanding balance is flagged that was not before. *)
CreditsReduceWhatIsOwed ==
    [][/\ report.ready /\ report'.ready /\ last'.account = last.account
       /\ \A r \in last'.rows \ last.rows :
             r.source = "billing" => r.event = "credit_note_issued" /\ r.cents < 0
       /\ \E g \in report'.flags : g.id = "outstanding-balance"
       => \E f \in report.flags : f.id = "outstanding-balance"]_enrichVars

(* The last change of a ticket's status is new, or tied with another.      *)
StatusMoved(t) ==
    LET moves == {r \in last'.rows : /\ r.source = "support_tickets" /\ r.ticket = t
                                     /\ r.kind = "status_change" /\ r.status # "none"}
    IN  \E q \in moves : \/ q \notin last.rows
                         \/ \E r \in moves \ {q} : ~Before(q, r) /\ ~Before(r, q)

(* A ticket counted in one report of a customer is counted in the next,    *)
(* with the status it had unless a change of its status came since: not for *)
(* a reply that carries a status, and not for the order of the file.  No   *)
(* fewer tickets are counted open but for such a change.                   *)
StatusMovesForAReason ==
    [][report.ready /\ report'.ready /\ last'.account = last.account =>
         /\ \A t \in DOMAIN report.final :
               /\ t \in DOMAIN report'.final
               /\ report'.final[t] = report.final[t] \/ StatusMoved(t)
         /\ report.open <= report'.open \/ \E t \in DOMAIN report.final : StatusMoved(t)]_enrichVars

(* A ticket of the customer whose first row, by date, says it is urgent    *)
(* and whose status nobody has changed is shown, wherever in the file its  *)
(* rows are, unless as many excerpts as there is room for are newer.       *)
UrgentTicketIsShown ==
    [][report' # report /\ report'.ready =>
         \A c \in File("support_tickets") :
            /\ c.ticket # "none" /\ last'.account \in c.keys
            /\ c.priority \in {"critical", "high"}
            /\ \A r \in RowsOf(File("support_tickets"), c.ticket) :
                  r.kind # "status_change" /\ (r = c \/ Before(c, r))
            => LET shown == Excerpt(Id("TKT", c.ticket, "content"), c)
               IN  \/ shown \in report'.bundle
                   \/ /\ Cardinality(report'.bundle) = MaxSignals
                      /\ \A s \in report'.bundle : Newer(s, shown)]_enrichVars

(* The row an excerpt of a ticket shows is decided, and still the first.   *)
Restated(t) ==
    LET rows == RowsOf({r \in last'.rows : r.source = "support_tickets"}, t)
    IN  \E q \in rows : \/ q \notin last.rows
                       \/ \E r \in rows \ {q} : ~Before(q, r) /\ ~Before(r, q)

(* An excerpt of one report is in the next one of the customer unless its  *)
(* ticket moved, the window of recent interactions did, or newer excerpts  *)
(* have taken all the places.                                              *)
ExcerptsLeaveForAReason ==
    [][report.ready /\ report'.ready /\ last'.account = last.account =>
         \A s \in report.bundle :
            \/ \E t \in report'.bundle : t.id = s.id
            \/ s.id.source = "TKT" /\ Restated(s.id.row)
            \/ s.id.field = "recent" /\ s.at < now - RecentWindow
            \/ /\ Cardinality(report'.bundle) = MaxSignals
               /\ \A t \in report'.bundle : Newer(t, s)]_enrichVars

(* A row has a place of its own in its file and, but for emails, an id.    *)
OneRowPerId ==
    \A r, q \in Rows \cup OtherRows : r.source = q.source =>
        /\ r.pos = q.pos => r = q
        /\ r.id = q.id /\ r.source # "emails" => r = q

(* No invoice has a negative amount.                                       *)
Signed(b) == \A r \in b : r.event = "invoice_issued" => r.cents >= 0

(* What an id names in one report, it names in the next, although emails   *)
(* share ids: a narrative that cites it cites the same text.               *)
IdsKeepTheirText ==
    [][report.ready /\ report'.ready /\ last'.account = last.account =>
         \A s \in report.bundle, t \in report'.bundle :
            s.id = t.id => s = t \/ (s.id.source = "TKT" /\ Restated(s.id.row))]_enrichVars

(* "malformed rows skipped during parsing": where the parser skips nothing, *)
(* nothing is reported dropped.                                            *)
DropsAreMalformed ==
    report.ready => \A src \in Files :
        (\A m \in Malformed : m.source # src) => report.dropped[src] = 0
=============================================================================
