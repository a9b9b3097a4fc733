------------------------------ MODULE Summary ------------------------------
(***************************************************************************)
(* src/challenge/enrich/summary.py: the facts and flags computed from the  *)
(* rows of one account.  Amounts are in cents, 0 where the cell is empty;  *)
(* credits and refunds are negative, as the exports store them.  A date is *)
(* a day, or NoDate where the cell does not parse.                         *)
(***************************************************************************)
EXTENDS Integers, FiniteSets, FiniteSetsExt

CONSTANT HalfDeclines(_)  \* how polyfit and round() fall at a slope of -0.005

NoDate == 0

-----------------------------------------------------------------------------
(* billing_facts.  int() of the largest days_past_due raises on no rows.   *)

OfEvent(b, event)   == {r \in b : r.event = event}
Events(b, event)    == Cardinality(OfEvent(b, event))
SumAmount(b, event) == MapThenSumSet(LAMBDA r : r.cents, OfEvent(b, event))

BillingRaises(b) == b = {}

Outstanding(b) ==
    SumAmount(b, "invoice_issued") - SumAmount(b, "payment_received")
        - SumAmount(b, "credit_note_issued") + SumAmount(b, "refund_completed")

(* Mutant: a payment answers the reminders before it.                      *)
RemindersUnanswered(b) ==
    Cardinality({r \in OfEvent(b, "payment_reminder_sent") :
                   \A p \in OfEvent(b, "payment_received") : p.at < r.at})

RemindersSent(b) == Events(b, "payment_reminder_sent")

OpenDisputes(b) == Events(b, "dispute_opened") - Events(b, "dispute_resolved")

-----------------------------------------------------------------------------
(* usage_facts.  Weeks that do not parse are in no group; date_range of no *)
(* group at all raises.                                                    *)

Weeks(u)        == {r.week : r \in u} \ {NoDate}
WeekTotal(u, w) == MapThenSumSet(LAMBDA r : r.sessions, {r \in u : r.week = w})

UsageRaises(u) == u # {} /\ Weeks(u) = {}

(* Mutant: weeks in the order of the file.                                 *)
PlaceInFile(u, w) ==
    LET start(v) == Min({r.pos : r \in {q \in u : q.week = v}})
    IN  Cardinality({v \in Weeks(u) : start(v) <= start(w)})

(* The place of a week among those with rows: polyfit's x.                 *)
Place(u, w) == Cardinality({v \in Weeks(u) : v <= w})

(* The slope of the least squares line is 6 * Trend / (n * (n * n - 1)).   *)
Trend(u) ==
    MapThenSumSet(LAMBDA w : (2 * Place(u, w) - Cardinality(Weeks(u)) - 1) * WeekTotal(u, w),
                  Weeks(u))

(* Mutant: a slope is asked of three weeks at least.                       *)
DecliningOfThree(u) ==
    LET n == Cardinality(Weeks(u))
    IN  /\ n > 2
        /\ \/ 1200 * Trend(u) < -(n * (n * n - 1))
           \/ 1200 * Trend(u) = -(n * (n * n - 1)) /\ HalfDeclines(u)

(* The slope, rounded to hundredths, is negative.                          *)
Declining(u) ==
    LET n == Cardinality(Weeks(u))
    IN  /\ n >= 2
        /\ \/ 1200 * Trend(u) < -(n * (n * n - 1))
           \/ 1200 * Trend(u) = -(n * (n * n - 1)) /\ HalfDeclines(u)

-----------------------------------------------------------------------------
(* support_facts.                                                          *)

(* sort_values("timestamp"): what does not parse comes last.               *)
Before(r, q) == r.at # NoDate /\ (q.at = NoDate \/ r.at < q.at)

Tickets(st)    == {r.ticket : r \in st} \ {"none"}
RowsOf(st, t)  == {r \in st : r.ticket = t}

(* Mutant: the rows are not sorted first.                                  *)
FirstRowsOfFile(st, t) == {r \in RowsOf(st, t) : \A q \in RowsOf(st, t) : r.pos <= q.pos}

(* The sort is not stable: any of the earliest rows may be the first, any  *)
(* of the latest changes the last.                                         *)
FirstRows(st, t) == {r \in RowsOf(st, t) : \A q \in RowsOf(st, t) : ~Before(q, r)}

(* Mutant: any row with a status counts as a change of it.                 *)
StatusesOfAnyKind(st, t) == {r \in RowsOf(st, t) : r.status # "none"}

(* last() passes over changes that carry no status.                        *)
StatusChanges(st, t) == {r \in RowsOf(st, t) : r.kind = "status_change" /\ r.status # "none"}

LastStatuses(st, t) ==
    IF StatusChanges(st, t) = {} THEN {"open"}
    ELSE {r.status : r \in {c \in StatusChanges(st, t) :
                              \A d \in StatusChanges(st, t) : ~Before(c, d)}}

(* What the two sorts may make of the tickets.                             *)
Firsts(st) == {f \in [Tickets(st) -> UNION {FirstRows(st, t) : t \in Tickets(st)}] :
                 \A t \in Tickets(st) : f[t] \in FirstRows(st, t)}
Finals(st) == {f \in [Tickets(st) -> UNION {LastStatuses(st, t) : t \in Tickets(st)}] :
                 \A t \in Tickets(st) : f[t] \in LastStatuses(st, t)}

ResolvedTickets(final) == {t \in DOMAIN final : final[t] = "resolved"}
OpenTickets(final)     == Cardinality(DOMAIN final) - Cardinality(ResolvedTickets(final))
SlaBreaches(st)        == Cardinality({r \in st : r.breach})

(* The mean of the surveys that have a score, rounded to hundredths.       *)
Scored(st)   == {r \in st : r.kind = "survey" /\ r.score # 0}
MeanCsat(st) ==
    (200 * MapThenSumSet(LAMBDA r : r.score, Scored(st)) + Cardinality(Scored(st)))
        \div (2 * Cardinality(Scored(st)))

-----------------------------------------------------------------------------
(* derive_rule_flags.                                                      *)

FlagIds == {"outstanding-balance", "late-payment-pattern", "open-disputes",
            "usage-declining", "sla-breaches", "low-csat"}

Raised(id, b, u, st, th) ==
    \/ id = "outstanding-balance" /\ Outstanding(b) > th.outstanding
    \/ id = "late-payment-pattern" /\ RemindersSent(b) > th.reminders
    \/ id = "open-disputes" /\ OpenDisputes(b) > 0
    \/ id = "usage-declining" /\ Declining(u)
    \/ id = "sla-breaches" /\ SlaBreaches(st) > 0
    \/ id = "low-csat" /\ Scored(st) # {} /\ MeanCsat(st) < th.csat

Severity(id, st, th) ==
    IF \/ id \in {"outstanding-balance", "late-payment-pattern"}
       \/ id = "sla-breaches" /\ SlaBreaches(st) <= th.breaches
    THEN "warn" ELSE "alert"

RuleFlags(b, u, st, th) ==
    {[id |-> i, severity |-> Severity(i, st, th)] : i \in {j \in FlagIds : Raised(j, b, u, st, th)}}
=============================================================================
