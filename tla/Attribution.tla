---------------------------- MODULE Attribution ----------------------------
(***************************************************************************)
(* src/challenge/ingest/joins.py: which rows of the CSV exports a run puts *)
(* into the context of its account.  The exports only grow: contracts are  *)
(* signed, billing rows and the rows of the other sources are appended,    *)
(* and runs for any account happen in between.                             *)
(*                                                                         *)
(* Ids, texts and addresses are abstracted to what they point at.  A       *)
(* billing row has a contract reference, an invoice id, a credit note      *)
(* reference ("none" when blank), the accounts whose alias its text        *)
(* contains, and whether it has an amount.  A row of another source has    *)
(* the accounts its address or department belongs to, a contract           *)
(* reference, and its ticket.  "of" is whose row it really is; the code    *)
(* cannot see it.                                                          *)
(***************************************************************************)
EXTENDS Naturals, FiniteSets

CONSTANTS
    Accounts,
    Contracts,
    Holder,     \* whose contract it is
    Code,       \* the code contract_id_pattern finds in its id, or "none"
    Within,     \* the codes that stand between hyphens in its id
    Documents,  \* invoices and credit notes
    IssuedTo,   \* whose document it is
    Pattern,    \* the code in an id of the form INV-<n>-<code>-<n>, or "none"
    Prefix,     \* invoice_prefix in the customer file, or "none"
    Policy,     \* unresolvable_row_policy in the customer file
    Rows,       \* the rows billing.csv may come to have
    OtherRows   \* those of the other sources

ASSUME SourcesAssumption ==
    /\ IsFiniteSet(Contracts)
    /\ Holder \in [Contracts -> Accounts] /\ IssuedTo \in [Documents -> Accounts]
    /\ "none" \notin Contracts \cup Documents
    /\ Policy \in [Accounts -> {"hard_fail", "skip", "include_with_warning"}]

VARIABLES
    contracts,  \* contracts.csv
    billing,    \* billing.csv
    others,     \* the other sources
    last        \* the last run: its account, how it ended, the rows it took

vars == <<contracts, billing, others, last>>

(* Sources a run cannot do without under hard_fail; product_usage has no   *)
(* such policy.                                                            *)
Policed == {"support_tickets", "crm_interactions", "emails", "purchase_orders"}
Sources == Policed \cup {"product_usage"}

TypeOK ==
    /\ contracts \subseteq Contracts
    /\ billing \subseteq Rows
    /\ others \subseteq OtherRows
    /\ last \in [account : Accounts, outcome : {"none", "raised", "built"},
                 rows : SUBSET (Rows \cup OtherRows)]

-----------------------------------------------------------------------------
(* derive_invoice_prefix.                                                  *)

ContractIds(a) == {c \in contracts : Holder[c] = a}
CodesOf(a)     == {Code[c] : c \in ContractIds(a)} \ {"none"}
Uses(a, code)  == Cardinality({c \in ContractIds(a) : code \in Within[c]})

(* The explicit prefix, or a most used code: max() over a set of strings,  *)
(* whose order changes from process to process, decides a tie.  There may  *)
(* be none, for which the run raises.                                      *)
InvoicePrefixes(a) ==
    IF Prefix[a] # "none" THEN {Prefix[a]}
    ELSE {p \in CodesOf(a) : \A q \in CodesOf(a) : Uses(a, q) <= Uses(a, p)}

-----------------------------------------------------------------------------
(* _filter_billing.                                                        *)

ByContract(a, r) == r.contract \in ContractIds(a)

(* Mutant: the amount is asked for in the wrong mask.                      *)
ByInvoiceWithAmount(p, r) == r.amount /\ r.invoice # "none" /\ Pattern[r.invoice] = p

ByInvoice(p, r) == r.invoice # "none" /\ Pattern[r.invoice] = p

Seed(a, p)       == {r \in billing : ByContract(a, r) \/ ByInvoice(p, r)}
ByCredit(a, p, r) ==
    r.credit # "none" /\ \E s \in Seed(a, p) : r.credit \in {s.credit, s.invoice}

Keyless(r) == r.contract = "none" /\ r.invoice = "none" /\ r.credit = "none"

(* Mutant: any payment that mentions the account.                          *)
ByTextAnywhere(a, p, r) == a \in r.names /\ r.amount

(* Mutant: a last resort, tried only when nothing else is found.           *)
ByTextLastResort(a, p, r) == a \in r.names /\ r.amount /\ Keyless(r) /\ Seed(a, p) = {}

ByText(a, p, r) == a \in r.names /\ r.amount /\ Keyless(r)

Billing(a, p) ==
    {r \in billing : \/ ByContract(a, r) \/ ByInvoice(p, r)
                     \/ ByCredit(a, p, r) \/ ByText(a, p, r)}

-----------------------------------------------------------------------------
(* The other sources.                                                      *)

(* The row's own key points at the account.                                *)
Keyed(a, r) ==
    IF r.source = "purchase_orders" THEN r.contract \in ContractIds(a) ELSE a \in r.keys

(* The department is on the row that creates a ticket; the rest of the     *)
(* ticket comes with it.                                                   *)
Resolved(a, src) ==
    IF src = "support_tickets"
      THEN {r \in others : r.source = src /\ r.ticket # "none" /\ \E q \in others :
                q.source = src /\ q.ticket = r.ticket /\ Keyed(a, q)}
      ELSE {r \in others : r.source = src /\ Keyed(a, r)}

Unresolved(a) == {src \in Policed : Resolved(a, src) = {}}

Others(a) ==
    UNION {IF src \in Unresolved(a) /\ Policy[a] = "include_with_warning"
             THEN {r \in others : r.source = src}
             ELSE Resolved(a, src) : src \in Sources}

-----------------------------------------------------------------------------
Init ==
    /\ contracts = {} /\ billing = {} /\ others = {}
    /\ last \in [account : Accounts, outcome : {"none"}, rows : {{}}]

Sign(c) ==
    /\ c \notin contracts
    /\ contracts' = contracts \cup {c}
    /\ UNCHANGED <<billing, others, last>>

Book(r) ==
    /\ r \notin billing
    /\ billing' = billing \cup {r}
    /\ UNCHANGED <<contracts, others, last>>

Append(r) ==
    /\ r \notin others
    /\ others' = others \cup {r}
    /\ UNCHANGED <<contracts, billing, last>>

(* build_account_context.                                                  *)
BuildContext(a) ==
    /\ ContractIds(a) # {}
    /\ Policy[a] = "hard_fail" => Unresolved(a) = {}
    /\ \E p \in InvoicePrefixes(a) :
          last' = [account |-> a, outcome |-> "built", rows |-> Billing(a, p) \cup Others(a)]
    /\ UNCHANGED <<contracts, billing, others>>

(* Mutant: a run that fails leaves the rows of the one before it.          *)
ContextRaisesPartly(a) ==
    /\ \/ ContractIds(a) = {}
       \/ InvoicePrefixes(a) = {}
       \/ Policy[a] = "hard_fail" /\ Unresolved(a) # {}
    /\ last' = [last EXCEPT !.outcome = "partly"]
    /\ UNCHANGED <<contracts, billing, others>>

(* ValueError, or RuntimeError under hard_fail.                            *)
ContextRaises(a) ==
    /\ \/ ContractIds(a) = {}
       \/ InvoicePrefixes(a) = {}
       \/ Policy[a] = "hard_fail" /\ Unresolved(a) # {}
    /\ last' = [account |-> a, outcome |-> "raised", rows |-> {}]
    /\ UNCHANGED <<contracts, billing, others>>

Next ==
    \/ \E c \in Contracts : Sign(c)
    \/ \E r \in Rows : Book(r)
    \/ \E r \in OtherRows : Append(r)
    \/ \E a \in Accounts : BuildContext(a) \/ ContextRaises(a)

Spec == Init /\ [][Next]_vars

-----------------------------------------------------------------------------
(* What the exports and the customer files have to be like.                *)

(* The codes that can become the prefix of an account.                     *)
PossibleCodes(a) ==
    IF Prefix[a] # "none" THEN {Prefix[a]}
    ELSE {Code[c] : c \in {k \in Contracts : Holder[k] = a}} \ {"none"}

(* The keys of a row point at the account the row is of.                   *)
TruthfulKeys ==
    /\ \A r \in Rows :
          /\ r.contract # "none" => r.contract \in Contracts /\ Holder[r.contract] = r.of
          /\ \A d \in {r.invoice, r.credit} \ {"none"} : d \in Documents /\ IssuedTo[d] = r.of
    /\ \A r \in OtherRows :
          /\ r.keys \subseteq {r.of}
          /\ r.contract \in Contracts => Holder[r.contract] = r.of
          /\ \A q \in OtherRows : q.ticket = r.ticket /\ r.ticket # "none" => q.of = r.of
    /\ \A d \in Documents : Pattern[d] # "none" =>
          \A a \in Accounts : Pattern[d] \in PossibleCodes(a) <=> IssuedTo[d] = a

(* Nobody else's alias is in the text of a row without keys.               *)
TruthfulTexts == \A r \in Rows : Keyless(r) => r.names \subseteq {r.of}

Truthful == TruthfulKeys /\ TruthfulTexts

(* The prefix of an account never changes.                                 *)
OneCode == \A a \in Accounts : \A p, q \in PossibleCodes(a) : p = q

(* The source is dropped or the run is, but it is not kept as a whole.     *)
Strict == \A a \in Accounts : Policy[a] # "include_with_warning"

-----------------------------------------------------------------------------
(* Properties.                                                             *)

(* "a second customer's data must not bleed into the first one's report".  *)
NoForeignRow == \A r \in last.rows : r.of = last.account

(* A report is made of whole invoices: the rows of one invoice (issued,    *)
(* paid, reminded, disputed) are all in the context of a run or none is,   *)
(* whichever of their keys are blank.                                      *)
InvoicesAreWhole ==
    [][\A r, q \in billing :
          (r.invoice # "none" /\ r.invoice = q.invoice /\ Pattern[r.invoice] # "none") =>
              (last' # last => (r \in last'.rows <=> q \in last'.rows))]_vars

(* As the exports grow, a later run for an account has every row the       *)
(* earlier one had, and does not begin to fail.                            *)
RerunsLoseNothing ==
    [][(last.outcome = "built" /\ last'.account = last.account) =>
           last'.outcome = "built" /\ last.rows \subseteq last'.rows]_vars
=============================================================================
