------------------------- MODULE AttributionProofs -------------------------
(***************************************************************************)
(* That a context has the rows of its own account only, that it has whole  *)
(* invoices, and that a later run loses nothing, for every set of          *)
(* accounts, contracts and rows.  Each follows from what it needs the      *)
(* exports and the customer files to be like: Truthful, OneCode, Strict.   *)
(* Where texts or policies are not, a foreign row is explained by them.    *)
(***************************************************************************)
EXTENDS Attribution, FiniteSetTheorems, TLAPS

(* The exports stay within what may come to them, and the outcome of a run *)
(* is one of three: every step of the module keeps its types.              *)
LEMMA StepKeepsTypes == TypeOK /\ [Next]_vars => TypeOK'
<1> SUFFICES ASSUME TypeOK, [Next]_vars PROVE TypeOK'
  OBVIOUS
<1> USE DEF TypeOK
<1>1. ASSUME NEW c \in Contracts, Sign(c) PROVE TypeOK'
  BY <1>1 DEF Sign
<1>2. ASSUME NEW r \in Rows, Book(r) PROVE TypeOK'
  BY <1>2 DEF Book
<1>3. ASSUME NEW r \in OtherRows, Append(r) PROVE TypeOK'
  BY <1>3 DEF Append
<1>4. ASSUME NEW a \in Accounts, BuildContext(a) PROVE TypeOK'
  <2>1. PICK p \in InvoicePrefixes(a) :
            last' = [account |-> a, outcome |-> "built", rows |-> Billing(a, p) \cup Others(a)]
    BY <1>4 DEF BuildContext
  <2>2. Billing(a, p) \subseteq Rows
    BY DEF Billing
  <2>3. Others(a) \subseteq OtherRows
    BY DEF Others, Resolved
  <2>4. Billing(a, p) \cup Others(a) \in SUBSET (Rows \cup OtherRows)
    BY <2>2, <2>3
  <2>5. last' \in [account : Accounts, outcome : {"none", "raised", "built"},
                   rows : SUBSET (Rows \cup OtherRows)]
    BY <2>1, <2>4
  <2> QED BY <1>4, <2>5 DEF BuildContext
<1>5. ASSUME NEW a \in Accounts, ContextRaises(a) PROVE TypeOK'
  BY <1>5 DEF ContextRaises
<1>6. CASE UNCHANGED vars
  BY <1>6 DEF vars
<1> QED BY <1>1, <1>2, <1>3, <1>4, <1>5, <1>6 DEF Next

(* Type correctness of the exports and of the last run.                    *)
THEOREM TypeCorrect == Spec => []TypeOK
<1>1. Init => TypeOK
  BY DEF Init, TypeOK
<1> QED BY <1>1, StepKeepsTypes, PTL DEF Spec

-----------------------------------------------------------------------------
(* Lemmas about one run.                                                   *)

(* A prefix that is chosen is one the account may have: the explicit one,  *)
(* or the code of one of its contracts.                                    *)
LEMMA PrefixIsPossible ==
    ASSUME TypeOK, NEW a \in Accounts, NEW p \in InvoicePrefixes(a)
    PROVE  p \in PossibleCodes(a)
BY DEF TypeOK, InvoicePrefixes, CodesOf, ContractIds, PossibleCodes

(* The billing rows found by a contract, an invoice or a credit note are   *)
(* the account's own.                                                      *)
LEMMA KeysFindOwn ==
    ASSUME TypeOK, TruthfulKeys,
           NEW a \in Accounts, NEW p \in InvoicePrefixes(a), NEW r \in Billing(a, p)
    PROVE  r.of = a \/ ByText(a, p, r)
<1>1. /\ p \in PossibleCodes(a)
      /\ \A s \in billing : s \in Rows
  BY PrefixIsPossible DEF TypeOK
<1>2. ASSUME NEW s \in billing, ByContract(a, s) PROVE s.of = a
  <2>1. s.contract \in contracts /\ Holder[s.contract] = a
    BY <1>2 DEF ByContract, ContractIds
  <2>2. s.contract # "none"
    BY <2>1, SourcesAssumption DEF TypeOK
  <2> QED BY <1>1, <2>1, <2>2 DEF TruthfulKeys
<1>3. ASSUME NEW s \in billing, ByInvoice(p, s) PROVE s.of = a
  <2>1. s.invoice \in Documents /\ IssuedTo[s.invoice] = s.of
    BY <1>1, <1>3 DEF ByInvoice, TruthfulKeys
  <2>2. Pattern[s.invoice] = p /\ p # "none"
    BY <1>1, <1>3 DEF ByInvoice, PossibleCodes
  <2> QED BY <1>1, <2>1, <2>2 DEF TruthfulKeys
<1>4. ASSUME ByCredit(a, p, r), r \in billing PROVE r.of = a
  <2>1. PICK s \in Seed(a, p) : r.credit \in {s.credit, s.invoice}
    BY <1>4 DEF ByCredit
  <2>2. s \in billing /\ s.of = a
    BY <1>2, <1>3 DEF Seed
  <2>3. r.credit # "none"
    BY <1>4 DEF ByCredit
  <2>4. IssuedTo[r.credit] = r.of
    BY <1>1, <1>4, <2>3 DEF TruthfulKeys
  <2>5. IssuedTo[r.credit] = s.of
    BY <1>1, <2>1, <2>2, <2>3 DEF TruthfulKeys
  <2> QED BY <2>2, <2>4, <2>5
<1> QED BY <1>2, <1>3, <1>4 DEF Billing

(* All billing rows of a context are, when the texts tell the truth too.   *)
LEMMA BillingIsOwn ==
    ASSUME TypeOK, Truthful,
           NEW a \in Accounts, NEW p \in InvoicePrefixes(a), NEW r \in Billing(a, p)
    PROVE  r.of = a
<1>1. r \in Rows
  BY DEF Billing, TypeOK
<1>2. r.of = a \/ ByText(a, p, r)
  BY KeysFindOwn DEF Truthful
<1> QED BY <1>1, <1>2 DEF ByText, Truthful, TruthfulTexts

(* Unless the policy keeps a source as a whole, a run takes the resolved   *)
(* rows of each source and no others: those of an unresolved one are none. *)
LEMMA OthersAreResolved ==
    ASSUME Strict, NEW a \in Accounts
    PROVE  Others(a) = UNION {Resolved(a, src) : src \in Sources}
BY DEF Others, Strict

(* The resolved rows are the account's own.                                *)
LEMMA ResolvedAreOwn ==
    ASSUME TypeOK, TruthfulKeys, NEW a \in Accounts, NEW src, NEW r \in Resolved(a, src)
    PROVE  r.of = a
<1>1. \A q \in others : q \in OtherRows
  BY DEF TypeOK
<1>2. ASSUME NEW q \in others, Keyed(a, q) PROVE q.of = a
  <2>1. CASE q.source = "purchase_orders"
    <3>1. q.contract \in contracts /\ Holder[q.contract] = a
      BY <1>2, <2>1 DEF Keyed, ContractIds
    <3> QED BY <1>1, <3>1 DEF TruthfulKeys, TypeOK
  <2>2. CASE q.source # "purchase_orders"
    BY <1>1, <1>2, <2>2 DEF Keyed, TruthfulKeys
  <2> QED BY <2>1, <2>2
<1>3. CASE src = "support_tickets"
  <2>1. PICK q \in others : q.ticket = r.ticket /\ Keyed(a, q)
    BY <1>3 DEF Resolved
  <2>2. r \in others /\ r.ticket # "none"
    BY <1>3 DEF Resolved
  <2>3. q.of = r.of
    BY <1>1, <2>1, <2>2 DEF TruthfulKeys
  <2> QED BY <1>2, <2>1, <2>3
<1>4. CASE src # "support_tickets"
  BY <1>2, <1>4 DEF Resolved
<1> QED BY <1>3, <1>4

(* Unless the policy keeps a source as a whole, so are all other rows.     *)
LEMMA OthersAreOwn ==
    ASSUME TypeOK, Truthful, Strict, NEW a \in Accounts, NEW r \in Others(a)
    PROVE  r.of = a
<1>1. PICK src \in Sources : r \in Resolved(a, src)
  BY OthersAreResolved
<1> QED BY <1>1, ResolvedAreOwn DEF Truthful

(* What BuildContext takes.                                                *)
LEMMA ContextIsOwn ==
    ASSUME TypeOK, Truthful, Strict, NEW a \in Accounts, BuildContext(a)
    PROVE  last'.account = a /\ \A r \in last'.rows : r.of = a
<1>1. PICK p \in InvoicePrefixes(a) :
          last' = [account |-> a, outcome |-> "built", rows |-> Billing(a, p) \cup Others(a)]
  BY DEF BuildContext
<1> QED BY <1>1, BillingIsOwn, OthersAreOwn

-----------------------------------------------------------------------------
LEMMA StepIsOwn ==
    ASSUME Truthful, Strict, TypeOK, NoForeignRow, [Next]_vars
    PROVE  NoForeignRow'
<1>1. ASSUME NEW a \in Accounts, BuildContext(a) PROVE NoForeignRow'
  BY <1>1, ContextIsOwn DEF NoForeignRow
<1>2. ASSUME NEW a \in Accounts, ContextRaises(a) PROVE NoForeignRow'
  BY <1>2 DEF ContextRaises, NoForeignRow
<1>3. ASSUME last' = last PROVE NoForeignRow'
  BY <1>3 DEF NoForeignRow
<1> QED BY <1>1, <1>2, <1>3 DEF Next, Sign, Book, Append, vars

(* "a second customer's data must not bleed into the first one's report":  *)
(* true of every pair of customers when the rows point at whom they are    *)
(* of, no text of a row without keys names another customer, and no policy *)
(* keeps a source as a whole.                                              *)
THEOREM NothingBleeds ==
    ASSUME Truthful, Strict
    PROVE  Spec => []NoForeignRow
<1>1. Init => NoForeignRow
  BY DEF Init, NoForeignRow
<1>2. TypeOK /\ NoForeignRow /\ [Next]_vars => NoForeignRow'
  BY StepIsOwn
<1> QED BY <1>1, <1>2, TypeCorrect, PTL DEF Spec

(* A row of another customer is in a context only in one of two ways: by   *)
(* its text, when it has an amount and no key at all, or with the whole of *)
(* a source that nothing of the account was found in.                      *)
ForeignRowIsExplained ==
    \A r \in last.rows :
        \/ r.of = last.account
        \/ r \in Rows /\ Keyless(r) /\ r.amount /\ last.account \in r.names
        \/ /\ r \in OtherRows /\ r.source \in Policed
           /\ Policy[last.account] = "include_with_warning"

LEMMA ContextIsExplained ==
    ASSUME TypeOK, TruthfulKeys, NEW a \in Accounts, BuildContext(a)
    PROVE  ForeignRowIsExplained'
<1>1. PICK p \in InvoicePrefixes(a) :
          last' = [account |-> a, outcome |-> "built", rows |-> Billing(a, p) \cup Others(a)]
  BY DEF BuildContext
<1>2. ASSUME NEW r \in Billing(a, p)
      PROVE  r.of = a \/ (r \in Rows /\ Keyless(r) /\ r.amount /\ a \in r.names)
  <2>1. r.of = a \/ ByText(a, p, r)
    BY KeysFindOwn
  <2>2. r \in Rows
    BY DEF Billing, TypeOK
  <2> QED BY <2>1, <2>2 DEF ByText
<1>3. ASSUME NEW r \in Others(a)
      PROVE  \/ r.of = a
             \/ /\ r \in OtherRows /\ r.source \in Policed
                /\ Policy[a] = "include_with_warning"
  <2>1. PICK src \in Sources :
            \/ r \in Resolved(a, src)
            \/ /\ src \in Unresolved(a) /\ Policy[a] = "include_with_warning"
               /\ r \in others /\ r.source = src
    BY DEF Others
  <2>2. CASE r \in Resolved(a, src)
    BY <2>2, ResolvedAreOwn
  <2>3. CASE r \notin Resolved(a, src)
    BY <2>1, <2>3 DEF Unresolved, TypeOK
  <2> QED BY <2>2, <2>3
<1> QED BY <1>1, <1>2, <1>3 DEF ForeignRowIsExplained

(* Whatever the texts say and whatever the policies are, there is no third *)
(* way for a row of one customer into the report of another, as long as    *)
(* the keys of the rows tell the truth.                                    *)
THEOREM ForeignRowsAreExplained ==
    ASSUME TruthfulKeys
    PROVE  Spec => []ForeignRowIsExplained
<1>1. Init => ForeignRowIsExplained
  BY DEF Init, ForeignRowIsExplained
<1>2. TypeOK /\ ForeignRowIsExplained /\ [Next]_vars => ForeignRowIsExplained'
  <2> SUFFICES ASSUME TypeOK, ForeignRowIsExplained, [Next]_vars PROVE ForeignRowIsExplained'
    OBVIOUS
  <2>1. ASSUME NEW a \in Accounts, BuildContext(a) PROVE ForeignRowIsExplained'
    BY <2>1, ContextIsExplained
  <2>2. ASSUME NEW a \in Accounts, ContextRaises(a) PROVE ForeignRowIsExplained'
    BY <2>2 DEF ContextRaises, ForeignRowIsExplained
  <2>3. ASSUME last' = last PROVE ForeignRowIsExplained'
    BY <2>3 DEF ForeignRowIsExplained, Keyless
  <2> QED BY <2>1, <2>2, <2>3 DEF Next, Sign, Book, Append, vars
<1> QED BY <1>1, <1>2, TypeCorrect, PTL DEF Spec

(* The rows of one invoice are in a context together: once one of them is  *)
(* the account's, the others are found by the invoice id.                  *)
THEOREM InvoicesStayWhole ==
    ASSUME Truthful, OneCode, Strict
    PROVE  Spec => InvoicesAreWhole
<1> DEFINE Whole == \A r, q \in billing :
          (r.invoice # "none" /\ r.invoice = q.invoice /\ Pattern[r.invoice] # "none") =>
              (last' # last => (r \in last'.rows <=> q \in last'.rows))
<1>1. TypeOK /\ [Next]_vars => [Whole]_vars
  <2> SUFFICES ASSUME TypeOK, Next PROVE Whole
    OBVIOUS
  <2>1. ASSUME NEW a \in Accounts, BuildContext(a),
               NEW r \in billing, NEW q \in billing, r.invoice # "none",
               r.invoice = q.invoice, Pattern[r.invoice] # "none", r \in last'.rows
        PROVE  q \in last'.rows
    <3>1. PICK p \in InvoicePrefixes(a) :
              last' = [account |-> a, outcome |-> "built", rows |-> Billing(a, p) \cup Others(a)]
      BY <2>1 DEF BuildContext
    <3>2. r.of = a
      BY <2>1, ContextIsOwn
    <3>3. r.invoice \in Documents /\ IssuedTo[r.invoice] = a
      BY <2>1, <3>2 DEF Truthful, TruthfulKeys, TypeOK
    <3>4. Pattern[r.invoice] \in PossibleCodes(a) /\ p \in PossibleCodes(a)
      BY <2>1, <3>3, PrefixIsPossible DEF Truthful, TruthfulKeys
    <3>5. Pattern[q.invoice] = p
      BY <2>1, <3>4 DEF OneCode
    <3> QED BY <2>1, <3>1, <3>5 DEF Billing, ByInvoice
  <2>2. ASSUME NEW a \in Accounts, BuildContext(a) PROVE Whole
    BY <2>1, <2>2
  <2>3. ASSUME NEW a \in Accounts, ContextRaises(a) PROVE Whole
    BY <2>3 DEF ContextRaises
  <2>4. ASSUME last' = last PROVE Whole
    BY <2>4
  <2> HIDE DEF Whole
  <2> QED BY <2>2, <2>3, <2>4 DEF Next, Sign, Book, Append
<1> QED BY <1>1, TypeCorrect, PTL DEF Spec, InvoicesAreWhole

-----------------------------------------------------------------------------
(* The account of the last run could be run again, and would get no less.  *)
StillBuilds ==
    last.outcome = "built" =>
        /\ ContractIds(last.account) # {}
        /\ InvoicePrefixes(last.account) # {}
        /\ Policy[last.account] = "hard_fail" => Unresolved(last.account) = {}
        /\ \A p \in PossibleCodes(last.account) :
              last.rows \subseteq Billing(last.account, p) \cup Others(last.account)

(* As the exports grow, everything a run finds grows.                      *)
LEMMA ExportsOnlyAdd ==
    ASSUME TypeOK, TypeOK', OneCode, Strict, NEW a \in Accounts,
           contracts \subseteq contracts', billing \subseteq billing', others \subseteq others'
    PROVE  /\ ContractIds(a) \subseteq ContractIds(a)'
           /\ \A p \in InvoicePrefixes(a) : p \in InvoicePrefixes(a)'
           /\ Unresolved(a)' \subseteq Unresolved(a)
           /\ Others(a) \subseteq Others(a)'
           /\ \A p \in PossibleCodes(a) : Billing(a, p) \subseteq Billing(a, p)'
<1>1. ContractIds(a) \subseteq ContractIds(a)'
  BY DEF ContractIds
<1>2. ASSUME NEW p \in InvoicePrefixes(a) PROVE p \in InvoicePrefixes(a)'
  <2>1. CASE Prefix[a] # "none"
    BY <1>2, <2>1 DEF InvoicePrefixes
  <2>2. CASE Prefix[a] = "none"
    <3>1. CodesOf(a) \subseteq CodesOf(a)'
      BY <1>1 DEF CodesOf
    <3>2. p \in CodesOf(a)'
      BY <1>2, <2>2, <3>1 DEF InvoicePrefixes
    <3>3. CodesOf(a)' \subseteq PossibleCodes(a)
      BY <2>2 DEF PossibleCodes, CodesOf, ContractIds, TypeOK
    <3>4. \A q \in CodesOf(a)' : q = p
      BY <3>2, <3>3 DEF OneCode
    <3>5. Uses(a, p)' \in Nat
      <4>1. {c \in ContractIds(a)' : p \in Within[c]} \subseteq Contracts
        BY DEF ContractIds, TypeOK
      <4>2. IsFiniteSet({c \in ContractIds(a)' : p \in Within[c]})
        BY <4>1, FS_Subset, SourcesAssumption
      <4> QED BY <4>2, FS_CardinalityType DEF Uses
    <3>6. \A q \in CodesOf(a)' : Uses(a, q)' <= Uses(a, p)'
      BY <3>4, <3>5
    <3> QED BY <2>2, <3>2, <3>6 DEF InvoicePrefixes
  <2> QED BY <2>1, <2>2
<1>3. ASSUME NEW src PROVE Resolved(a, src) \subseteq Resolved(a, src)'
  <2>1. \A q : Keyed(a, q) => Keyed(a, q)'
    BY <1>1 DEF Keyed
  <2> QED BY <2>1 DEF Resolved
<1>4. Unresolved(a)' \subseteq Unresolved(a)
  BY <1>3 DEF Unresolved
<1>5. Others(a) \subseteq Others(a)'
  <2>1. Others(a) = UNION {Resolved(a, src) : src \in Sources}
    BY OthersAreResolved
  <2>2. Others(a)' = UNION {Resolved(a, src)' : src \in Sources}
    BY DEF Others, Strict
  <2> QED BY <1>3, <2>1, <2>2
<1>6. ASSUME NEW p PROVE Billing(a, p) \subseteq Billing(a, p)'
  <2>1. \A r : ByContract(a, r) => ByContract(a, r)'
    BY <1>1 DEF ByContract
  <2>2. Seed(a, p) \subseteq Seed(a, p)'
    BY <2>1 DEF Seed
  <2>3. \A r : ByCredit(a, p, r) => ByCredit(a, p, r)'
    BY <2>2 DEF ByCredit
  <2> QED BY <2>1, <2>3 DEF Billing
<1> QED BY <1>1, <1>2, <1>4, <1>5, <1>6

(* Every step of the module keeps that up.                                 *)
LEMMA StepStillBuilds ==
    ASSUME OneCode, Strict, TypeOK, TypeOK', StillBuilds, [Next]_vars
    PROVE  StillBuilds'
<1>1. ASSUME NEW a \in Accounts, BuildContext(a) PROVE StillBuilds'
  <2>1. PICK p \in InvoicePrefixes(a) :
            last' = [account |-> a, outcome |-> "built", rows |-> Billing(a, p) \cup Others(a)]
    BY <1>1 DEF BuildContext
  <2>2. \A q \in PossibleCodes(a) : q = p
    BY PrefixIsPossible DEF OneCode
  <2>3. UNCHANGED <<contracts, billing, others>>
    BY <1>1 DEF BuildContext
  <2>4. /\ ContractIds(a)' = ContractIds(a)
        /\ InvoicePrefixes(a)' = InvoicePrefixes(a)
        /\ Unresolved(a)' = Unresolved(a)
        /\ Others(a)' = Others(a)
        /\ \A q : Billing(a, q)' = Billing(a, q)
    BY <2>3 DEF ContractIds, InvoicePrefixes, CodesOf, Uses, Unresolved, Others, Resolved,
                Keyed, Billing, ByContract, ByInvoice, ByCredit, Seed, ByText
  <2>5. ContractIds(a) # {} /\ (Policy[a] = "hard_fail" => Unresolved(a) = {})
    BY <1>1 DEF BuildContext
  <2> QED BY <2>1, <2>2, <2>4, <2>5 DEF StillBuilds
<1>2. ASSUME NEW a \in Accounts, ContextRaises(a) PROVE StillBuilds'
  BY <1>2 DEF ContextRaises, StillBuilds
<1>3. ASSUME last' = last, contracts \subseteq contracts', billing \subseteq billing',
             others \subseteq others'
      PROVE  StillBuilds'
  <2>1. last.account \in Accounts
    BY DEF TypeOK
  <2> QED BY <1>3, <2>1, ExportsOnlyAdd DEF StillBuilds
<1> QED BY <1>1, <1>2, <1>3 DEF Next, Sign, Book, Append, vars

(* What a run leaves of the one before it, for the same account.           *)
Kept == (last.outcome = "built" /\ last'.account = last.account) =>
            last'.outcome = "built" /\ last.rows \subseteq last'.rows

LEMMA StepKeeps ==
    ASSUME OneCode, Strict, TypeOK, StillBuilds, Next
    PROVE  Kept
<1> USE DEF Kept
<1>1. ASSUME NEW a \in Accounts, BuildContext(a) PROVE Kept
  <2>1. PICK p \in InvoicePrefixes(a) :
            last' = [account |-> a, outcome |-> "built", rows |-> Billing(a, p) \cup Others(a)]
    BY <1>1 DEF BuildContext
  <2> QED BY <2>1, PrefixIsPossible DEF StillBuilds
<1>2. ASSUME NEW a \in Accounts, ContextRaises(a) PROVE Kept
  BY <1>2 DEF ContextRaises, StillBuilds
<1>3. ASSUME last' = last PROVE Kept
  BY <1>3
<1> HIDE DEF Kept
<1> QED BY <1>1, <1>2, <1>3 DEF Next, Sign, Book, Append

(* A later run for an account has every row the earlier one had, and does  *)
(* not begin to fail: as long as the account's code never changes and no   *)
(* policy keeps a source as a whole.                                       *)
THEOREM RerunsAreMonotonic ==
    ASSUME OneCode, Strict
    PROVE  Spec => RerunsLoseNothing
<1>1. Init => StillBuilds
  BY DEF Init, StillBuilds
<1>2. TypeOK /\ StillBuilds /\ [Next]_vars => [Kept]_vars
  BY StepKeeps
<1>3. TypeOK /\ TypeOK' /\ StillBuilds /\ [Next]_vars => StillBuilds'
  BY StepStillBuilds
<1>4. Spec => [][Kept]_vars
  BY <1>1, <1>2, <1>3, TypeCorrect, PTL DEF Spec
<1> QED BY <1>4 DEF Kept, RerunsLoseNothing
=============================================================================
