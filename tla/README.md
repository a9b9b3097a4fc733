# A TLA+ model of the renewal-report pipeline

The program (`src/challenge/`) turns eight CSV exports into a renewal-risk PDF for
one customer. It computes the facts itself, asks a language model once for a
narrative, checks that narrative, and prints it or a report without it. This
directory models the parts whose correctness depends on the order of steps, on
failures and on boundaries, checks them with TLC, and proves the main results
with TLAPS. Paths such as `pipeline.py` are relative to `src/src/challenge/`.

## 1. Inventory

| Part | Code | State it keeps | Operations | What makes it correct |
|---|---|---|---|---|
| Pipeline | `pipeline.py`, `__main__.py` | `verdict`, `verification`, `fallback_used`, counts, the PDF | `run()`'s seven stages, `main()`'s prints and exit code | no unchecked narrative without the banner; the exit code and the provenance are true; a failed run leaves the old report alone; every run ends |
| LLM client | `llm/client.py` | attempt number; pricing globals | `call_with_tool`, `_do_call`, `estimate_cost_usd` | bounded spending, a transient failure is final only when both loops are spent, the call ends |
| Synthesis | `llm/synthesis.py` | none | prompt file, one call, schema validation | a shape error keeps the token counts |
| Gate | `verify.py` | none (a policy file) | four checks over the verdict | invented numbers are refused, honest ones are not, more excerpts refuse nothing |
| Attribution | `ingest/joins.py` | none (a customer file) | prefix derivation, billing keys, one resolver per source, policy | no foreign row, whole invoices, nothing lost as exports grow |
| CSV loading | `ingest/data_io.py` | none | read, parse fallback, schema check | what is dropped is counted |
| Canonicalisation | `ingest/canonical.py` | a log (and a rule file per column) | known, alias, fuzzy match, unknown | what people settled stays settled, what is not known is surfaced |
| Summary | `enrich/summary.py` | none | billing, usage, support facts, rule flags | counts agree with the events, a flag is cleared by what answers it, a ticket's status by a change of it |
| Signals | `enrich/signals.py` | none (a policy file; the clock) | selection, deduplication, cut | open urgent tickets are shown, an excerpt leaves for a reason, an id keeps its text |
| Renderer | `render.py` | the PDF file | story in memory, then `doc.build` | complete or not touched |
| Configuration | `config/loader.py`, `config/customer.py` | `_cache` | `load_yaml`, `load_customer_config` | one content per run |

The parts call one another in one thread of one process; what makes the system
hard is elsewhere:

- **Failure.** Two `except` clauses in `run()` recover, everything outside them
  aborts. `verify()`, pricing and rendering can each fail after the provider has
  been paid.
- **Timeouts and retries.** tenacity's loop is around the SDK's own. A request
  given up on may still be processed and billed.
- **Crash and rerun.** A process may be killed at any step and started again; the
  PDF of the earlier run is on disk, and the file being written is empty first.
- **Staleness.** Files of `config/` are read at different stages, some through the
  cache and some past it, while an operator may edit them.
- **Growth.** Exports grow between runs, so the same account is resolved again
  from more contracts and rows; rule files gain the answers to what was surfaced, and
  the calendar moves the window of recent interactions.
- **Order.** Rows come out of order, with equal or missing timestamps, and the sorts are
  not stable: which row of a ticket is first or last is decided by ties.
- **Boundaries.** The gate compares rounded, signed numbers under two tolerances,
  and ids by containment.

`PROJECT.json` lists each hazard at its line with the properties that would show it.

## 2. Modules

| Module | Models |
|---|---|
| `LlmClient` | `client.py`'s call, the SDK's resends, the provider; checked inside `Pipeline` |
| `Report` | what a run promises about its PDF: an abstract specification |
| `Pipeline` | `run()` and `main()`, extending `LlmClient`, implementing `Report` |
| `Gate` | `verify()`'s checks: what is behind `Pipeline`'s constant `Grounded` |
| `Attribution` | `build_account_context`: what is behind `Pipeline`'s `BuildContext` |
| `Canonical` | `canonical.py`: operators on one column and its rule |
| `Summary` | `summary.py`: operators on the rows of one account |
| `Signals` | `signals.py`: operators on the same rows; its bundle is what `Gate` and the provider see |
| `Enrich` | stages 1 to 4 over time: extends `Attribution`, `Canonical`, `Summary` and `Signals` |
| `MC*` | the instances TLC checks |
| `*Proofs` | the theorems |

### LlmClient

`phase` is where the call is: `building` is in `_build_client`, `waiting` is inside
`messages.create`. `attempt` is tenacity's, `resend` the SDK's. `wire` is the request
waited on and `stray` counts those given up on (timeout, lost connection, death)
that the provider may still process; `billed` counts the ones it did. `TimeOut`,
`Overloaded` (429 and 5xx), `Conflict` (408 and 409, which the SDK resends and
`_is_transient` does not know) and `Refused` are the outcomes of waiting, `Deliver`
is the message with or without the tool's block. The backoff is not modelled: it
delays and decides nothing.

### Pipeline

`pc` is the next step of `run()`. A reply is a member of `ToolInputs`; the subsets
`Conforming` (fits the schema), `Grounded` (no diagnostic from `verify()`) and `Broken` (prose
reportlab cannot parse) are what control tells apart. `disk` is the state of each
configuration file (`good`, `malformed`, `missing`) and `loaded` the cache of the process.
`Recover` is the generic `except Exception`; `Validate` has the handler of
`SynthesisValidationError` in it; `Abort` is an exception that leaves `run()`.
`OpenReport` and `WriteReport` are two steps because `doc.build` opens the file first. Then the
file is complete and nobody has been told: `main()` prints (`__main__.py:36-54`), which may raise
(`PrintRaises`, a closed pipe or a name outside stdout's encoding) or be killed, before `Exit` returns 0 or 2.
`Misused` is a call argparse turns away, with a 2 of its own and before anything ran.
`BuildSummary` needs the customer file to exist although its content is cached, as
`load_customer_config` does. `Kill`, `Edit` and `Launch` are the environment's.

### Report

The promise: a run is `working`, opens the file (`publishing`, `damaged`), completes it (`published`), and only
then tells its status; it may fail at each of these steps, and a call may fail without becoming a run
(`Misuse`). `accepted` is told of a verified file only.

### Gate

Numbers are integers in hundredths. `Tenth` is `round(v, 1)`: how a tie is rounded
depends on the binary value, so it is a constant operator of which only an error
of at most 0.05 and a whole number of tenths are assumed (the run takes round half up).
`Contains` says which id's text is within which. `Retrieve` adds one excerpt at a
time, so that a property may compare a bundle with a larger one.
`RelTol`, `Years` and `MinChars` have the values of `config/verification/renewal.yaml`.

### Attribution

A row has what its keys point at; `of` is the account whose row it really is,
which the code cannot see. `Sign`, `Book` and `Append` let the exports grow in any
order, and `BuildContext` and `ContextRaises` are a run for an account.
`Within` has the codes that stand between hyphens in a contract's id: `Uses` counts those, as the code does, and
not the ids whose own code it is. `InvoicePrefixes` is a set because `max()` over a set of strings decides a tie by an
order that differs between processes. Assumed of the exports and the customer files, each by
name:

- `Truthful`: a row's keys point at its own account and no two customers have one invoice
  code (`TruthfulKeys`), and a row without keys names no other customer (`TruthfulTexts`).
- `OneCode`: an account's contracts show one code, or the prefix is explicit.
- `Strict`: the policy is not `include_with_warning`.

Each is needed. Without `TruthfulTexts` the run `misdirected` puts a foreign payment into
a report. Without `OneCode` a second code that becomes the most used takes the
prefix over and the invoices of the first are lost. Without `Strict` an unresolved
source is taken as a whole, whoever's it is, and shrinks as soon as one row of it
resolves; the shipped customer file has this policy, with a comment that the fixture
is of one customer only.

### Canonical, Summary, Signals

These have no state of their own: they are what stages 1, 3 and 4 compute.

`Canonical`: a rule has the known names and the aliases people confirmed. `Normalise` is
`normalise_value`'s three tiers, known before alias before similar; what remains is
`unknown`, and `Surfaced` is the log's list of it. Spellings are members of `Names` with a
length and a table of similarity (`Score`, rapidfuzz's percentages); among equally similar
names the first in the file is taken, as the code's loop does.

`Summary`: amounts are in cents, with the signs of the exports: credits and refunds
are negative. A date is a day, or `NoDate` where a cell does not parse. `Trend` is
the numerator of the least squares slope `np.polyfit` computes over the places of the weeks,
`Declining` compares it with what rounds to a hundredth below zero; a slope of -0.005 exactly
rounds by its binary value, which the constant operator `HalfDeclines` decides. The two sorts of tickets are not
stable: `FirstRows` and `LastStatuses` are sets, and `Firsts` and `Finals` whatever the sorts may make
of ties. `BillingRaises` and `UsageRaises` are the two places where a fact of nothing raises
(`int()` of a NaN at line 94, `date()` of a NaT at line 179).

`Signals`: an excerpt is the id and the row it stands in; its text is not modelled, and a row has in
`hits` the fields with a keyword. `Alphabet` gives strings an order, so that `Newer` is the code's
sort key. `Bounded` is the cut at `max_signals`: what has fewer than that many excerpts above it.

### Enrich

The actions are those of `Attribution` with the cells the summary and the signals read, and what else
happens between two runs:

| Action | Code or event |
|---|---|
| `BookRow`, `AppendRow` | an export is appended to (a row's `pos` is above those of its file) |
| `Garble` | a line the parser skips comes into a file |
| `Confirm`, `AddName` | people answer a surfaced value in `product_usage.department.yaml` |
| `NextDay` | the clock `retrieve_signals` reads |
| `RunEnriches` | stages 1 to 4: `BuildContext`, then `report` from its rows. `summary.py` and `signals.py` sort each for itself: the final statuses that are `counted` and the `first` rows and `final` statuses the excerpts are of are picked independently |
| `RunRaises` | a run that ends in stage 2 or 3 |

`report` is what the stages hand on: dropped rows per file, outcomes and surfaced values, departments,
the status of each ticket and the number open, open disputes, flags, the bundle. A report that raised is
`NoReport`. What cells hold is `CellsAssumption`: amounts are integers (cents), a usage row has a
week and a whole number of sessions. Three more assumptions, each by name:

- `OneRowPerId`: a row has a place of its own in its file and, except for emails, an id. The
  shipped `emails.csv` does reuse ids (`EM-0055` to `EM-0064` twice each), and the instance has such a pair.
- `Signed`: no invoice has a negative amount.
- `DisputesAreKept`: every dispute row has an invoice id with a code, is opened once and before it is
  resolved. It is a precondition of `OpenDisputesAreCounted` and not of the runs: the instance has a
  dispute (`B6`) without an invoice id, which attribution never finds.

## 3. Runs

| Run | Question | Instance |
|---|---|---|
| `pipeline` | What may a call spend, are the file and the exit code true, does the run implement `Report` and use the client as specified, does it end, does an outage still report? | 1 account, 2 launches, 1 edit, 3 attempts of 2 requests, one reply of each class |
| `gate` | Which numbers pass, and do more excerpts refuse anything? | 3 summaries, 2 excerpts, verdicts on both sides of each threshold |
| `attribution` | Is a context own, whole and monotonic? | 2 customers, 3 contracts, 7 billing rows, 6 others |
| `enrich` | From one report to the next, do facts, flags and excerpts change for a reason? | 3 customers, 8 billing rows, 15 others, 5 spellings, 4 changes |
| `unverified`, `unrecorded`, `markup`, `unretried`, `gate_cites`, `misdirected`, `dropped`, `credits` | Does the code do what a document says? No: see section 5 | small; `dropped` and `credits` that of `enrich` |

Bounds. `MaxLaunches = 2` lets a second run meet every file and every stray request
the first left. `MaxEdits = 1` lets any file of `config/` break or vanish at any stage of either run. Three attempts,
as shipped, of two requests (the SDK's default makes it three) have a first, a middle and a last attempt and a
first and a
last request in each. Liveness is checked on the same states, so there is no smaller instance for it. Processes of
different accounts share only `config/`, which the operator changes regardless of them,
so one account is enough for TLC; the theorems are for any set of accounts and any number of launches, edits, attempts
and requests.
In `attribution` the rows are one of each kind `_filter_billing` tells apart: found by contract, by
invoice only, by a credit note, by text only, another customer's row that mentions
this one, and a credit on another's invoice.

In `enrich` one customer starts with rows in billing, support, CRM, usage and emails, the second's rows may
follow, the
third has no contract, so that every run for it raises.
`MaxChanges = 4` lets two rows of a ticket come out of order, a row of the second customer between them
and a day or an answer to the rule file after them, with runs anywhere in between. A bundle of two places is too
small for the excerpts there are, so that the cut,
the order and the reused id all decide something; the window of two days is left by an interaction in one or two
steps of the calendar. The tickets have a creation exported after its reply, a status change and a survey at
one time and a later reply that carries a status of its own; the interactions have one without a date, the
emails one of three lines. Of the
spellings one is similar to a known name, one is too short to compare, one is nearer to a name that may be added
than to any known. The thresholds of the flags lie between the values the rows can reach.

`CHECK_DEADLOCK FALSE` stands in the pipeline's configurations only: after the last
launch and the last edit allowed by the bounds the system stops.

Fairness. A launched process takes its next stage (`WF` of `Stage(a)`), builds its
request, and its request times out: the operating system schedules it and
`_build_client` sets 60 seconds. Nothing is assumed of the provider, the operator,
kills or input and output errors. `OutageStillReports` names the endings that excuse
it: a broken `pricing.yaml`, an error while rendering or printing, a kill.

Each property of a passing run has a mutant: a plausible wrong form of one
definition, defined before it in the same module, with which TLC finds the
property violated.

## 4. Proofs

All theorems hold for every value of the constants that satisfies the assumptions named in
the modules.

- **`LlmClientProofs`.** `ClientInv` adds to the types where the call can be
  (`CallInv`: inside attempt *k* exactly `(k - 1) * (SdkRetries + 1) + resend + 1` requests have been
  sent) and how requests are counted. `SpendBounded` is not inductive without it: that
  nothing more is sent needs the two loop counters related to `sent`. From it follow
  `SpendBounded`, `RequestsConserved`, `GivesUpOnlyWhenSpent`.
- **`PipelineProofs`.** First, every step of the pipeline is a step of the client or leaves it alone
  (`PipelineUsesClient`), so that the client's results carry over. Then `GateInv`, per account:
  `Judged` (what `verdict`, `verification`, `fallback` and `llmCalls` may be at each `pc`, and once a run has
  `Decided`), `Told`
  (the exit code at each `pc`, and what markup or a misuse needs to end it), `Filed` (which file there is at
  each `pc`, what a
  finished report of any run contains, and that one of this run is what was `Written`, however the process ended) and
  `Linked` (the reply, the verdict taken from it and the recorded count). It is needed because the properties
  speak of the file, and
  what is written to it was decided several steps and handlers before. From it follow
  `TypeOK`, `UnmarkedNarrativeIsGrounded`, `RefusedVerdictIsDropped`, `ExitCodeTellsReport`,
  `RecordedCallWasBilled`, what remains true beside three of the findings of section 5
  (`BannerTellsVerification`, `ProvenanceTellsReply`, `MarkupLeavesReport`), and `PipelineImplementsReport`:
  initial states map to initial
  states, and each action to one of `Report` or to a stutter; `WriteReport` is `Publish`, `Exit` is `Tell`, and
  a kill or a
  raising print between them is `Fail`.
- **`GateProofs`.** The invariant says that a result is that of `Passes` on the current facts,
  bundle and verdict. The rest is arithmetic of `NearNumber` and `Tenth`
  under `TenthAssumption`, and monotonicity of the citable ids in the bundle.
- **`AttributionProofs`.** Rows found by each key are the account's own under `Truthful`; what
  a run finds grows with the exports under `OneCode` and `Strict`. `RerunsLoseNothing`
  needs `StillBuilds`: between two runs, the account could be run again and would get
  no less. `ForeignRowsAreExplained` needs `TruthfulKeys` alone: whatever texts say and policies are, the way the
  run `misdirected` shows and a source kept as a whole are the only two ways for a foreign row into a context.
- **`EnrichProofs`.** Every step of `Enrich` is one of `Attribution` or leaves it alone
  (`EnrichStepIsStep`), so that the lemmas of `AttributionProofs` carry over: `NoForeignRow` does.
  `LinesAreCounted` bounds the lines of a file by its rows, from which `LossIsReported` follows.
  `Tiers` says what each outcome of `Normalise` means and `RuleGrows` that the rule file only gains; with
  `Settled` (what a report says is settled, the rule file says too) they give `DriftIsVisible` and
  `ConfirmedNamesStay`.
  `DisputesPairUp` maps each resolution to the dispute it resolves, one to one, for
  `OpenDisputesAreCounted`, with `DisputesAreAttributed` from `Truthful`, `OneCode` and `Strict`.
- **`ExcerptProofs`.** `Places`: in a total order the number of elements above one is a
  place of its own, and every place is taken. So what `Bounded` cuts off leaves exactly `MaxSignals`
  newer excerpts (`Cut`). `FoundAreDistinct`: of the excerpts with one id, one is left, and then date and id order
  them totally. Two invariants remember what a report leaves: `Remembered`
  (the bundle is the one of the last run's rows) and `EmailsArriveBelow` (an email the run has not seen
  is below those it has, so that it never takes a reused id). With `TicketIsTheSame` they give `FoundAgain`:
  what was found is found again unless its ticket was restated or its day is over. From it
  `ExcerptsLeaveForAReason` and `IdsKeepTheirText`; `UrgentTicketIsShown` needs the cut only. For
  `StatusMovesForAReason` the
  invariant `Counted` says of what rows a report's statuses are, and `StatusIsTheSame` that the last change of a
  ticket
  decides them as long as it is last and alone at its date.

- **`FlagProofs`.** The balance and the trend are sums over sets of rows, which the library defines by
  recursion over the set. What a sum is for every set takes an induction, and here it is an argument about
  the smallest set of a family (`SmallestSet`), which the well-foundedness of the natural numbers gives: a
  smallest set on
  which two recursions differ, on which two sums are in the wrong order. From `SumIsOfAnyRecursion`
  and `SumTakesOut` follow the few laws the models need (monotonic, of equal values, of
  differences, bounded). For the trend, take out the last week: what the sum loses has the sign of what the last
  week is
  above the others (`TrendStep`), hence `SteadyTrend`. `RankSums` gives the trend of use that is one more
  each week as n(n<sup>2</sup> - 1) / 6, so that `Trend` over that number is the slope of least squares;
  by `FallingTrend` use that falls by at least a session a week has a slope of -1 or less, which no
  rounding to hundredths hides. The invariant is `FlagsOfRows`: the flags of a report are those of the rows of its
  run. With `StillBuilds` (the rows are among the next run's), `OutstandingGrows` and the
  counts of reminders and breaches it gives `FlagsClearForAReason`, under `OneCode`, `Strict` and `Signed`.

Only model-checked: `CallEnds`, `RunEnds` and `OutageStillReports`, as liveness under fairness is
outside what the prover does. Every invariant and action property of a passing run is a theorem. The eight
violated properties are shown by TLC's counterexamples.

## 5. Where the code and its documents disagree

For three of them and the sixth there is also a theorem of what stays true: the banner is on every report
the gate did not pass (1); no other delivered message is unrecorded (2); the earlier report survives (3); a row
gets in by its text or with its whole source only (6).

1. `verify()` raising (its policy file missing or malformed) leaves the verdict set, and
   the generic handler at `pipeline.py:143` prints it below a banner that says the narrative was
   generated by rules (`unverified`).
2. A delivered, billed message without the tool's block is reported as no call at all
   (`unrecorded`, `client.py:200`).
3. Markup in the prose ends the run without a report; PLAN.md has it sanitised (`markup`,
   `render.py:451`).
4. A message without the tool's block, or of another shape, is given up at once; PLAN.md:213 and 215 have each
   retried once (`unretried`, `client.py:200`, `synthesis.py:128`).
5. The ids a talking point cites are not compared with the excerpts (`gate_cites`,
   `verify.py:280`).
6. A row without keys belongs to every customer its text names (`misdirected`,
   `joins.py:176`).
7. Dropped rows are counted as lines less rows (`data_io.py:84`), so a quoted field with line breaks counts
   as rows dropped because malformed (`dropped`). Of the shipped `emails.csv`, 754 lines and 77 rows,
   677 rows are reported dropped and none was. `LossIsReported` is what remains true: never too few.
8. Credits are stored negative and subtracted, so a credit note raises the balance it should reduce
   (`credits`, `summary.py:72` against its comment at line 53). `Clears` in `FlagsClearForAReason` takes the comment's
   side: a credit note may clear the flag.

Read off the code while modelling it, without a run of their own:

- `main()` says 2 means "soft-fail (PDF still produced)" (`__main__.py:55`), and argparse ends with 2 as well, before
  anything ran. `ExitCodeTellsReport` excepts `Misused` by name and asks that it leaves the file alone.
- An id in the prose passes when it is part of a citable one (`verify.py:274`): TKT-48 beside TKT-4891, though
  README.md:130-131 says every id "must exist in the source". The model has the containment (`Contains`), and no
  property says that invented ids are refused.
- Numbers of every excerpt are allowed (`verify.py:157`), not of cited ones only as README.md:129 has it.
- The bundle is cut by recency only (`signals.py:205`), where PLAN.md:176 has "recency × priority", and excerpts are
  deduplicated by id, where PLAN.md:178 has a content hash: the second email of a reused id is never shown.
- `retrieve_signals` says "Stable for identical inputs" (`signals.py:99`) and reads the clock: the same exports give
  another bundle the next day, which `ExcerptsLeaveForAReason` has as one of its reasons.

## 6. Not modelled

- Which lines parse: `Garble` chooses what is skipped, and the latin-1 retry and the two parsers of
  `_read_csv` are within that choice; in `Pipeline`, `LoadAll` succeeds or `BadData` raises.
- Facts no flag and no check uses: counts by category, quarter averages, resolution times, top department.
- The text of excerpts and its cut at `text_field_max_chars`, and which words are keywords.
- Regular expressions, number formats, layout, the chart, wording, token prices.
- Fuzzy matching switched off in a rule file: no shipped file does.
- An `account_id` column in the four policed sources: the shipped exports have none.
- The interpreter's own exit 120 when stdout cannot be flushed after `main()` has returned, and the SDK's header
  `x-should-retry`.
- Two overlapping processes for one account: the program is started once per customer, and
  the models start a process for an account when the last one has ended.
- Threads: the loader's lock is not contended by the pipeline.
- `models.py` has types only; what its validators refuse is `Conforming` of `Pipeline`.
- `tests/`, `benchmarks` and `scratch/`: they are read as documents of the program, not modelled.

## 7. What is left

1. `Pipeline` with overlapping processes for one account over one PDF path.
2. `Pipeline` composed with `Enrich` and `Gate`: `BuildContext` and the summary's steps from `RunEnriches`,
`Grounded` from
   `Passes` on the bundle of that run. Each is checked by itself now, and `Pipeline` takes any result of the others.
3. The balance as an account a customer and a finance office keep, refined by `Outstanding`, once the signs
   of credits and refunds are settled (section 5).
