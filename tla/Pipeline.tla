------------------------------ MODULE Pipeline ------------------------------
(***************************************************************************)
(* src/challenge/pipeline.py: run(), from ingest to the PDF, with the      *)
(* client's call inside it and __main__.py's exit code after it.  Every    *)
(* account is renewed by a process of its own; the processes share the     *)
(* config/ directory, which an operator may edit while they run, and each  *)
(* keeps its own cache of the YAML files it has read (config/loader.py).   *)
(* A process may be killed at any step and be launched again.              *)
(*                                                                         *)
(* The data of a run is abstracted to what control depends on: which       *)
(* stage may raise, and of a reply whether it fits the schema (Conforming),*)
(* whether the gate's checks hold of it (Grounded), and whether its prose  *)
(* has markup the PDF library rejects (Broken).                            *)
(***************************************************************************)
EXTENDS LlmClient

CONSTANTS
    Conforming,   \* tool inputs RenewalVerdict.model_validate accepts
    Grounded,     \* those for which verify() has no diagnostic
    Broken,       \* those whose prose Paragraph() cannot parse
    MaxLaunches,  \* bound: processes started for one account
    MaxEdits      \* bound: edits of config/ by the operator

ASSUME VerdictsAssumption ==
    /\ Conforming \subseteq ToolInputs
    /\ Grounded \subseteq Conforming
    /\ Broken \subseteq Conforming

VARIABLES
    pc,            \* the next step of run()
    skip,          \* --skip-llm
    verdict,       \* the verdict to be rendered, "none" for None
    verification,  \* verify()'s result, "none" for None
    fallback,      \* fallback_used
    llmCalls,      \* llm_calls, set together with the token counts
    raised,        \* the exception that ended the process
    exit,          \* its exit code
    loaded,        \* config/loader.py's _cache of the process
    disk,          \* config/ on disk
    edits,         \* edits so far
    launches,      \* processes started so far for the account
    report         \* the PDF on disk

runVars  == <<pc, skip, verdict, verification, fallback, llmCalls, raised, exit, loaded>>
diskVars == <<disk, edits>>
pipeVars == <<runVars, diskVars, launches, report>>
vars     == <<clientVars, pipeVars>>

Configs  == {"customer", "signals", "prompt", "policy", "pricing"}
Contents == {"good", "malformed", "missing"}
Ingest   == {"load", "context", "summary", "signals"}
Running  == Ingest \cup {"gate", "prompt", "calling", "verify", "cost", "render", "write",
                       "print"}
Over     == {"done", "aborted", "killed"}

NoReport == [part |-> "none", narrative |-> "none", banner |-> FALSE,
             verification |-> "none", llmCalls |-> 0, run |-> 0]

Results  == {"none", "passed", "failed"}
Reports  == [part : {"none", "partial", "complete"}, narrative : Conforming \cup {"none"},
             banner : BOOLEAN, verification : Results, llmCalls : {0, 1}, run : Nat]

TypeOK ==
    /\ ClientTypeOK
    /\ pc           \in [Accounts -> Running \cup Over \cup {"idle"}]
    /\ skip         \in [Accounts -> BOOLEAN]
    /\ verdict      \in [Accounts -> Conforming \cup {"none"}]
    /\ verification \in [Accounts -> Results]
    /\ fallback     \in [Accounts -> BOOLEAN]
    /\ llmCalls     \in [Accounts -> {0, 1}]
    /\ raised       \in [Accounts -> {"none", "usage", "data", "config", "markup", "io", "print"}]
    /\ exit         \in [Accounts -> {"none", "0", "1", "2"}]
    /\ loaded       \in [Accounts -> SUBSET Configs]
    /\ disk         \in [Configs -> Contents]
    /\ edits        \in Nat
    /\ launches     \in [Accounts -> Nat]
    /\ report       \in [Accounts -> Reports]

Init ==
    /\ ClientInit
    /\ pc           = [a \in Accounts |-> "idle"]
    /\ skip         = [a \in Accounts |-> FALSE]
    /\ verdict      = [a \in Accounts |-> "none"]
    /\ verification = [a \in Accounts |-> "none"]
    /\ fallback     = [a \in Accounts |-> FALSE]
    /\ llmCalls     = [a \in Accounts |-> 0]
    /\ raised       = [a \in Accounts |-> "none"]
    /\ exit         = [a \in Accounts |-> "none"]
    /\ loaded       = [a \in Accounts |-> {}]
    /\ disk         = [f \in Configs |-> "good"]
    /\ edits        = 0
    /\ launches     = [a \in Accounts |-> 0]
    /\ report       = [a \in Accounts |-> NoReport]

-----------------------------------------------------------------------------
(* Frames.  A step of run() is a step of one process that leaves the other *)
(* processes, the operator's files and (mostly) the client alone.          *)

Goto(a, l) == pc' = [pc EXCEPT ![a] = l]

(* An exception nobody catches: a traceback and exit code 1.  argparse's   *)
(* own way out is Misused.                                                 *)
Abort(a, exc) ==
    /\ Goto(a, "aborted")
    /\ raised' = [raised EXCEPT ![a] = exc]
    /\ exit'   = [exit EXCEPT ![a] = "1"]

(* load_yaml: the cache first, then the disk; only a parsed file is stored.*)
Readable(a, f) == f \in loaded[a] \/ disk[f] = "good"
Remember(a, f) == loaded' = [loaded EXCEPT ![a] = @ \cup {f}]

-----------------------------------------------------------------------------
(* The process.                                                            *)

(* Mutant: the count of the earlier run is carried over.                   *)
FreshKeepsCount(a, key) ==
    /\ pc[a] \in Over \cup {"idle"}
    /\ launches[a] < MaxLaunches
    /\ Boot(a, key)
    /\ verdict'      = [verdict EXCEPT ![a] = "none"]
    /\ verification' = [verification EXCEPT ![a] = "none"]
    /\ fallback'     = [fallback EXCEPT ![a] = FALSE]
    /\ loaded'       = [loaded EXCEPT ![a] = {}]
    /\ launches'     = [launches EXCEPT ![a] = @ + 1]
    /\ UNCHANGED <<diskVars, llmCalls, report>>

(* A new process, whose variables are its own.                             *)
Fresh(a, key) ==
    /\ pc[a] \in Over \cup {"idle"}
    /\ launches[a] < MaxLaunches
    /\ Boot(a, key)
    /\ verdict'      = [verdict EXCEPT ![a] = "none"]
    /\ verification' = [verification EXCEPT ![a] = "none"]
    /\ fallback'     = [fallback EXCEPT ![a] = FALSE]
    /\ llmCalls'     = [llmCalls EXCEPT ![a] = 0]
    /\ loaded'       = [loaded EXCEPT ![a] = {}]
    /\ launches'     = [launches EXCEPT ![a] = @ + 1]
    /\ UNCHANGED <<diskVars, report>>

Launch(a, key, skipLlm) ==
    /\ Fresh(a, key)
    /\ Goto(a, "load")
    /\ skip'   = [skip EXCEPT ![a] = skipLlm]
    /\ raised' = [raised EXCEPT ![a] = "none"]
    /\ exit'   = [exit EXCEPT ![a] = "none"]

(* argparse rejects the arguments and exits with 2 before run() is called. *)
Misused(a, key) ==
    /\ Fresh(a, key)
    /\ Goto(a, "aborted")
    /\ skip'   = [skip EXCEPT ![a] = FALSE]
    /\ raised' = [raised EXCEPT ![a] = "usage"]
    /\ exit'   = [exit EXCEPT ![a] = "2"]

Kill(a) ==
    /\ pc[a] \in Running
    /\ Goto(a, "killed")
    /\ IF phase[a] \in {"building", "waiting"} THEN Die(a) ELSE UNCHANGED clientVars
    /\ UNCHANGED <<skip, verdict, verification, fallback, llmCalls, raised, exit, loaded,
                   diskVars, launches, report>>

(* The operator replaces, breaks or removes a file of config/.             *)
Edit(f, content) ==
    /\ edits < MaxEdits
    /\ disk[f] # content
    /\ disk'  = [disk EXCEPT ![f] = content]
    /\ edits' = edits + 1
    /\ UNCHANGED <<clientVars, runVars, launches, report>>

-----------------------------------------------------------------------------
(* Stages 1 to 4: nothing is caught.                                       *)

LoadAll(a) ==
    /\ pc[a] = "load"
    /\ Goto(a, "context")
    /\ UNCHANGED <<clientVars, skip, verdict, verification, fallback, llmCalls, raised, exit,
                   loaded, diskVars, launches, report>>

(* A missing CSV or column, an unknown account, no contracts, a source no  *)
(* key resolves under hard_fail, empty billing.                            *)
BadData(a) ==
    /\ pc[a] \in Ingest
    /\ Abort(a, "data")
    /\ UNCHANGED <<clientVars, skip, verdict, verification, fallback, llmCalls, loaded,
                   diskVars, launches, report>>

(* build_account_context reads the customer file.                          *)
BuildContext(a) ==
    /\ pc[a] = "context"
    /\ disk["customer"] # "missing"
    /\ Readable(a, "customer")
    /\ Remember(a, "customer")
    /\ Goto(a, "summary")
    /\ UNCHANGED <<clientVars, skip, verdict, verification, fallback, llmCalls, raised, exit,
                   diskVars, launches, report>>

(* build_account_summary loads it again for the thresholds: the content is *)
(* cached, but load_customer_config looks for the file before the cache.   *)
BuildSummary(a) ==
    /\ pc[a] = "summary"
    /\ disk["customer"] # "missing"
    /\ Readable(a, "customer")
    /\ Remember(a, "customer")
    /\ Goto(a, "signals")
    /\ UNCHANGED <<clientVars, skip, verdict, verification, fallback, llmCalls, raised, exit,
                   diskVars, launches, report>>

RetrieveSignals(a) ==
    /\ pc[a] = "signals"
    /\ Readable(a, "signals")
    /\ Remember(a, "signals")
    /\ Goto(a, "gate")
    /\ UNCHANGED <<clientVars, skip, verdict, verification, fallback, llmCalls, raised, exit,
                   diskVars, launches, report>>

BadConfig(a) ==
    /\ \/ pc[a] \in {"context", "summary"}
          /\ (disk["customer"] = "missing" \/ ~Readable(a, "customer"))
       \/ pc[a] = "signals" /\ ~Readable(a, "signals")
    /\ Abort(a, "config")
    /\ UNCHANGED <<clientVars, skip, verdict, verification, fallback, llmCalls, loaded,
                   diskVars, launches, report>>

-----------------------------------------------------------------------------
(* Stages 5 and 6.                                                         *)

(* Mutant: the generic handler forgets the fallback.                       *)
RecoverSilently(a) ==
    /\ Goto(a, "cost")
    /\ UNCHANGED <<verdict, verification, fallback, llmCalls>>

(* The generic "except Exception" handler: the verdict keeps its value.    *)
Recover(a) ==
    /\ fallback' = [fallback EXCEPT ![a] = TRUE]
    /\ Goto(a, "cost")
    /\ UNCHANGED <<verdict, verification, llmCalls>>

(* skip_llm: no call and no pricing, hence straight to the renderer.       *)
Branch(a) ==
    /\ pc[a] = "gate"
    /\ fallback' = [fallback EXCEPT ![a] = skip[a]]
    /\ Goto(a, IF skip[a] THEN "render" ELSE "prompt")
    /\ UNCHANGED <<clientVars, skip, verdict, verification, llmCalls, raised, exit, loaded,
                   diskVars, launches, report>>

(* load_system_prompt reads a markdown file, past the YAML cache.  A       *)
(* malformed file is one that is not UTF-8.                                *)
Synthesize(a) ==
    /\ pc[a] = "prompt"
    /\ IF disk["prompt"] = "good"
         THEN /\ Call(a)
              /\ Goto(a, "calling")
              /\ UNCHANGED <<verdict, verification, fallback, llmCalls>>
         ELSE Recover(a) /\ UNCHANGED clientVars
    /\ UNCHANGED <<skip, raised, exit, loaded, diskVars, launches, report>>

(* Mutant: RuntimeError is not waited for.                                 *)
CallRaisedByProvider(a) ==
    /\ pc[a] = "calling" /\ phase[a] = "raised" /\ failure[a] # "noTool"
    /\ Recover(a)
    /\ UNCHANGED <<clientVars, skip, raised, exit, loaded, diskVars, launches, report>>

(* Mutant: only SynthesisValidationError is caught.                        *)
CallRaisedUncaught(a) ==
    /\ pc[a] = "calling" /\ phase[a] = "raised"
    /\ Abort(a, "data")
    /\ UNCHANGED <<clientVars, skip, verdict, verification, fallback, llmCalls, loaded,
                   diskVars, launches, report>>

(* call_with_tool raised: no key, the provider, or a message without the   *)
(* tool's block.                                                           *)
CallRaised(a) ==
    /\ pc[a] = "calling" /\ phase[a] = "raised"
    /\ Recover(a)
    /\ UNCHANGED <<clientVars, skip, raised, exit, loaded, diskVars, launches, report>>

(* Mutant: the tool input is taken as a verdict unvalidated.               *)
ValidateNothing(a) ==
    /\ pc[a] = "calling" /\ phase[a] = "answered"
    /\ llmCalls' = [llmCalls EXCEPT ![a] = 1]
    /\ verdict'  = [verdict EXCEPT ![a] = reply[a]]
    /\ Goto(a, "verify")
    /\ UNCHANGED <<clientVars, skip, verification, fallback, raised, exit, loaded, diskVars,
                   launches, report>>

(* Mutant: asks again for one that fits, past the client's own budget.     *)
ValidateRetries(a) ==
    /\ pc[a] = "calling" /\ phase[a] = "answered"
    /\ \/ /\ reply[a] \in Conforming
          /\ llmCalls' = [llmCalls EXCEPT ![a] = 1]
          /\ verdict' = [verdict EXCEPT ![a] = reply[a]]
          /\ Goto(a, "verify")
          /\ UNCHANGED phase
       \/ /\ reply[a] \notin Conforming
          /\ phase' = [phase EXCEPT ![a] = "building"]
          /\ UNCHANGED <<pc, verdict, llmCalls>>
    /\ UNCHANGED <<hasKey, attempt, resend, wire, stray, sent, billed, reply, failure, skip,
                   verification, fallback, raised, exit, loaded, diskVars, launches, report>>

(* Mutant: a call is counted when its verdict is used.                     *)
ValidateCountsVerdicts(a) ==
    /\ pc[a] = "calling" /\ phase[a] = "answered"
    /\ \/ /\ reply[a] \in Conforming
          /\ llmCalls' = [llmCalls EXCEPT ![a] = 1]
          /\ verdict' = [verdict EXCEPT ![a] = reply[a]]
          /\ Goto(a, "verify")
          /\ UNCHANGED fallback
       \/ /\ reply[a] \notin Conforming
          /\ fallback' = [fallback EXCEPT ![a] = TRUE]
          /\ Goto(a, "cost")
          /\ UNCHANGED <<verdict, llmCalls>>
    /\ UNCHANGED <<clientVars, skip, verification, raised, exit, loaded, diskVars, launches,
                   report>>

(* model_validate: a verdict, or SynthesisValidationError, whose handler   *)
(* keeps the token counts.                                                 *)
Validate(a) ==
    /\ pc[a] = "calling" /\ phase[a] = "answered"
    /\ llmCalls' = [llmCalls EXCEPT ![a] = 1]
    /\ \/ /\ reply[a] \in Conforming
          /\ verdict' = [verdict EXCEPT ![a] = reply[a]]
          /\ Goto(a, "verify")
          /\ UNCHANGED fallback
       \/ /\ reply[a] \notin Conforming
          /\ fallback' = [fallback EXCEPT ![a] = TRUE]
          /\ Goto(a, "cost")
          /\ UNCHANGED verdict
    /\ UNCHANGED <<clientVars, skip, verification, raised, exit, loaded, diskVars, launches,
                   report>>

VerifyPasses(a) ==
    /\ pc[a] = "verify" /\ Readable(a, "policy") /\ verdict[a] \in Grounded
    /\ Remember(a, "policy")
    /\ verification' = [verification EXCEPT ![a] = "passed"]
    /\ Goto(a, "cost")
    /\ UNCHANGED <<clientVars, skip, verdict, fallback, llmCalls, raised, exit, diskVars,
                   launches, report>>

(* Mutant: the refused verdict is kept beside the banner.                  *)
VerifyFailsKeeping(a) ==
    /\ pc[a] = "verify" /\ Readable(a, "policy") /\ verdict[a] \notin Grounded
    /\ Remember(a, "policy")
    /\ verification' = [verification EXCEPT ![a] = "failed"]
    /\ fallback'     = [fallback EXCEPT ![a] = TRUE]
    /\ Goto(a, "cost")
    /\ UNCHANGED <<clientVars, skip, verdict, llmCalls, raised, exit, diskVars, launches, report>>

VerifyFails(a) ==
    /\ pc[a] = "verify" /\ Readable(a, "policy") /\ verdict[a] \notin Grounded
    /\ Remember(a, "policy")
    /\ verification' = [verification EXCEPT ![a] = "failed"]
    /\ verdict'      = [verdict EXCEPT ![a] = "none"]
    /\ fallback'     = [fallback EXCEPT ![a] = TRUE]
    /\ Goto(a, "cost")
    /\ UNCHANGED <<clientVars, skip, llmCalls, raised, exit, diskVars, launches, report>>

(* Mutant: without a policy there is nothing to refuse.                    *)
VerifyRaisesNothing(a) ==
    /\ pc[a] = "verify" /\ ~Readable(a, "policy")
    /\ Goto(a, "cost")
    /\ UNCHANGED <<clientVars, skip, verdict, verification, fallback, llmCalls, raised, exit,
                   loaded, diskVars, launches, report>>

(* The policy is first read here: without it verify() itself raises.       *)
VerifyRaises(a) ==
    /\ pc[a] = "verify" /\ ~Readable(a, "policy")
    /\ Recover(a)
    /\ UNCHANGED <<clientVars, skip, raised, exit, loaded, diskVars, launches, report>>

-----------------------------------------------------------------------------
(* Cost, metadata, PDF, exit code: nothing is caught again.                *)

EstimateCost(a) ==
    /\ pc[a] = "cost"
    /\ IF Readable(a, "pricing")
         THEN Remember(a, "pricing") /\ Goto(a, "render") /\ UNCHANGED <<raised, exit>>
         ELSE Abort(a, "config") /\ UNCHANGED loaded
    /\ UNCHANGED <<clientVars, skip, verdict, verification, fallback, llmCalls, diskVars,
                   launches, report>>

(* The story is laid out in memory, then the file is opened, which empties *)
(* it.  The verdict's prose goes into Paragraph() as it is.                *)
OpenReport(a) ==
    /\ pc[a] = "render" /\ verdict[a] \notin Broken
    /\ Goto(a, "write")
    /\ report' = [report EXCEPT ![a] = [NoReport EXCEPT !.part = "partial", !.run = launches[a]]]
    /\ UNCHANGED <<clientVars, skip, verdict, verification, fallback, llmCalls, raised, exit,
                   loaded, diskVars, launches>>

(* Mutant: the file is opened before the story is laid out.                *)
RenderRaisesLate(a) ==
    /\ pc[a] = "render"
    /\ \/ verdict[a] \in Broken /\ Abort(a, "markup")
       \/ Abort(a, "io")
    /\ report' = [report EXCEPT ![a] = [NoReport EXCEPT !.part = "partial", !.run = launches[a]]]
    /\ UNCHANGED <<clientVars, skip, verdict, verification, fallback, llmCalls, loaded,
                   diskVars, launches>>

RenderRaises(a) ==
    /\ pc[a] = "render"
    /\ \/ verdict[a] \in Broken /\ Abort(a, "markup")
       \/ Abort(a, "io")
    /\ UNCHANGED <<clientVars, skip, verdict, verification, fallback, llmCalls, loaded,
                   diskVars, launches, report>>

(* doc.build returns: the file is complete, and nobody has been told yet.  *)
WriteReport(a) ==
    /\ pc[a] = "write"
    /\ report' = [report EXCEPT ![a] =
                    [part |-> "complete", narrative |-> verdict[a], banner |-> fallback[a],
                     verification |-> verification[a], llmCalls |-> llmCalls[a],
                     run |-> launches[a]]]
    /\ Goto(a, "print")
    /\ UNCHANGED <<clientVars, skip, verdict, verification, fallback, llmCalls, raised, exit,
                   loaded, diskVars, launches>>

WriteRaises(a) ==
    /\ pc[a] = "write"
    /\ Abort(a, "io")
    /\ UNCHANGED <<clientVars, skip, verdict, verification, fallback, llmCalls, loaded,
                   diskVars, launches, report>>

(* Mutant: only a refused verdict is a soft failure.                       *)
ExitByVerification(a) ==
    /\ pc[a] = "print"
    /\ exit' = [exit EXCEPT ![a] = IF verification[a] = "failed" THEN "2" ELSE "0"]
    /\ Goto(a, "done")
    /\ UNCHANGED <<clientVars, skip, verdict, verification, fallback, llmCalls, raised, loaded,
                   diskVars, launches, report>>

(* main() has printed what run() returned, and returns the code.           *)
Exit(a) ==
    /\ pc[a] = "print"
    /\ exit' = [exit EXCEPT ![a] = IF fallback[a] THEN "2" ELSE "0"]
    /\ Goto(a, "done")
    /\ UNCHANGED <<clientVars, skip, verdict, verification, fallback, llmCalls, raised, loaded,
                   diskVars, launches, report>>

(* A print raises: the pipe is closed, or a name or a diagnostic is not in *)
(* stdout's encoding.                                                      *)
PrintRaises(a) ==
    /\ pc[a] = "print"
    /\ Abort(a, "print")
    /\ UNCHANGED <<clientVars, skip, verdict, verification, fallback, llmCalls, loaded,
                   diskVars, launches, report>>

-----------------------------------------------------------------------------
(* Composition.                                                            *)

Stage(a) ==
    \/ LoadAll(a) \/ BuildContext(a) \/ BuildSummary(a) \/ RetrieveSignals(a)
    \/ BadConfig(a) \/ Branch(a) \/ Synthesize(a) \/ CallRaised(a) \/ Validate(a)
    \/ VerifyPasses(a) \/ VerifyFails(a) \/ VerifyRaises(a) \/ EstimateCost(a)
    \/ OpenReport(a) \/ RenderRaises(a) \/ WriteReport(a) \/ Exit(a)

Fault(a) == BadData(a) \/ WriteRaises(a) \/ PrintRaises(a) \/ Kill(a)

InCall(A) == A /\ UNCHANGED pipeVars

Next ==
    \/ \E a \in Accounts :
          \/ \E key, skipLlm \in BOOLEAN : Launch(a, key, skipLlm)
          \/ \E key \in BOOLEAN : Misused(a, key)
          \/ Stage(a)
          \/ Fault(a)
          \/ InCall(ClientStep(a))
    \/ \E f \in Configs, content \in Contents : Edit(f, content)

Spec == Init /\ [][Next]_vars

(* A launched process runs and its request times out.  Nothing is assumed  *)
(* of the provider, of the operator or of faults.                          *)
Fairness ==
    \A a \in Accounts :
        /\ WF_vars(Stage(a))
        /\ WF_vars(InCall(Attempt(a)))
        /\ WF_vars(InCall(TimeOut(a)))

FairSpec == Spec /\ Fairness

-----------------------------------------------------------------------------
(* What a run promises: Report.tla, read off the process and its file.     *)

RunStatus(a) ==
    CASE pc[a] = "idle"                 -> "idle"
      [] pc[a] = "write"                -> "publishing"
      [] pc[a] = "print"                -> "published"
      [] pc[a] \in {"aborted", "killed"} -> "failed"
      [] pc[a] = "done"                 -> IF exit[a] = "0" THEN "accepted" ELSE "caveated"
      [] OTHER                          -> "working"

(* A report without the banner is verified only if it has a narrative the  *)
(* gate's checks hold of.                                                  *)
FileStatus(a) ==
    CASE report[a].part = "none"    -> "none"
      [] report[a].part = "partial" -> "damaged"
      [] OTHER -> IF report[a].banner THEN "caveated"
                  ELSE IF report[a].narrative \in Grounded THEN "verified"
                  ELSE "unverified"

Abstract == INSTANCE Report WITH
    status <- [a \in Accounts |-> RunStatus(a)],
    file   <- [a \in Accounts |-> FileStatus(a)]

(* Every behaviour of the processes, whatever the provider, the operator   *)
(* and the faults do, is one Report.tla allows.                            *)
ImplementsReport == Abstract!Spec

-----------------------------------------------------------------------------
(* Safety.                                                                 *)

Shipped(a) == report[a].part = "complete" /\ report[a].run = launches[a]

(* A provider's narrative reaches a reader without the banner only if the  *)
(* gate's checks hold of it: across the try/except paths of run(), retries,*)
(* relaunches and config/ changing on disk while the run reads it.         *)
UnmarkedNarrativeIsGrounded ==
    \A a \in Accounts :
        (report[a].part = "complete" /\ ~report[a].banner) =>
            /\ report[a].narrative \in Grounded
            /\ report[a].verification = "passed"
            /\ report[a].llmCalls = 1

(* "does not silently ship a wrong PDF": a verdict the gate refused is in  *)
(* no later report of the run, which has the banner instead.               *)
RefusedVerdictIsDropped ==
    \A a \in Accounts :
        verification[a] = "failed" =>
            /\ verdict[a] = "none" /\ fallback[a]
            /\ Shipped(a) => report[a].narrative = "none" /\ report[a].banner

(* What a caller may conclude from the exit code: after 0 the file is a    *)
(* report of this very run without the banner, after 2 one with it unless  *)
(* argparse turned the call away, and after 1 a finished report of this    *)
(* run is there only when a print was what raised.  Without a code, after  *)
(* a kill, the file may be either.                                         *)
ExitCodeTellsReport ==
    \A a \in Accounts :
        /\ exit[a] = "0" => Shipped(a) /\ ~report[a].banner
        /\ exit[a] = "2" => raised[a] = "usage" \/ (Shipped(a) /\ report[a].banner)
        /\ exit[a] = "1" /\ Shipped(a) => raised[a] = "print"
        /\ raised[a] = "usage" => report[a].run < launches[a]

(* The provenance printed in the PDF claims no call that was not made:     *)
(* one recorded call means a delivered, billed message of this process,    *)
(* and --skip-llm sends nothing.                                           *)
RecordedCallWasBilled ==
    \A a \in Accounts :
        /\ llmCalls[a] = 1 => reply[a] \in ToolInputs /\ billed[a] >= 1
        /\ skip[a] => sent[a] = 0 /\ billed[a] = 0 /\ (Shipped(a) => report[a].banner)

(* What is true where a document is not: the banner is on a report exactly *)
(* when the gate has not passed it, and a narrative in it, passed or never *)
(* looked at, is one whose call the provenance has.                        *)
BannerTellsVerification ==
    \A a \in Accounts : report[a].part = "complete" =>
        /\ report[a].banner <=> report[a].verification # "passed"
        /\ report[a].narrative # "none" =>
              report[a].verification # "failed" /\ report[a].llmCalls = 1

(* The provenance has a call exactly when the tool's block was delivered,  *)
(* and the narrative is the one delivered; a message without the block     *)
(* leaves the banner.                                                      *)
ProvenanceTellsReply ==
    \A a \in Accounts : Shipped(a) =>
        /\ report[a].llmCalls = 1 <=> reply[a] \in ToolInputs
        /\ reply[a] = "noTool" => report[a].banner
        /\ report[a].narrative \in {reply[a], "none"} \ {"noTool"}

(* Only prose with markup ends a run by it, after a call that was paid for *)
(* and before the file is opened: the earlier report is still there.       *)
MarkupLeavesReport ==
    \A a \in Accounts : raised[a] = "markup" =>
        /\ pc[a] = "aborted" /\ reply[a] \in Broken /\ billed[a] >= 1
        /\ report[a].run < launches[a]

(* Inside the pipeline the client is used as LlmClient.tla assumes: one    *)
(* call a process, and no death it does not know of.                       *)
UsesClient == ClientInit /\ [][ClientNext]_clientVars

-----------------------------------------------------------------------------
(* Liveness.                                                               *)

(* Every launched run comes to an end, whatever the provider does.         *)
RunEnds == \A a \in Accounts : pc[a] \in Running ~> pc[a] \in Over

(* PLAN.md, "Provider outage": a call that raised leads to a report with   *)
(* the banner, unless pricing.yaml, the disk, stdout or a kill prevents it.*)
OutageStillReports ==
    \A a \in Accounts :
        (pc[a] = "calling" /\ phase[a] = "raised") ~>
            \/ exit[a] = "2" /\ raised[a] # "usage"
            \/ raised[a] \in {"config", "io", "print"} \/ pc[a] = "killed"

-----------------------------------------------------------------------------
(* What the repository says and run() does not do.                         *)

(* README.md: the run "falls back to a deterministic-only narrative": a    *)
(* report has a narrative only if it was verified.                         *)
NarrativeIsVerified ==
    \A a \in Accounts :
        (report[a].part = "complete" /\ report[a].narrative # "none") =>
            report[a].verification = "passed"

(* pipeline.py, "honest provenance ... token counts captured": a delivered *)
(* message is in the account of the report.                                *)
DeliveredReplyIsRecorded ==
    \A a \in Accounts : (Shipped(a) /\ reply[a] # "none") => report[a].llmCalls = 1

(* PLAN.md, "Retry once with stricter prompt" and "Pydantic raises; retry  *)
(* once": a report that leaves out a reply without the tool's block, or    *)
(* one that does not fit the schema, is of a process that got two.         *)
UnusableReplyIsRetried ==
    \A a \in Accounts :
        (Shipped(a) /\ reply[a] \in Replies \ (Conforming \cup {"none"})) => billed[a] >= 2

(* PLAN.md: markup in the prose is sanitised before it is embedded, hence  *)
(* no reply of the provider can abort a run.                               *)
ProseNeverAborts == \A a \in Accounts : raised[a] # "markup"
=============================================================================
