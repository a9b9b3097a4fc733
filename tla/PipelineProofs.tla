--------------------------- MODULE PipelineProofs ---------------------------
(***************************************************************************)
(* Pipeline, for every set of accounts, every retry budget, every set of   *)
(* replies and any number of launches and edits.                           *)
(*                                                                         *)
(* What is written on paper is decided several steps before, under three   *)
(* exception handlers: the invariant carries, at every pc, what the gate   *)
(* has established so far (Judged), what the exit code and the file say    *)
(* about each other (Told, Filed) and what the client has done (Linked).   *)
(***************************************************************************)
EXTENDS Pipeline, LlmClientProofs

LEMMA StepKinds ==
    ASSUME Next
    PROVE  \/ \E a \in Accounts : \/ \E key, skipLlm \in BOOLEAN : Launch(a, key, skipLlm)
                                  \/ \E key \in BOOLEAN : Misused(a, key)
                                  \/ Stage(a) \/ Fault(a) \/ InCall(ClientStep(a))
           \/ \E f \in Configs, content \in Contents : Edit(f, content)
  BY DEF Next

-----------------------------------------------------------------------------
(* The client inside the pipeline.                                         *)

(* Apart from these, a step of run() does not touch the client.            *)
LEMMA StageClient ==
    ASSUME NEW a \in Accounts, Stage(a)
    PROVE  UNCHANGED clientVars \/ Call(a)
<1>1. CASE LoadAll(a) \/ BuildContext(a) \/ BuildSummary(a) \/ RetrieveSignals(a) \/ BadConfig(a)
  BY <1>1 DEF LoadAll, BuildContext, BuildSummary, RetrieveSignals, BadConfig
<1>2. CASE Branch(a) \/ CallRaised(a) \/ Validate(a)
  BY <1>2 DEF Branch, CallRaised, Validate
<1>3. CASE Synthesize(a)
  BY <1>3 DEF Synthesize
<1>4. CASE VerifyPasses(a) \/ VerifyFails(a) \/ VerifyRaises(a) \/ EstimateCost(a)
  BY <1>4 DEF VerifyPasses, VerifyFails, VerifyRaises, EstimateCost
<1>5. CASE OpenReport(a) \/ RenderRaises(a) \/ WriteReport(a) \/ Exit(a)
  BY <1>5 DEF OpenReport, RenderRaises, WriteReport, Exit
<1> QED BY <1>1, <1>2, <1>3, <1>4, <1>5 DEF Stage

LEMMA FaultClient ==
    ASSUME NEW a \in Accounts, Fault(a)
    PROVE  UNCHANGED clientVars \/ Die(a)
  BY DEF Fault, BadData, WriteRaises, PrintRaises, Kill

LEMMA StepIsClientStep == [Next]_vars => [ClientNext]_clientVars
<1> SUFFICES ASSUME [Next]_vars PROVE [ClientNext]_clientVars
  OBVIOUS
<1>1. CASE UNCHANGED vars
  BY <1>1 DEF vars
<1>2. ASSUME NEW a \in Accounts, NEW key \in BOOLEAN, NEW skipLlm \in BOOLEAN,
             Launch(a, key, skipLlm)
      PROVE  ClientNext
  BY <1>2 DEF Launch, Fresh, ClientNext
<1>7. ASSUME NEW a \in Accounts, NEW key \in BOOLEAN, Misused(a, key) PROVE ClientNext
  BY <1>7 DEF Misused, Fresh, ClientNext
<1>3. ASSUME NEW a \in Accounts, Stage(a) PROVE [ClientNext]_clientVars
  BY <1>3, StageClient DEF ClientNext
<1>4. ASSUME NEW a \in Accounts, Fault(a) PROVE [ClientNext]_clientVars
  BY <1>4, FaultClient DEF ClientNext
<1>5. ASSUME NEW a \in Accounts, InCall(ClientStep(a)) PROVE ClientNext
  BY <1>5 DEF InCall, ClientNext
<1>6. ASSUME NEW f \in Configs, NEW content \in Contents, Edit(f, content)
      PROVE  UNCHANGED clientVars
  BY <1>6 DEF Edit
<1> QED BY <1>1, <1>2, <1>3, <1>4, <1>5, <1>6, <1>7, StepKinds

(* The pipeline uses the client as LlmClient assumes its caller does, so   *)
(* that what is proved of the client holds inside the pipeline.            *)
THEOREM PipelineUsesClient == Spec => UsesClient
<1>1. Init => ClientInit
  BY DEF Init
<1> QED BY <1>1, StepIsClientStep, PTL DEF Spec, UsesClient

(* The client's counting invariant holds inside the pipeline too.          *)
THEOREM ClientInvInPipeline == Spec => []ClientInv
  BY PipelineUsesClient, ClientCorrect, PTL DEF UsesClient, ClientSpec

(* One renewal is charged at most Budget times, whatever else happens.     *)
THEOREM PipelineSpendIsBounded == Spec => []SpendBounded
  BY PipelineUsesClient, SpendIsBounded, PTL DEF UsesClient, ClientSpec

-----------------------------------------------------------------------------
(* Types.                                                                  *)

RunTypeOK ==
    /\ pc           \in [Accounts -> Running \cup Over \cup {"idle"}]
    /\ skip         \in [Accounts -> BOOLEAN]
    /\ verdict      \in [Accounts -> Conforming \cup {"none"}]
    /\ verification \in [Accounts -> Results]
    /\ fallback     \in [Accounts -> BOOLEAN]
    /\ llmCalls     \in [Accounts -> {0, 1}]
    /\ raised       \in [Accounts -> {"none", "usage", "data", "config", "markup", "io", "print"}]
    /\ exit         \in [Accounts -> {"none", "0", "1", "2"}]
    /\ loaded       \in [Accounts -> SUBSET Configs]
    /\ launches     \in [Accounts -> Nat]
    /\ report       \in [Accounts -> Reports]

DiskTypeOK == disk \in [Configs -> Contents] /\ edits \in Nat

LEMMA TypeParts == TypeOK <=> ClientTypeOK /\ RunTypeOK /\ DiskTypeOK
  BY DEF TypeOK, RunTypeOK, DiskTypeOK

LEMMA RunTyped ==
    ASSUME TypeOK, Next
    PROVE  RunTypeOK'
<1> USE TypeParts DEF RunTypeOK, Goto, Abort, Remember, Recover, Results
<1> USE DEF Running, Ingest, Over, Configs
<1>1. ASSUME NEW a \in Accounts, NEW key \in BOOLEAN, NEW skipLlm \in BOOLEAN,
             Launch(a, key, skipLlm)
      PROVE  RunTypeOK'
  BY <1>1 DEF Launch, Fresh
<1>6. ASSUME NEW a \in Accounts, NEW key \in BOOLEAN, Misused(a, key) PROVE RunTypeOK'
  BY <1>6 DEF Misused, Fresh
<1>2. ASSUME NEW a \in Accounts, Stage(a) PROVE RunTypeOK'
  <2>1. CASE LoadAll(a) \/ BuildContext(a) \/ BuildSummary(a)
    BY <2>1 DEF LoadAll, BuildContext, BuildSummary
  <2>2. CASE RetrieveSignals(a) \/ BadConfig(a) \/ Branch(a)
    BY <2>2 DEF RetrieveSignals, BadConfig, Branch
  <2>3. CASE Synthesize(a)
    BY <2>3 DEF Synthesize
  <2>8. CASE CallRaised(a)
    BY <2>8 DEF CallRaised
  <2>9. CASE Validate(a)
    <3>1. CASE reply[a] \in Conforming
      BY <2>9, <3>1 DEF Validate
    <3>2. CASE reply[a] \notin Conforming
      BY <2>9, <3>2 DEF Validate
    <3> QED BY <3>1, <3>2
  <2>4. CASE VerifyPasses(a)
    BY <2>4 DEF VerifyPasses
  <2>10. CASE VerifyFails(a)
    BY <2>10 DEF VerifyFails
  <2>11. CASE VerifyRaises(a)
    BY <2>11 DEF VerifyRaises
  <2>5. CASE EstimateCost(a) \/ RenderRaises(a) \/ Exit(a)
    BY <2>5 DEF EstimateCost, RenderRaises, Exit
  <2>6. CASE OpenReport(a)
    BY <2>6 DEF OpenReport, NoReport, Reports
  <2>7. CASE WriteReport(a)
    BY <2>7 DEF WriteReport, Reports
  <2> QED BY <1>2, <2>1, <2>2, <2>3, <2>4, <2>5, <2>6, <2>7, <2>8, <2>9, <2>10, <2>11
      DEF Stage
<1>3. ASSUME NEW a \in Accounts, Fault(a) PROVE RunTypeOK'
  BY <1>3 DEF Fault, BadData, WriteRaises, PrintRaises, Kill
<1>4. ASSUME NEW a \in Accounts, InCall(ClientStep(a)) PROVE RunTypeOK'
  BY <1>4 DEF InCall, pipeVars, runVars
<1>5. ASSUME NEW f \in Configs, NEW content \in Contents, Edit(f, content) PROVE RunTypeOK'
  BY <1>5 DEF Edit, runVars
<1> QED BY <1>1, <1>2, <1>3, <1>4, <1>5, <1>6, StepKinds

LEMMA DiskTyped ==
    ASSUME TypeOK, Next
    PROVE  DiskTypeOK'
<1> USE TypeParts DEF DiskTypeOK, diskVars
<1>1. ASSUME NEW a \in Accounts, NEW key \in BOOLEAN, NEW skipLlm \in BOOLEAN,
             Launch(a, key, skipLlm)
      PROVE  DiskTypeOK'
  BY <1>1 DEF Launch, Fresh
<1>6. ASSUME NEW a \in Accounts, NEW key \in BOOLEAN, Misused(a, key) PROVE DiskTypeOK'
  BY <1>6 DEF Misused, Fresh
<1>2. ASSUME NEW a \in Accounts, Stage(a) PROVE DiskTypeOK'
  BY <1>2 DEF Stage, LoadAll, BuildContext, BuildSummary, RetrieveSignals, BadConfig, Branch,
              Synthesize, CallRaised, Validate, VerifyPasses, VerifyFails, VerifyRaises,
              EstimateCost, OpenReport, RenderRaises, WriteReport, Exit
<1>3. ASSUME NEW a \in Accounts, Fault(a) PROVE DiskTypeOK'
  BY <1>3 DEF Fault, BadData, WriteRaises, PrintRaises, Kill
<1>4. ASSUME NEW a \in Accounts, InCall(ClientStep(a)) PROVE DiskTypeOK'
  BY <1>4 DEF InCall, pipeVars
<1>5. ASSUME NEW f \in Configs, NEW content \in Contents, Edit(f, content) PROVE DiskTypeOK'
  BY <1>5 DEF Edit
<1> QED BY <1>1, <1>2, <1>3, <1>4, <1>5, <1>6, StepKinds

LEMMA Typed == TypeOK /\ [Next]_vars => TypeOK'
<1> SUFFICES ASSUME TypeOK, [Next]_vars PROVE TypeOK'
  OBVIOUS
<1>1. ClientTypeOK'
  BY StepIsClientStep, ClientTyped DEF TypeOK
<1>2. CASE Next
  BY <1>1, <1>2, RunTyped, DiskTyped DEF TypeOK, RunTypeOK, DiskTypeOK
<1>3. CASE UNCHANGED vars
  BY <1>1, <1>3 DEF TypeOK, vars, pipeVars, runVars, diskVars
<1> QED BY <1>2, <1>3

LEMMA InitTyped == Init => TypeOK
<1> SUFFICES ASSUME Init PROVE TypeOK
  OBVIOUS
<1>1. ClientTypeOK
  BY ClientInvInit DEF Init, ClientInv
<1>2. RunTypeOK
  BY DEF Init, RunTypeOK, Reports, NoReport, Results, Running, Ingest, Over
<1>3. DiskTypeOK
  BY DEF Init, DiskTypeOK, Contents
<1> QED BY <1>1, <1>2, <1>3, TypeParts

(* Every variable keeps its type.                                          *)
THEOREM PipelineTypeCorrect == Spec => []TypeOK
  BY InitTyped, Typed, PTL DEF Spec

-----------------------------------------------------------------------------
(* The invariant of run().                                                 *)

Before == Ingest \cup {"gate", "prompt"}
After  == {"cost", "render", "write", "print", "done"}
Quiet(a) == phase[a] = "off" /\ sent[a] = 0

(* run() has made up its mind; a process that ended with a finished report *)
(* had, however it ended.                                                  *)
Decided(a) == pc[a] \in After \/ Shipped(a)

(* What the gate has established when run() is at pc.                      *)
Judged(a) ==
    /\ pc[a] \in Before \cup {"idle", "calling"} =>
          /\ verdict[a] = "none" /\ verification[a] = "none"
          /\ ~fallback[a] /\ llmCalls[a] = 0
    /\ pc[a] = "verify" =>
          /\ verdict[a] # "none" /\ verification[a] = "none"
          /\ ~fallback[a] /\ llmCalls[a] = 1
    /\ Decided(a) /\ ~fallback[a] =>
          /\ verdict[a] \in Grounded /\ verification[a] = "passed" /\ llmCalls[a] = 1
    /\ Decided(a) /\ fallback[a] =>
          /\ verification[a] # "passed"
          /\ verdict[a] # "none" => llmCalls[a] = 1
    /\ verification[a] = "failed" => verdict[a] = "none" /\ fallback[a]
    /\ skip[a] => pc[a] \notin {"prompt", "calling", "verify", "cost"}
    /\ skip[a] /\ Decided(a) => fallback[a]

(* The exit code is that of the way the process ended.                     *)
Told(a) ==
    /\ pc[a] \in Running \cup {"idle", "killed"} => exit[a] = "none"
    /\ pc[a] = "aborted" => exit[a] = IF raised[a] = "usage" THEN "2" ELSE "1"
    /\ pc[a] = "done" => exit[a] = IF fallback[a] THEN "2" ELSE "0"
    /\ raised[a] = "usage" => pc[a] = "aborted" /\ report[a].run < launches[a]
    /\ raised[a] = "markup" =>
          /\ pc[a] = "aborted" /\ verdict[a] \in Broken /\ llmCalls[a] = 1
          /\ report[a].run < launches[a]

(* What doc.build leaves when it returns.                                  *)
Written(a) ==
    [part |-> "complete", narrative |-> verdict[a], banner |-> fallback[a],
     verification |-> verification[a], llmCalls |-> llmCalls[a], run |-> launches[a]]

(* The file is this run's only from the moment it is opened, and holds     *)
(* what run() had decided once it is closed, also when the process is      *)
(* killed or cannot print before it has returned its code.                 *)
Filed(a) ==
    /\ report[a].run <= launches[a]
    /\ pc[a] \in Running \ {"write", "print"} => report[a].run < launches[a]
    /\ pc[a] = "idle" => report[a].part = "none"
    /\ pc[a] = "write" => report[a].part = "partial"
    /\ pc[a] \in {"print", "done"} => Shipped(a)
    /\ pc[a] = "aborted" /\ Shipped(a) => raised[a] = "print"
    /\ Shipped(a) => report[a] = Written(a)
    /\ report[a].part = "complete" /\ ~report[a].banner =>
          /\ report[a].narrative \in Grounded
          /\ report[a].verification = "passed"
          /\ report[a].llmCalls = 1
    /\ report[a].part = "complete" /\ report[a].banner =>
          /\ report[a].verification # "passed"
          /\ report[a].narrative # "none" =>
                report[a].verification = "none" /\ report[a].llmCalls = 1

(* What the client has done when run() is at pc.                           *)
Linked(a) ==
    /\ pc[a] \in Before => Quiet(a)
    /\ skip[a] => Quiet(a)
    /\ phase[a] = "answered" <=> reply[a] \in ToolInputs
    /\ llmCalls[a] = 1 => phase[a] = "answered"
    /\ verdict[a] # "none" => verdict[a] = reply[a]
    /\ Decided(a) /\ llmCalls[a] = 0 => phase[a] \in {"off", "raised"}

RunInv(a) == Judged(a) /\ Told(a) /\ Filed(a) /\ Linked(a)

GateInv == TypeOK /\ ClientInv /\ \A a \in Accounts : RunInv(a)

-----------------------------------------------------------------------------
(* The accounts that do not take the step.                                 *)

SameRun(b) ==
    /\ pc'[b] = pc[b] /\ skip'[b] = skip[b] /\ verdict'[b] = verdict[b]
    /\ verification'[b] = verification[b] /\ fallback'[b] = fallback[b]
    /\ llmCalls'[b] = llmCalls[b] /\ exit'[b] = exit[b]
    /\ launches'[b] = launches[b] /\ report'[b] = report[b]
    /\ raised'[b] = raised[b]

SameCall(b) == phase'[b] = phase[b] /\ sent'[b] = sent[b] /\ reply'[b] = reply[b]

LEMMA SameRunKeeps ==
    ASSUME NEW b \in Accounts, RunInv(b), SameRun(b), SameCall(b)
    PROVE  RunInv(b)'
  BY DEF RunInv, Judged, Decided, Told, Filed, Written, Linked, Shipped, Quiet, SameRun, SameCall

LEMMA StageOthers ==
    ASSUME RunTypeOK, NEW a \in Accounts, NEW b \in Accounts, b # a, Stage(a)
    PROVE  SameRun(b)
<1> USE DEF SameRun, RunTypeOK, Goto, Abort, Recover
<1>1. CASE LoadAll(a) \/ BuildContext(a) \/ BuildSummary(a) \/ RetrieveSignals(a) \/ BadConfig(a)
  BY <1>1 DEF LoadAll, BuildContext, BuildSummary, RetrieveSignals, BadConfig
<1>2. CASE Branch(a) \/ CallRaised(a) \/ Validate(a) \/ Synthesize(a)
  BY <1>2 DEF Branch, CallRaised, Validate, Synthesize
<1>3. CASE VerifyPasses(a) \/ VerifyFails(a) \/ VerifyRaises(a) \/ EstimateCost(a)
  BY <1>3 DEF VerifyPasses, VerifyFails, VerifyRaises, EstimateCost
<1>4. CASE OpenReport(a) \/ RenderRaises(a) \/ WriteReport(a) \/ Exit(a)
  BY <1>4 DEF OpenReport, RenderRaises, WriteReport, Exit
<1> QED BY <1>1, <1>2, <1>3, <1>4 DEF Stage

LEMMA LaunchOthers ==
    ASSUME RunTypeOK, NEW a \in Accounts, NEW b \in Accounts, b # a,
           NEW key \in BOOLEAN, NEW skipLlm \in BOOLEAN, Launch(a, key, skipLlm)
    PROVE  SameRun(b)
  BY DEF Launch, Fresh, SameRun, RunTypeOK, Goto

LEMMA MisusedOthers ==
    ASSUME RunTypeOK, NEW a \in Accounts, NEW b \in Accounts, b # a, NEW key \in BOOLEAN,
           Misused(a, key)
    PROVE  SameRun(b)
  BY DEF Misused, Fresh, SameRun, RunTypeOK, Goto

LEMMA FaultOthers ==
    ASSUME RunTypeOK, NEW a \in Accounts, NEW b \in Accounts, b # a, Fault(a)
    PROVE  SameRun(b)
  BY DEF Fault, BadData, WriteRaises, PrintRaises, Kill, SameRun, RunTypeOK, Goto, Abort

LEMMA ClientOthers ==
    ASSUME ClientTypeOK, NEW a \in Accounts, NEW b \in Accounts, b # a,
           \/ UNCHANGED clientVars
           \/ \E key \in BOOLEAN : Boot(a, key)
           \/ Call(a) \/ Die(a) \/ ClientStep(a)
    PROVE  SameCall(b)
  BY Others DEF clientVars, Same, SameCall

-----------------------------------------------------------------------------
(* The account that takes the step.                                        *)

LEMMA FreshKeeps ==
    ASSUME GateInv, NEW a \in Accounts, NEW key \in BOOLEAN, Fresh(a, key),
           \/ pc'[a] = "load" /\ raised'[a] = "none" /\ exit'[a] = "none"
           \/ /\ pc'[a] = "aborted" /\ raised'[a] = "usage" /\ exit'[a] = "2"
              /\ skip'[a] = FALSE
    PROVE  RunInv(a)'
<1>0. /\ launches[a] \in Nat /\ report[a].run \in Nat
      /\ report' = report
      /\ verdict'[a] = "none" /\ verification'[a] = "none"
      /\ fallback'[a] = FALSE /\ llmCalls'[a] = 0
      /\ launches'[a] = launches[a] + 1
      /\ phase'[a] = "off" /\ sent'[a] = 0 /\ reply'[a] = "none"
  BY TypeParts DEF GateInv, Fresh, RunTypeOK, Reports, ClientTypeOK, Boot
<1>4. report'[a].run < launches'[a] /\ report'[a] = report[a] /\ Filed(a)
  <2>1. Filed(a) /\ report'[a] = report[a]
    BY <1>0 DEF GateInv, RunInv
  <2> QED BY <1>0, <2>1 DEF Filed
<1>5. ~Shipped(a)'
  BY <1>0, <1>4 DEF Shipped
<1>1. Judged(a)' /\ Told(a)'
  BY <1>0, <1>4, <1>5 DEF Judged, Decided, Told, Before, After, Ingest, Running
<1>2. Filed(a)'
  BY <1>0, <1>4, <1>5 DEF Filed, Running, Ingest
<1>3. Linked(a)'
  BY <1>0, <1>5, RepliesAssumption DEF Linked, Decided, Quiet, After
<1> QED BY <1>1, <1>2, <1>3 DEF RunInv

LEMMA LaunchKeeps ==
    ASSUME GateInv, NEW a \in Accounts, NEW key \in BOOLEAN, NEW skipLlm \in BOOLEAN,
           Launch(a, key, skipLlm)
    PROVE  RunInv(a)'
<1>1. pc'[a] = "load" /\ raised'[a] = "none" /\ exit'[a] = "none" /\ Fresh(a, key)
  BY TypeParts DEF GateInv, RunTypeOK, Launch, Goto
<1> QED BY <1>1, FreshKeeps

LEMMA MisusedKeeps ==
    ASSUME GateInv, NEW a \in Accounts, NEW key \in BOOLEAN, Misused(a, key)
    PROVE  RunInv(a)'
<1>1. /\ pc'[a] = "aborted" /\ raised'[a] = "usage" /\ exit'[a] = "2" /\ skip'[a] = FALSE
      /\ Fresh(a, key)
  BY TypeParts DEF GateInv, RunTypeOK, Misused, Goto
<1> QED BY <1>1, FreshKeeps

(* Before the file is opened, what is there is of an earlier run.          *)
LEMMA NotShippedYet ==
    ASSUME GateInv, NEW a \in Accounts, pc[a] \in Running \ {"write", "print"}
    PROVE  ~Shipped(a) /\ report[a].run < launches[a]
<1>1. /\ report[a].run < launches[a]
      /\ report[a].run \in Nat /\ launches[a] \in Nat
  BY TypeParts DEF GateInv, RunInv, Filed, RunTypeOK, Reports
<1> QED BY <1>1 DEF Shipped

(* Steps of stages 1 to 4 that stay on the way to the gate.                *)
LEMMA IngestKeeps ==
    ASSUME GateInv, NEW a \in Accounts,
           LoadAll(a) \/ BuildContext(a) \/ BuildSummary(a) \/ RetrieveSignals(a)
    PROVE  RunInv(a)'
<1>0. /\ pc[a] \in Ingest /\ pc'[a] \in Before
      /\ skip' = skip /\ verdict' = verdict /\ verification' = verification
      /\ fallback' = fallback /\ llmCalls' = llmCalls /\ exit' = exit
      /\ raised' = raised
      /\ launches' = launches /\ report' = report
      /\ phase' = phase /\ sent' = sent /\ reply' = reply
      /\ pc'[a] # "prompt"
  BY TypeParts DEF GateInv, RunTypeOK, LoadAll, BuildContext, BuildSummary, RetrieveSignals, Goto,
     Before, Ingest, clientVars
<1> USE DEF GateInv, RunInv, Before, Ingest, Running, After
<1>9. ~Shipped(a) /\ ~Shipped(a)'
  BY <1>0, NotShippedYet DEF Shipped
<1>1. Judged(a)' /\ Told(a)'
  BY <1>0, <1>9 DEF Judged, Told, Decided
<1>2. Filed(a)'
  BY <1>0, <1>9 DEF Filed
<1>3. Linked(a)'
  BY <1>0, <1>9 DEF Linked, Quiet, Decided
<1> QED BY <1>1, <1>2, <1>3

(* Whatever ends the process otherwise than main() does.                   *)
LEMMA EndKeeps ==
    ASSUME GateInv, NEW a \in Accounts,
           /\ pc[a] \in Running /\ pc'[a] \in {"aborted", "killed"}
           /\ exit'[a] = IF pc'[a] = "aborted" THEN "1" ELSE exit[a]
           /\ raised'[a] # "usage"
           /\ pc[a] = "print" /\ pc'[a] = "aborted" => raised'[a] = "print"
           /\ raised'[a] = "markup" =>
                 \/ raised[a] = "markup"
                 \/ pc[a] = "render" /\ verdict[a] \in Broken /\ pc'[a] = "aborted"
           /\ skip' = skip /\ verdict' = verdict /\ verification' = verification
           /\ fallback' = fallback /\ llmCalls' = llmCalls
           /\ launches' = launches /\ report' = report,
           UNCHANGED clientVars \/ Die(a)
    PROVE  RunInv(a)'
<1> USE DEF GateInv, RunInv, Before, Ingest, Running, After
<1>0. /\ launches[a] \in Nat /\ report[a].run \in Nat
  BY TypeParts DEF RunTypeOK, Reports
<1>4. /\ Shipped(a)' <=> Shipped(a)
      /\ Decided(a)' => Decided(a)
      /\ Shipped(a) => pc[a] = "print"
  <2>1. Shipped(a)' <=> Shipped(a)
    BY DEF Shipped
  <2>2. Shipped(a) => pc[a] = "print"
    <3>1. CASE pc[a] \in Running \ {"write", "print"}
      BY <3>1, NotShippedYet
    <3>2. CASE pc[a] = "write"
      BY <3>2 DEF Filed, Shipped
    <3> QED BY <3>1, <3>2
  <2> QED BY <2>1, <2>2 DEF Decided
<1>1. Judged(a)' /\ Told(a)'
  <2>1. Judged(a)'
    BY <1>4 DEF Judged
  <2>2. ASSUME raised'[a] = "markup"
        PROVE  pc[a] = "render" /\ verdict[a] \in Broken /\ pc'[a] = "aborted"
    BY <2>2 DEF Told
  <2>3. ASSUME pc[a] = "render", verdict[a] \in Broken
        PROVE  llmCalls[a] = 1 /\ report[a].run < launches[a]
    <3>1. verdict[a] # "none"
      BY <2>3, VerdictsAssumption, RepliesAssumption
    <3>2. fallback[a] \in BOOLEAN
      BY TypeParts DEF RunTypeOK
    <3>3. llmCalls[a] = 1
      BY <2>3, <3>1, <3>2 DEF Judged, Decided
    <3> QED BY <2>3, <3>3 DEF Filed
  <2> QED BY <2>1, <2>2, <2>3 DEF Told
<1>2. Filed(a)'
  <2>1. Shipped(a)' => report'[a] = Written(a)'
    BY <1>4 DEF Filed, Written
  <2> QED BY <1>0, <1>4, <2>1 DEF Filed
<1>3. Linked(a)'
  <2>1. CASE UNCHANGED clientVars
    BY <1>4, <2>1 DEF Linked, Quiet, clientVars
  <2>2. CASE Die(a)
    <3>1. phase[a] \in {"building", "waiting"} /\ phase'[a] = "off"
      BY <2>2, TypeParts DEF Die, ClientTypeOK
    <3>2. reply' = reply /\ sent' = sent /\ llmCalls[a] # 1 /\ reply[a] \notin ToolInputs
      BY <2>2, <3>1 DEF Die, Linked
    <3> QED BY <3>1, <3>2 DEF Linked, Quiet
  <2> QED BY <2>1, <2>2
<1> QED BY <1>1, <1>2, <1>3

LEMMA EndingsKeep ==
    ASSUME GateInv, NEW a \in Accounts,
           \/ BadConfig(a) \/ RenderRaises(a) \/ Fault(a)
           \/ EstimateCost(a) /\ ~Readable(a, "pricing")
    PROVE  RunInv(a)'
<1> USE TypeParts DEF GateInv, RunTypeOK, Abort, Goto, Running, Ingest
<1>1. CASE BadConfig(a)
  BY <1>1, EndKeeps DEF BadConfig
<1>2. CASE RenderRaises(a)
  BY <1>2, EndKeeps DEF RenderRaises
<1>3. CASE BadData(a) \/ WriteRaises(a)
  BY <1>3, EndKeeps DEF BadData, WriteRaises
<1>6. CASE PrintRaises(a)
  BY <1>6, EndKeeps DEF PrintRaises
<1>4. CASE Kill(a)
  <2>1. pc[a] \in Running /\ raised[a] # "usage"
    BY <1>4 DEF Kill, RunInv, Told
  <2> QED BY <1>4, <2>1, EndKeeps DEF Kill
<1>5. CASE EstimateCost(a) /\ ~Readable(a, "pricing")
  BY <1>5, EndKeeps DEF EstimateCost
<1> QED BY <1>1, <1>2, <1>3, <1>4, <1>5, <1>6 DEF Fault

LEMMA BranchKeeps ==
    ASSUME GateInv, NEW a \in Accounts, Branch(a) PROVE RunInv(a)'
<1> USE DEF Before, Ingest, Running, After
<1>0. /\ pc[a] = "gate" /\ pc'[a] = IF skip[a] THEN "render" ELSE "prompt"
      /\ fallback'[a] = skip[a] /\ skip[a] \in BOOLEAN
      /\ skip' = skip /\ verdict' = verdict /\ verification' = verification
      /\ llmCalls' = llmCalls /\ exit' = exit /\ raised' = raised
      /\ launches' = launches /\ report' = report
      /\ phase' = phase /\ sent' = sent /\ reply' = reply
      /\ RunInv(a)
  BY TypeParts DEF GateInv, RunTypeOK, Branch, Goto, clientVars
<1>9. ~Shipped(a) /\ ~Shipped(a)'
  BY <1>0, NotShippedYet DEF Shipped
<1>1. Judged(a)' /\ Told(a)'
  BY <1>0, <1>9 DEF RunInv, Judged, Told, Decided
<1>2. Filed(a)'
  BY <1>0, <1>9 DEF RunInv, Filed
<1>3. Linked(a)'
  BY <1>0, <1>9 DEF RunInv, Linked, Quiet, Decided
<1> QED BY <1>1, <1>2, <1>3 DEF RunInv

(* The generic handler, which runs before the gate has passed anything.    *)
LEMMA RecoverKeeps ==
    ASSUME GateInv, NEW a \in Accounts, ~skip[a],
           pc[a] \in {"prompt", "calling", "verify"}, Recover(a),
           pc[a] = "calling" => phase[a] = "raised",
           /\ skip' = skip /\ exit' = exit /\ raised' = raised
           /\ launches' = launches /\ report' = report
           /\ UNCHANGED clientVars
    PROVE  RunInv(a)'
<1> USE DEF Before, Ingest, Running, After
<1>0. /\ pc'[a] = "cost" /\ fallback'[a] = TRUE
      /\ verdict' = verdict /\ verification' = verification /\ llmCalls' = llmCalls
      /\ phase' = phase /\ sent' = sent /\ reply' = reply
      /\ RunInv(a)
  BY TypeParts DEF GateInv, RunTypeOK, Recover, Goto, clientVars
<1>9. ~Shipped(a) /\ ~Shipped(a)'
  BY <1>0, NotShippedYet DEF Shipped
<1>1. Judged(a)' /\ Told(a)'
  BY <1>0, <1>9 DEF RunInv, Judged, Told, Decided
<1>2. Filed(a)'
  BY <1>0, <1>9 DEF RunInv, Filed
<1>3. Linked(a)'
  BY <1>0, <1>9 DEF RunInv, Judged, Linked, Quiet, Decided
<1> QED BY <1>1, <1>2, <1>3 DEF RunInv

LEMMA NotSkipped ==
    ASSUME GateInv, NEW a \in Accounts, pc[a] \in {"prompt", "calling", "verify", "cost"}
    PROVE  ~skip[a]
  BY DEF GateInv, RunInv, Judged

LEMMA SynthesizeKeeps ==
    ASSUME GateInv, NEW a \in Accounts, Synthesize(a) PROVE RunInv(a)'
<1> USE DEF Before, Ingest, Running, After
<1>1. CASE disk["prompt"] # "good"
  BY <1>1, RecoverKeeps, NotSkipped DEF Synthesize
<1>2. CASE disk["prompt"] = "good"
  <2>0. /\ pc[a] = "prompt" /\ pc'[a] = "calling" /\ ~skip[a]
        /\ skip' = skip /\ verdict' = verdict /\ verification' = verification
        /\ fallback' = fallback /\ llmCalls' = llmCalls /\ exit' = exit /\ raised' = raised
        /\ launches' = launches /\ report' = report
        /\ phase[a] = "off" /\ phase'[a] = "building" /\ reply' = reply
        /\ RunInv(a)
    BY <1>2, NotSkipped, TypeParts
       DEF GateInv, RunTypeOK, ClientTypeOK, Synthesize, Goto, Call
  <2>9. ~Shipped(a) /\ ~Shipped(a)'
    BY <2>0, NotShippedYet DEF Shipped
  <2>1. Judged(a)' /\ Told(a)'
    BY <2>0, <2>9 DEF RunInv, Judged, Told, Decided
  <2>2. Filed(a)'
    BY <2>0, <2>9 DEF RunInv, Filed
  <2>3. Linked(a)'
    BY <2>0, <2>9 DEF RunInv, Judged, Linked, Quiet, Decided
  <2> QED BY <2>1, <2>2, <2>3 DEF RunInv
<1> QED BY <1>1, <1>2

LEMMA ValidateKeeps ==
    ASSUME GateInv, NEW a \in Accounts, Validate(a) PROVE RunInv(a)'
<1> USE DEF Before, Ingest, Running, After
<1>0. /\ pc[a] = "calling" /\ phase[a] = "answered" /\ ~skip[a]
      /\ llmCalls'[a] = 1 /\ skip' = skip /\ verification' = verification
      /\ exit' = exit /\ raised' = raised /\ launches' = launches /\ report' = report
      /\ phase' = phase /\ sent' = sent /\ reply' = reply
      /\ RunInv(a)
  BY NotSkipped, TypeParts DEF GateInv, RunTypeOK, Validate, clientVars
<1>9. ~Shipped(a) /\ ~Shipped(a)'
  BY <1>0, NotShippedYet DEF Shipped
<1>1. \/ /\ pc'[a] = "verify" /\ verdict'[a] = reply[a] /\ reply[a] \in Conforming
         /\ fallback' = fallback
      \/ pc'[a] = "cost" /\ verdict' = verdict /\ fallback'[a] = TRUE
  BY TypeParts DEF GateInv, RunTypeOK, Validate, Goto
<1>2. reply[a] \in Conforming => reply[a] # "none"
  BY VerdictsAssumption, RepliesAssumption
<1>3. Judged(a)' /\ Told(a)'
  BY <1>0, <1>1, <1>2, <1>9 DEF RunInv, Judged, Told, Decided
<1>4. Filed(a)'
  BY <1>0, <1>1, <1>9 DEF RunInv, Filed
<1>5. Linked(a)'
  BY <1>0, <1>1, <1>9 DEF RunInv, Linked, Quiet, Decided
<1> QED BY <1>3, <1>4, <1>5 DEF RunInv

LEMMA VerifyKeeps ==
    ASSUME GateInv, NEW a \in Accounts, VerifyPasses(a) \/ VerifyFails(a)
    PROVE  RunInv(a)'
<1> USE DEF Before, Ingest, Running, After
<1>0. /\ pc[a] = "verify" /\ pc'[a] = "cost" /\ ~skip[a]
      /\ skip' = skip /\ llmCalls' = llmCalls
      /\ exit' = exit /\ raised' = raised /\ launches' = launches /\ report' = report
      /\ phase' = phase /\ sent' = sent /\ reply' = reply
      /\ RunInv(a)
  BY NotSkipped, TypeParts DEF GateInv, RunTypeOK, VerifyPasses, VerifyFails, Goto, clientVars
<1>9. ~Shipped(a) /\ ~Shipped(a)'
  BY <1>0, NotShippedYet DEF Shipped
<1>1. \/ /\ verdict[a] \in Grounded /\ verdict' = verdict
         /\ verification'[a] = "passed" /\ fallback' = fallback
      \/ verdict'[a] = "none" /\ verification'[a] = "failed" /\ fallback'[a] = TRUE
  BY TypeParts DEF GateInv, RunTypeOK, VerifyPasses, VerifyFails
<1>2. Judged(a)' /\ Told(a)'
  BY <1>0, <1>1, <1>9 DEF RunInv, Judged, Told, Decided
<1>3. Filed(a)'
  BY <1>0, <1>1, <1>9 DEF RunInv, Filed
<1>4. Linked(a)'
  BY <1>0, <1>1, <1>9 DEF RunInv, Judged, Linked, Quiet, Decided
<1> QED BY <1>2, <1>3, <1>4 DEF RunInv

LEMMA CostKeeps ==
    ASSUME GateInv, NEW a \in Accounts, EstimateCost(a), Readable(a, "pricing")
    PROVE  RunInv(a)'
<1> USE DEF Before, Ingest, Running, After
<1>0. /\ pc[a] = "cost" /\ pc'[a] = "render"
      /\ skip' = skip /\ verdict' = verdict /\ verification' = verification
      /\ fallback' = fallback /\ llmCalls' = llmCalls /\ exit' = exit /\ raised' = raised
      /\ launches' = launches /\ report' = report
      /\ phase' = phase /\ sent' = sent /\ reply' = reply
      /\ RunInv(a)
  BY TypeParts DEF GateInv, RunTypeOK, EstimateCost, Goto, clientVars
<1>9. ~Shipped(a) /\ ~Shipped(a)'
  BY <1>0, NotShippedYet DEF Shipped
<1>1. Judged(a)' /\ Told(a)'
  BY <1>0, <1>9 DEF RunInv, Judged, Told, Decided
<1>2. Filed(a)'
  BY <1>0, <1>9 DEF RunInv, Filed
<1>3. Linked(a)'
  BY <1>0, <1>9 DEF RunInv, Linked, Quiet, Decided
<1> QED BY <1>1, <1>2, <1>3 DEF RunInv

LEMMA OpenKeeps ==
    ASSUME GateInv, NEW a \in Accounts, OpenReport(a) PROVE RunInv(a)'
<1> USE DEF Before, Ingest, Running, After
<1>0. /\ pc[a] = "render" /\ pc'[a] = "write"
      /\ skip' = skip /\ verdict' = verdict /\ verification' = verification
      /\ fallback' = fallback /\ llmCalls' = llmCalls /\ exit' = exit /\ raised' = raised
      /\ launches' = launches /\ launches[a] \in Nat
      /\ phase' = phase /\ sent' = sent /\ reply' = reply
      /\ report'[a].part = "partial" /\ report'[a].run = launches[a]
      /\ RunInv(a)
  BY TypeParts DEF GateInv, RunTypeOK, OpenReport, NoReport, Goto, clientVars
<1>4. Decided(a) /\ ~Shipped(a)'
  BY <1>0 DEF Decided, Shipped
<1>1. Judged(a)' /\ Told(a)'
  BY <1>0, <1>4 DEF RunInv, Judged, Told
<1>2. Filed(a)'
  BY <1>0, <1>4 DEF Filed
<1>3. Linked(a)'
  BY <1>0, <1>4 DEF RunInv, Linked, Quiet
<1> QED BY <1>1, <1>2, <1>3 DEF RunInv

LEMMA WriteKeeps ==
    ASSUME GateInv, NEW a \in Accounts, WriteReport(a) PROVE RunInv(a)'
<1> USE DEF Before, Ingest, Running, After
<1>0. /\ pc[a] = "write" /\ pc'[a] = "print"
      /\ skip' = skip /\ verdict' = verdict /\ verification' = verification
      /\ fallback' = fallback /\ llmCalls' = llmCalls
      /\ exit' = exit /\ raised' = raised
      /\ launches' = launches /\ launches[a] \in Nat
      /\ verification[a] \in {"none", "passed", "failed"} /\ fallback[a] \in BOOLEAN
      /\ phase' = phase /\ sent' = sent /\ reply' = reply
      /\ report'[a] = Written(a)
      /\ RunInv(a)
  BY TypeParts DEF GateInv, RunTypeOK, Results, WriteReport, Written, Goto, clientVars
<1>4. Decided(a) /\ Shipped(a)' /\ Written(a)' = Written(a)
  BY <1>0 DEF Decided, Shipped, Written
<1>1. Judged(a)' /\ Told(a)'
  BY <1>0, <1>4 DEF RunInv, Judged, Told
<1>2. Filed(a)'
  <2>1. Judged(a)
    BY <1>0 DEF RunInv
  <2> QED BY <1>0, <1>4, <2>1 DEF Judged, Filed, Written
<1>3. Linked(a)'
  BY <1>0, <1>4 DEF RunInv, Linked, Quiet
<1> QED BY <1>1, <1>2, <1>3 DEF RunInv

LEMMA ExitKeeps ==
    ASSUME GateInv, NEW a \in Accounts, Exit(a) PROVE RunInv(a)'
<1> USE DEF Before, Ingest, Running, After
<1>0. /\ pc[a] = "print" /\ pc'[a] = "done"
      /\ skip' = skip /\ verdict' = verdict /\ verification' = verification
      /\ fallback' = fallback /\ llmCalls' = llmCalls /\ raised' = raised
      /\ exit'[a] = IF fallback[a] THEN "2" ELSE "0"
      /\ launches' = launches /\ report' = report
      /\ phase' = phase /\ sent' = sent /\ reply' = reply
      /\ RunInv(a)
  BY TypeParts DEF GateInv, RunTypeOK, Exit, Goto, clientVars
<1>4. Decided(a) /\ Shipped(a) /\ Shipped(a)' /\ Written(a)' = Written(a)
  BY <1>0 DEF RunInv, Filed, Decided, Shipped, Written
<1>1. Judged(a)' /\ Told(a)'
  BY <1>0, <1>4 DEF RunInv, Judged, Told
<1>2. Filed(a)'
  BY <1>0, <1>4 DEF RunInv, Filed
<1>3. Linked(a)'
  BY <1>0, <1>4 DEF RunInv, Linked, Quiet
<1> QED BY <1>1, <1>2, <1>3 DEF RunInv

(* A process that has sent nothing has nothing in flight to wake up.       *)
LEMMA QuietClient ==
    ASSUME ClientInv, NEW a \in Accounts, Quiet(a) PROVE ~ClientStep(a)
<1>1. phase[a] = "off" /\ wire[a] = "none" /\ stray[a] = 0
  BY DEF ClientInv, ClientTypeOK, AccountInv, CallInv, Conserved, Quiet
<1> QED BY <1>1 DEF ClientStep, Attempt, Send, NoKey, Wait, TimeOut, Overloaded, Conflict,
           Refused, Deliver, Provider, Process, ProcessStray

LEMMA InCallKeeps ==
    ASSUME GateInv, NEW a \in Accounts, InCall(ClientStep(a)) PROVE RunInv(a)'
<1>0. /\ pc' = pc /\ skip' = skip /\ verdict' = verdict /\ verification' = verification
      /\ fallback' = fallback /\ llmCalls' = llmCalls /\ exit' = exit /\ raised' = raised
      /\ launches' = launches /\ report' = report
      /\ ~Quiet(a) /\ RunInv(a) /\ ClientStep(a)
  BY QuietClient DEF GateInv, InCall, pipeVars, runVars
<1>1. Judged(a)' /\ Told(a)' /\ Filed(a)'
  BY <1>0 DEF RunInv, Judged, Decided, Told, Filed, Written, Shipped
<1>4. Decided(a)' <=> Decided(a)
  BY <1>0 DEF Decided, Shipped
<1> USE TypeParts DEF GateInv, ClientTypeOK
<1>2. CASE Provider(a)
  <2>1. phase' = phase /\ reply' = reply
    BY <1>2 DEF Provider, Process, ProcessStray
  <2> QED BY <1>0, <1>1, <1>4, <2>1 DEF RunInv, Linked
<1>3. CASE Attempt(a) \/ Wait(a)
  <2>1. phase[a] \in {"building", "waiting"}
    BY <1>3 DEF Attempt, Send, NoKey, Wait, TimeOut, Overloaded, Conflict, Refused, Deliver
  <2>2. /\ pc[a] \notin Before /\ ~Decided(a) /\ reply[a] \notin ToolInputs /\ llmCalls[a] = 0
        /\ verdict[a] = "none" /\ ~skip[a]
    <3>1. Linked(a) /\ llmCalls[a] \in {0, 1} /\ verdict[a] \in ToolInputs \cup {"none"}
      BY <1>0, VerdictsAssumption DEF RunInv, RunTypeOK
    <3> QED BY <2>1, <3>1 DEF Linked, Quiet
  <2>3. phase'[a] = "answered" <=> reply'[a] \in ToolInputs
    <3>1. CASE Attempt(a)
      BY <2>1, <2>2, <3>1 DEF Attempt, Send, NoKey
    <3>2. CASE TimeOut(a) \/ Overloaded(a)
      BY <2>2, <3>2 DEF TimeOut, Overloaded, AfterTransient, Resend, NextAttempt, Reraise
    <3>3. CASE Conflict(a) \/ Refused(a)
      BY <2>2, <3>3 DEF Conflict, Refused, Resend, Reraise
    <3>4. ASSUME NEW r \in Replies \ {"none"}, Deliver(a, r)
          PROVE  phase'[a] = "answered" <=> reply'[a] \in ToolInputs
      BY <3>4, RepliesAssumption DEF Deliver, Replies
    <3> QED BY <1>3, <3>1, <3>2, <3>3, <3>4 DEF Wait
  <2> QED BY <1>0, <1>1, <1>4, <2>2, <2>3 DEF RunInv, Linked
<1> QED BY <1>0, <1>2, <1>3 DEF ClientStep

-----------------------------------------------------------------------------
LEMMA StageKeeps ==
    ASSUME GateInv, NEW a \in Accounts, Stage(a) PROVE RunInv(a)'
<1>1. CASE CallRaised(a) \/ VerifyRaises(a)
  BY <1>1, RecoverKeeps, NotSkipped DEF CallRaised, VerifyRaises
<1>2. CASE EstimateCost(a)
  BY <1>2, CostKeeps, EndingsKeep
<1> QED BY <1>1, <1>2, IngestKeeps, EndingsKeep, BranchKeeps, SynthesizeKeeps, ValidateKeeps,
           VerifyKeeps, OpenKeeps, WriteKeeps, ExitKeeps DEF Stage

LEMMA GateInvStep == GateInv /\ [Next]_vars => GateInv'
<1> SUFFICES ASSUME GateInv, [Next]_vars PROVE GateInv'
  OBVIOUS
<1>1. TypeOK' /\ ClientInv'
  BY Typed, StepIsClientStep, ClientInvStep DEF GateInv
<1>2. ASSUME NEW b \in Accounts PROVE RunInv(b)'
  <2> USE TypeParts DEF GateInv
  <2>1. CASE UNCHANGED vars
    BY <2>1, SameRunKeeps DEF vars, pipeVars, runVars, clientVars, SameRun, SameCall
  <2>2. ASSUME NEW a \in Accounts, NEW key \in BOOLEAN, NEW skipLlm \in BOOLEAN,
               Launch(a, key, skipLlm)
        PROVE  RunInv(b)'
    <3>1. Boot(a, key)
      BY <2>2 DEF Launch, Fresh
    <3> QED BY <2>2, <3>1, LaunchKeeps, LaunchOthers, ClientOthers, SameRunKeeps
  <2>7. ASSUME NEW a \in Accounts, NEW key \in BOOLEAN, Misused(a, key) PROVE RunInv(b)'
    <3>1. Boot(a, key)
      BY <2>7 DEF Misused, Fresh
    <3> QED BY <2>7, <3>1, MisusedKeeps, MisusedOthers, ClientOthers, SameRunKeeps
  <2>3. ASSUME NEW a \in Accounts, Stage(a) PROVE RunInv(b)'
    BY <2>3, StageKeeps, StageOthers, StageClient, ClientOthers, SameRunKeeps
  <2>4. ASSUME NEW a \in Accounts, Fault(a) PROVE RunInv(b)'
    BY <2>4, EndingsKeep, FaultOthers, FaultClient, ClientOthers, SameRunKeeps
  <2>5. ASSUME NEW a \in Accounts, InCall(ClientStep(a)) PROVE RunInv(b)'
    <3>1. SameRun(b) /\ ClientStep(a)
      BY <2>5 DEF InCall, pipeVars, runVars, SameRun
    <3> QED BY <2>5, <3>1, InCallKeeps, ClientOthers, SameRunKeeps
  <2>6. ASSUME NEW f \in Configs, NEW content \in Contents, Edit(f, content)
        PROVE  RunInv(b)'
    BY <2>6, SameRunKeeps DEF Edit, runVars, clientVars, SameRun, SameCall
  <2> QED BY <2>1, <2>2, <2>3, <2>4, <2>5, <2>6, <2>7, StepKinds
<1> QED BY <1>1, <1>2 DEF GateInv

LEMMA GateInvInit == Init => GateInv
<1> SUFFICES ASSUME Init PROVE GateInv
  OBVIOUS
<1>1. TypeOK /\ ClientInv
  BY InitTyped, ClientInvInit DEF Init
<1>2. ASSUME NEW a \in Accounts PROVE RunInv(a)
  BY <1>2, RepliesAssumption DEF Init, ClientInit, RunInv, Judged, Decided, Told, Filed, Linked,
     Quiet, Shipped, NoReport, Before, After, Ingest, Running
<1> QED BY <1>1, <1>2 DEF GateInv

(* The invariant behind the theorems that follow.                          *)
THEOREM GateIsInvariant == Spec => []GateInv
  BY GateInvInit, GateInvStep, PTL DEF Spec

(* A narrative without the banner is one the gate's checks hold of.        *)
THEOREM UnmarkedIsGrounded == Spec => []UnmarkedNarrativeIsGrounded
<1>1. GateInv => UnmarkedNarrativeIsGrounded
  BY DEF GateInv, RunInv, Filed, UnmarkedNarrativeIsGrounded
<1> QED BY <1>1, GateIsInvariant, PTL

(* A refused verdict is in no report.                                      *)
THEOREM RefusedIsDropped == Spec => []RefusedVerdictIsDropped
<1>1. ASSUME GateInv PROVE RefusedVerdictIsDropped
  <2> SUFFICES ASSUME NEW a \in Accounts, verification[a] = "failed"
               PROVE  /\ verdict[a] = "none" /\ fallback[a]
                      /\ Shipped(a) => report[a].narrative = "none" /\ report[a].banner
    BY DEF RefusedVerdictIsDropped
  <2>1. verdict[a] = "none" /\ fallback[a]
    BY <1>1 DEF GateInv, RunInv, Judged
  <2>2. Shipped(a) => report[a].narrative = verdict[a] /\ report[a].banner = fallback[a]
    <3>1. Filed(a)
      BY <1>1 DEF GateInv, RunInv
    <3> QED BY <3>1 DEF Filed, Written
  <2> QED BY <2>1, <2>2
<1> QED BY <1>1, GateIsInvariant, PTL

(* What a caller concludes from the exit code holds of the file on disk.   *)
THEOREM ExitCodeIsTrue == Spec => []ExitCodeTellsReport
<1>1. ASSUME GateInv PROVE ExitCodeTellsReport
  <2> SUFFICES ASSUME NEW a \in Accounts
               PROVE  /\ exit[a] = "0" => Shipped(a) /\ ~report[a].banner
                      /\ exit[a] = "2" =>
                            raised[a] = "usage" \/ (Shipped(a) /\ report[a].banner)
                      /\ exit[a] = "1" /\ Shipped(a) => raised[a] = "print"
                      /\ raised[a] = "usage" => report[a].run < launches[a]
    BY DEF ExitCodeTellsReport
  <2>1. /\ Told(a) /\ Filed(a) /\ fallback[a] \in BOOLEAN
        /\ pc[a] \in Running \cup Over \cup {"idle"}
    BY <1>1, TypeParts DEF GateInv, RunInv, RunTypeOK
  <2>2. CASE pc[a] = "done"
    <3>1. Shipped(a) /\ report[a].banner = fallback[a]
      BY <2>1, <2>2 DEF Filed, Written
    <3> QED BY <2>1, <2>2, <3>1 DEF Told
  <2>3. CASE pc[a] = "aborted"
    BY <2>1, <2>3 DEF Told, Filed
  <2>4. CASE pc[a] \in Running \cup {"idle", "killed"}
    BY <2>1, <2>4 DEF Told, Running, Ingest
  <2> QED BY <2>1, <2>2, <2>3, <2>4 DEF Over
<1> QED BY <1>1, GateIsInvariant, PTL

LEMMA RecordIsTrue == GateInv => RecordedCallWasBilled
<1> SUFFICES ASSUME GateInv, NEW a \in Accounts
             PROVE  /\ llmCalls[a] = 1 => reply[a] \in ToolInputs /\ billed[a] >= 1
                    /\ skip[a] => /\ sent[a] = 0 /\ billed[a] = 0
                                  /\ Shipped(a) => report[a].banner
  BY DEF RecordedCallWasBilled
<1>1. /\ Judged(a) /\ Filed(a) /\ Linked(a) /\ Conserved(a)
      /\ billed[a] \in Nat /\ stray[a] \in Nat /\ sent[a] \in Nat
  BY TypeParts DEF GateInv, RunInv, ClientInv, AccountInv, ClientTypeOK
<1>2. llmCalls[a] = 1 => reply[a] \in ToolInputs /\ billed[a] >= 1
  BY <1>1, RepliesAssumption DEF Linked, Conserved
<1>3. skip[a] => sent[a] = 0 /\ billed[a] = 0
  BY <1>1 DEF Linked, Quiet, Conserved
<1>4. Shipped(a) /\ skip[a] => report[a].banner
  BY <1>1 DEF Judged, Decided, Filed, Written
<1> QED BY <1>2, <1>3, <1>4

(* The provenance in the report claims no call that was not billed, and a  *)
(* deterministic run sends nothing.                                        *)
THEOREM RecordIsBilled == Spec => []RecordedCallWasBilled
  BY RecordIsTrue, GateIsInvariant, PTL

(* The banner is on exactly the reports the gate did not pass.             *)
THEOREM BannerIsTrue == Spec => []BannerTellsVerification
<1>1. GateInv => BannerTellsVerification
  BY DEF GateInv, RunInv, Filed, BannerTellsVerification
<1> QED BY <1>1, GateIsInvariant, PTL

(* The provenance has a call exactly when the tool's block was delivered.  *)
THEOREM ProvenanceIsTrue == Spec => []ProvenanceTellsReply
<1>1. ASSUME GateInv PROVE ProvenanceTellsReply
  <2> SUFFICES ASSUME NEW a \in Accounts, Shipped(a)
               PROVE  /\ report[a].llmCalls = 1 <=> reply[a] \in ToolInputs
                      /\ reply[a] = "noTool" => report[a].banner
                      /\ report[a].narrative \in {reply[a], "none"} \ {"noTool"}
    BY DEF ProvenanceTellsReply
  <2>1. Decided(a) /\ Judged(a) /\ Filed(a) /\ Linked(a)
    BY <1>1 DEF GateInv, RunInv, Decided
  <2>2. /\ report[a].narrative = verdict[a] /\ report[a].banner = fallback[a]
        /\ report[a].llmCalls = llmCalls[a]
    BY <2>1 DEF Filed, Written
  <2>3. /\ fallback[a] \in BOOLEAN /\ llmCalls[a] \in {0, 1}
        /\ verdict[a] \in Conforming \cup {"none"}
    BY <1>1, TypeParts DEF GateInv, RunTypeOK
  <2>4. report[a].llmCalls = 1 <=> reply[a] \in ToolInputs
    BY <2>1, <2>2, <2>3 DEF Linked
  <2>5. reply[a] = "noTool" => fallback[a]
    BY <2>1, <2>2, <2>3, <2>4, RepliesAssumption DEF Judged
  <2>6. verdict[a] # "noTool"
    BY <2>3, RepliesAssumption, VerdictsAssumption
  <2> QED BY <2>1, <2>2, <2>4, <2>5, <2>6 DEF Linked
<1> QED BY <1>1, GateIsInvariant, PTL

(* What a run that ends by markup leaves.                                  *)
THEOREM MarkupIsHarmless == Spec => []MarkupLeavesReport
<1>1. ASSUME GateInv PROVE MarkupLeavesReport
  <2> SUFFICES ASSUME NEW a \in Accounts, raised[a] = "markup"
               PROVE  /\ pc[a] = "aborted" /\ reply[a] \in Broken /\ billed[a] >= 1
                      /\ report[a].run < launches[a]
    BY DEF MarkupLeavesReport
  <2>1. Told(a) /\ Linked(a) /\ Conserved(a)
    BY <1>1 DEF GateInv, RunInv, ClientInv, AccountInv
  <2>2. verdict[a] \in Broken /\ llmCalls[a] = 1
    BY <2>1 DEF Told
  <2>3. reply[a] = verdict[a]
    BY <2>1, <2>2, VerdictsAssumption, RepliesAssumption DEF Linked
  <2>4. billed[a] >= 1
    <3>1. RecordedCallWasBilled
      BY <1>1, RecordIsTrue
    <3> QED BY <2>2, <3>1 DEF RecordedCallWasBilled
  <2> QED BY <2>1, <2>2, <2>3, <2>4 DEF Told
<1> QED BY <1>1, GateIsInvariant, PTL

-----------------------------------------------------------------------------
(* Refinement: the run implements Report.                                  *)

LEMMA InitRefines == Init => Abstract!Init
  BY DEF Init, Abstract!Init, RunStatus, FileStatus, NoReport

(* The steps of one account, seen from Report.                             *)
Seen(a, s, f) ==
    \A b \in Accounts : /\ RunStatus(b)' = IF b = a THEN s ELSE RunStatus(b)
                        /\ FileStatus(b)' = IF b = a THEN f ELSE FileStatus(b)

LEMMA SeenOthers ==
    ASSUME RunTypeOK, NEW a \in Accounts, NEW s, NEW f,
           \A b \in Accounts \ {a} : SameRun(b),
           RunStatus(a)' = s, FileStatus(a)' = f
    PROVE  Seen(a, s, f)
  BY DEF Seen, SameRun, RunStatus, FileStatus

LEMMA SeenSteps ==
    ASSUME NEW a \in Accounts, NEW s, NEW f, Seen(a, s, f),
           \/ s = RunStatus(a) /\ f = FileStatus(a)
           \/ /\ RunStatus(a) \in Abstract!Ended \cup {"idle"}
              /\ s \in {"working", "failed"} /\ f = FileStatus(a)
           \/ /\ RunStatus(a) \in {"working", "publishing", "published"}
              /\ s = "failed" /\ f = FileStatus(a)
           \/ RunStatus(a) = "working" /\ s = "publishing" /\ f = "damaged"
           \/ /\ RunStatus(a) = "publishing" /\ s = "published"
              /\ f \in {"verified", "caveated"}
           \/ /\ RunStatus(a) = "published" /\ f = FileStatus(a)
              /\ s = IF FileStatus(a) = "verified" THEN "accepted" ELSE "caveated"
    PROVE  [Abstract!Next]_(Abstract!reportVars)
<1> DEFINE st == [b \in Accounts |-> RunStatus(b)]
           fl == [b \in Accounts |-> FileStatus(b)]
<1>1. st' = [st EXCEPT ![a] = s] /\ fl' = [fl EXCEPT ![a] = f]
  BY DEF Seen
<1>2. CASE s = RunStatus(a) /\ f = FileStatus(a)
  <2>1. st' = st /\ fl' = fl
    BY <1>1, <1>2
  <2> QED BY <2>1 DEF Abstract!reportVars
<1>3. CASE /\ RunStatus(a) \in Abstract!Ended \cup {"idle"}
           /\ s \in {"working", "failed"} /\ f = FileStatus(a)
  <2>1. fl' = fl
    BY <1>1, <1>3
  <2>2. s = "working" => Abstract!Start(a)
    BY <1>1, <1>3, <2>1 DEF Abstract!Start
  <2>3. s = "failed" => Abstract!Misuse(a)
    BY <1>1, <1>3, <2>1 DEF Abstract!Misuse
  <2> QED BY <1>3, <2>2, <2>3 DEF Abstract!Next
<1>4. CASE /\ RunStatus(a) \in {"working", "publishing", "published"}
           /\ s = "failed" /\ f = FileStatus(a)
  <2>1. fl' = fl
    BY <1>1, <1>4
  <2>2. Abstract!Fail(a)
    BY <1>1, <1>4, <2>1 DEF Abstract!Fail
  <2> QED BY <2>2 DEF Abstract!Next
<1>5. CASE RunStatus(a) = "working" /\ s = "publishing" /\ f = "damaged"
  <2>1. Abstract!Open(a)
    BY <1>1, <1>5 DEF Abstract!Open
  <2> QED BY <2>1 DEF Abstract!Next
<1>6. CASE RunStatus(a) = "publishing" /\ s = "published" /\ f \in {"verified", "caveated"}
  <2>1. Abstract!Publish(a)
    BY <1>1, <1>6 DEF Abstract!Publish
  <2> QED BY <2>1 DEF Abstract!Next
<1>7. CASE /\ RunStatus(a) = "published" /\ f = FileStatus(a)
           /\ s = IF FileStatus(a) = "verified" THEN "accepted" ELSE "caveated"
  <2>1. fl' = fl
    BY <1>1, <1>7
  <2>2. Abstract!Tell(a)
    BY <1>1, <1>7, <2>1 DEF Abstract!Tell
  <2> QED BY <2>2 DEF Abstract!Next
<1> QED BY <1>2, <1>3, <1>4, <1>5, <1>6, <1>7

LEMMA StageRefines ==
    ASSUME GateInv, NEW a \in Accounts, Stage(a)
    PROVE  [Abstract!Next]_(Abstract!reportVars)
<1> DEFINE Busy == Running \ {"write", "print"}
<1> USE DEF Running, Ingest, Over
<1>0. RunTypeOK /\ RunInv(a)
  BY TypeParts DEF GateInv
<1>1. \A b \in Accounts \ {a} : SameRun(b)
  BY <1>0, StageOthers
<1>2. CASE report' = report /\ pc[a] \in Busy /\ pc'[a] \in Busy
  <2>1. RunStatus(a) = "working" /\ RunStatus(a)' = "working" /\ FileStatus(a)' = FileStatus(a)
    BY <1>2 DEF RunStatus, FileStatus
  <2> QED BY <1>0, <1>1, <2>1, SeenOthers, SeenSteps
<1>3. CASE report' = report /\ pc[a] \in Busy /\ pc'[a] = "aborted"
  <2>1. RunStatus(a) = "working" /\ RunStatus(a)' = "failed" /\ FileStatus(a)' = FileStatus(a)
    BY <1>3 DEF RunStatus, FileStatus
  <2> QED BY <1>0, <1>1, <2>1, SeenOthers, SeenSteps
<1>4. CASE OpenReport(a)
  <2>1. pc[a] = "render" /\ pc'[a] = "write" /\ report'[a].part = "partial"
    BY <1>0, <1>4 DEF OpenReport, Goto, RunTypeOK, NoReport
  <2>2. RunStatus(a) = "working" /\ RunStatus(a)' = "publishing" /\ FileStatus(a)' = "damaged"
    BY <2>1 DEF RunStatus, FileStatus
  <2> QED BY <1>0, <1>1, <2>2, SeenOthers, SeenSteps
<1>5. CASE WriteReport(a)
  <2>1. /\ pc[a] = "write" /\ pc'[a] = "print"
        /\ report'[a].part = "complete" /\ report'[a].banner = fallback[a]
        /\ report'[a].narrative = verdict[a]
    BY <1>0, <1>5 DEF WriteReport, Goto, RunTypeOK
  <2>2. ~fallback[a] => verdict[a] \in Grounded
    BY <1>0, <2>1 DEF RunInv, Judged, Decided, After
  <2>3. RunStatus(a) = "publishing" /\ RunStatus(a)' = "published"
    BY <2>1 DEF RunStatus
  <2>4. FileStatus(a)' \in {"verified", "caveated"}
    BY <2>1, <2>2 DEF FileStatus
  <2> QED BY <1>0, <1>1, <2>3, <2>4, SeenOthers, SeenSteps
<1>10. CASE Exit(a)
  <2>1. /\ pc[a] = "print" /\ pc'[a] = "done" /\ report' = report
        /\ exit'[a] = IF fallback[a] THEN "2" ELSE "0"
    BY <1>0, <1>10 DEF Exit, Goto, RunTypeOK
  <2>2. report[a] = Written(a)
    BY <1>0, <2>1 DEF RunInv, Filed
  <2>3. ~fallback[a] => verdict[a] \in Grounded
    BY <1>0, <2>1 DEF RunInv, Judged, Decided, After
  <2>4. FileStatus(a) = IF fallback[a] THEN "caveated" ELSE "verified"
    BY <2>2, <2>3 DEF FileStatus, Written
  <2>5. RunStatus(a) = "published" /\ FileStatus(a)' = FileStatus(a)
    BY <2>1 DEF RunStatus, FileStatus
  <2>6. RunStatus(a)' = IF FileStatus(a) = "verified" THEN "accepted" ELSE "caveated"
    BY <2>1, <2>4 DEF RunStatus
  <2> QED BY <1>0, <1>1, <2>5, <2>6, SeenOthers, SeenSteps
<1>6. CASE LoadAll(a) \/ BuildContext(a) \/ BuildSummary(a) \/ RetrieveSignals(a) \/ BadConfig(a)
  BY <1>0, <1>2, <1>3, <1>6 DEF LoadAll, BuildContext, BuildSummary, RetrieveSignals, BadConfig,
     Goto, Abort, RunTypeOK
<1>7. CASE Branch(a) \/ CallRaised(a) \/ Validate(a) \/ Synthesize(a)
  BY <1>0, <1>2, <1>7 DEF Branch, CallRaised, Validate, Synthesize, Goto, Recover, RunTypeOK
<1>8. CASE VerifyPasses(a) \/ VerifyFails(a) \/ VerifyRaises(a)
  BY <1>0, <1>2, <1>8 DEF VerifyPasses, VerifyFails, VerifyRaises, Goto, Recover, RunTypeOK
<1>9. CASE EstimateCost(a) \/ RenderRaises(a)
  BY <1>0, <1>2, <1>3, <1>9 DEF EstimateCost, RenderRaises, Goto, Abort, RunTypeOK
<1> QED BY <1>4, <1>5, <1>6, <1>7, <1>8, <1>9, <1>10 DEF Stage

LEMMA FaultRefines ==
    ASSUME GateInv, NEW a \in Accounts, Fault(a)
    PROVE  [Abstract!Next]_(Abstract!reportVars)
<1> USE DEF Running, Ingest, Over
<1>0. RunTypeOK
  BY TypeParts DEF GateInv
<1>1. \A b \in Accounts \ {a} : SameRun(b)
  BY <1>0, FaultOthers
<1>2. pc[a] \in Running /\ pc'[a] \in {"aborted", "killed"} /\ report' = report
  BY <1>0 DEF Fault, BadData, WriteRaises, PrintRaises, Kill, Goto, Abort, RunTypeOK
<1>3. /\ RunStatus(a) \in {"working", "publishing", "published"} /\ RunStatus(a)' = "failed"
      /\ FileStatus(a)' = FileStatus(a)
  BY <1>2 DEF RunStatus, FileStatus
<1> QED BY <1>0, <1>1, <1>3, SeenOthers, SeenSteps

LEMMA LaunchRefines ==
    ASSUME GateInv, NEW a \in Accounts, NEW key \in BOOLEAN,
           Misused(a, key) \/ \E skipLlm \in BOOLEAN : Launch(a, key, skipLlm)
    PROVE  [Abstract!Next]_(Abstract!reportVars)
<1> USE DEF Over
<1>0. RunTypeOK
  BY TypeParts DEF GateInv
<1>1. \A b \in Accounts \ {a} : SameRun(b)
  BY <1>0, LaunchOthers, MisusedOthers
<1>2. pc[a] \in Over \cup {"idle"} /\ pc'[a] \in {"load", "aborted"} /\ report' = report
  BY <1>0 DEF Launch, Misused, Fresh, Goto, RunTypeOK
<1>3. /\ RunStatus(a) \in Abstract!Ended \cup {"idle"}
      /\ RunStatus(a)' \in {"working", "failed"}
      /\ FileStatus(a)' = FileStatus(a)
  BY <1>2 DEF RunStatus, FileStatus, Abstract!Ended
<1> QED BY <1>0, <1>1, <1>3, SeenOthers, SeenSteps

LEMMA StepRefines == GateInv /\ [Next]_vars => [Abstract!Next]_(Abstract!reportVars)
<1> SUFFICES ASSUME GateInv, [Next]_vars PROVE [Abstract!Next]_(Abstract!reportVars)
  OBVIOUS
<1>1. CASE UNCHANGED <<pc, exit, report>>
  BY <1>1 DEF Abstract!reportVars, RunStatus, FileStatus
<1>2. CASE UNCHANGED vars
  BY <1>1, <1>2 DEF vars, pipeVars, runVars
<1>3. ASSUME NEW a \in Accounts, InCall(ClientStep(a))
      PROVE  UNCHANGED <<pc, exit, report>>
  BY <1>3 DEF InCall, pipeVars, runVars
<1>4. ASSUME NEW f \in Configs, NEW content \in Contents, Edit(f, content)
      PROVE  UNCHANGED <<pc, exit, report>>
  BY <1>4 DEF Edit, runVars
<1> QED BY <1>1, <1>2, <1>3, <1>4, StageRefines, FaultRefines, LaunchRefines, StepKinds

(* Every behaviour of the pipeline is one that Report allows.              *)
THEOREM PipelineImplementsReport == Spec => ImplementsReport
  BY InitRefines, StepRefines, GateIsInvariant, PTL DEF Spec, ImplementsReport, Abstract!Spec
=============================================================================
