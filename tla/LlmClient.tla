----------------------------- MODULE LlmClient -----------------------------
(***************************************************************************)
(* src/challenge/llm/client.py: one tool-use call to the provider, made by *)
(* the process that renews one account.                                    *)
(*                                                                         *)
(* Two retry loops are nested: tenacity around _do_call (RetryAttempts,    *)
(* line 174) and the SDK's own resends inside messages.create (SdkRetries, *)
(* which _build_client leaves at the SDK's default).  A request the client *)
(* gave up on may still reach the provider and be billed, so each account  *)
(* also has a count of stray requests.  The provider owes nothing: it may  *)
(* process, refuse, answer late or stay silent.                            *)
(***************************************************************************)
EXTENDS Naturals

CONSTANTS
    Accounts,       \* one process per account (README: N customers, N invocations)
    RetryAttempts,  \* DEFAULT_RETRY_ATTEMPTS, 3 in the code
    SdkRetries,     \* max_retries of the SDK client, 2 by default
    ToolInputs      \* the arguments a reply may pass to the forced tool

ASSUME RetriesAssumption == RetryAttempts \in Nat \ {0} /\ SdkRetries \in Nat
ASSUME RepliesAssumption == {"none", "noTool"} \cap ToolInputs = {}

VARIABLES
    hasKey,   \* resolve_api_key() finds a key in the environment of the process
    phase,    \* where the call is
    attempt,  \* tenacity's attempt number
    resend,   \* resends of the SDK inside this attempt
    wire,     \* the request the client is waiting on
    stray,    \* requests it gave up on that the provider may still process
    sent,     \* requests this process has put on the wire
    billed,   \* those the provider has processed, hence charged for
    reply,    \* what the provider's delivered message contains
    failure   \* the exception call_with_tool raised

clientVars == <<hasKey, phase, attempt, resend, wire, stray, sent, billed, reply, failure>>

Phases   == {"off", "building", "waiting", "answered", "raised"}
Replies  == ToolInputs \cup {"none", "noTool"}
Failures == {"none", "noKey", "transient", "status", "noTool"}
Budget   == RetryAttempts * (SdkRetries + 1)

ClientTypeOK ==
    /\ hasKey  \in [Accounts -> BOOLEAN]
    /\ phase   \in [Accounts -> Phases]
    /\ attempt \in [Accounts -> Nat]
    /\ resend  \in [Accounts -> Nat]
    /\ wire    \in [Accounts -> {"none", "sent", "processed"}]
    /\ stray   \in [Accounts -> Nat]
    /\ sent    \in [Accounts -> Nat]
    /\ billed  \in [Accounts -> Nat]
    /\ reply   \in [Accounts -> Replies]
    /\ failure \in [Accounts -> Failures]

ClientInit ==
    /\ hasKey  = [a \in Accounts |-> FALSE]
    /\ phase   = [a \in Accounts |-> "off"]
    /\ attempt = [a \in Accounts |-> 0]
    /\ resend  = [a \in Accounts |-> 0]
    /\ wire    = [a \in Accounts |-> "none"]
    /\ stray   = [a \in Accounts |-> 0]
    /\ sent    = [a \in Accounts |-> 0]
    /\ billed  = [a \in Accounts |-> 0]
    /\ reply   = [a \in Accounts |-> "none"]
    /\ failure = [a \in Accounts |-> "none"]

-----------------------------------------------------------------------------
(* The process.                                                            *)

(* A new process for a.  The counters speak of this process's requests:    *)
(* those of an earlier one are no longer followed.                         *)
Boot(a, key) ==
    /\ phase[a] \in {"off", "answered", "raised"}
    /\ hasKey'  = [hasKey  EXCEPT ![a] = key]
    /\ phase'   = [phase   EXCEPT ![a] = "off"]
    /\ attempt' = [attempt EXCEPT ![a] = 0]
    /\ resend'  = [resend  EXCEPT ![a] = 0]
    /\ stray'   = [stray   EXCEPT ![a] = 0]
    /\ sent'    = [sent    EXCEPT ![a] = 0]
    /\ billed'  = [billed  EXCEPT ![a] = 0]
    /\ reply'   = [reply   EXCEPT ![a] = "none"]
    /\ failure' = [failure EXCEPT ![a] = "none"]
    /\ UNCHANGED wire

(* The process dies while it waits: its request is on its own.             *)
Die(a) ==
    /\ phase[a] \in {"building", "waiting"}
    /\ phase' = [phase EXCEPT ![a] = "off"]
    /\ wire'  = [wire EXCEPT ![a] = "none"]
    /\ stray' = [stray EXCEPT ![a] = IF wire[a] = "sent" THEN @ + 1 ELSE @]
    /\ UNCHANGED <<hasKey, attempt, resend, sent, billed, reply, failure>>

-----------------------------------------------------------------------------
(* call_with_tool.                                                         *)

(* The pipeline calls once in the life of a process.                       *)
Call(a) ==
    /\ phase[a] = "off" /\ attempt[a] = 0
    /\ phase'   = [phase EXCEPT ![a] = "building"]
    /\ attempt' = [attempt EXCEPT ![a] = 1]
    /\ UNCHANGED <<hasKey, resend, wire, stray, sent, billed, reply, failure>>

(* _do_call: build a client for this attempt and send the request.         *)
Send(a) ==
    /\ phase[a] = "building" /\ hasKey[a]
    /\ phase'  = [phase EXCEPT ![a] = "waiting"]
    /\ resend' = [resend EXCEPT ![a] = 0]
    /\ wire'   = [wire EXCEPT ![a] = "sent"]
    /\ sent'   = [sent EXCEPT ![a] = @ + 1]
    /\ UNCHANGED <<hasKey, attempt, stray, billed, reply, failure>>

(* _build_client raises EnvironmentError, which is not transient.          *)
NoKey(a) ==
    /\ phase[a] = "building" /\ ~hasKey[a]
    /\ phase'   = [phase EXCEPT ![a] = "raised"]
    /\ failure' = [failure EXCEPT ![a] = "noKey"]
    /\ UNCHANGED <<hasKey, attempt, resend, wire, stray, sent, billed, reply>>

(* After a failure the SDK may retry: the SDK first, then tenacity if the  *)
(* failure is _is_transient, then the exception is reraised.               *)
Resend(a) ==
    /\ resend[a] < SdkRetries
    /\ resend' = [resend EXCEPT ![a] = @ + 1]
    /\ wire'   = [wire EXCEPT ![a] = "sent"]
    /\ sent'   = [sent EXCEPT ![a] = @ + 1]
    /\ UNCHANGED <<phase, attempt, failure>>

(* Mutant: counts the attempts that are left, and does not stop at none.   *)
NextAttemptDown(a) ==
    /\ resend[a] = SdkRetries /\ attempt[a] < RetryAttempts
    /\ phase'   = [phase EXCEPT ![a] = "building"]
    /\ attempt' = [attempt EXCEPT ![a] = @ - 1]
    /\ wire'    = [wire EXCEPT ![a] = "none"]
    /\ UNCHANGED <<resend, sent, failure>>

(* Mutant: one attempt too many.                                           *)
NextAttemptLate(a) ==
    /\ resend[a] = SdkRetries /\ attempt[a] <= RetryAttempts
    /\ phase'   = [phase EXCEPT ![a] = "building"]
    /\ attempt' = [attempt EXCEPT ![a] = @ + 1]
    /\ wire'    = [wire EXCEPT ![a] = "none"]
    /\ UNCHANGED <<resend, sent, failure>>

NextAttempt(a) ==
    /\ resend[a] = SdkRetries /\ attempt[a] < RetryAttempts
    /\ phase'   = [phase EXCEPT ![a] = "building"]
    /\ attempt' = [attempt EXCEPT ![a] = @ + 1]
    /\ wire'    = [wire EXCEPT ![a] = "none"]
    /\ UNCHANGED <<resend, sent, failure>>

Reraise(a, exc) ==
    /\ phase'   = [phase EXCEPT ![a] = "raised"]
    /\ failure' = [failure EXCEPT ![a] = exc]
    /\ wire'    = [wire EXCEPT ![a] = "none"]
    /\ UNCHANGED <<attempt, resend, sent>>

(* Mutant: one attempt too few.                                            *)
AfterTransientEarly(a) ==
    \/ Resend(a)
    \/ NextAttempt(a)
    \/ resend[a] = SdkRetries /\ attempt[a] + 1 >= RetryAttempts /\ Reraise(a, "transient")

AfterTransient(a) ==
    \/ Resend(a)
    \/ NextAttempt(a)
    \/ resend[a] = SdkRetries /\ attempt[a] >= RetryAttempts /\ Reraise(a, "transient")

(* Mutant: the timeout covers sending, not waiting for the answer.         *)
TimeOutSendingOnly(a) ==
    /\ phase[a] = "waiting" /\ wire[a] = "sent"
    /\ stray' = [stray EXCEPT ![a] = @ + 1]
    /\ AfterTransient(a)
    /\ UNCHANGED <<hasKey, billed, reply>>

(* Mutant: a request whose answer was on its way is tried as one that was  *)
(* never processed.                                                        *)
TimeOutForgetsAnswer(a) ==
    /\ phase[a] = "waiting"
    /\ stray' = [stray EXCEPT ![a] = @ + 1]
    /\ AfterTransient(a)
    /\ UNCHANGED <<hasKey, billed, reply>>

(* The 60 s timeout, or the connection lost: the request is abandoned      *)
(* wherever it is.                                                         *)
TimeOut(a) ==
    /\ phase[a] = "waiting"
    /\ stray' = [stray EXCEPT ![a] = IF wire[a] = "sent" THEN @ + 1 ELSE @]
    /\ AfterTransient(a)
    /\ UNCHANGED <<hasKey, billed, reply>>

(* Rate limit or 5xx: the provider turned the request away.                *)
Overloaded(a) ==
    /\ phase[a] = "waiting" /\ wire[a] = "sent"
    /\ AfterTransient(a)
    /\ UNCHANGED <<hasKey, stray, billed, reply>>

(* 408 and 409: the SDK resends them, _is_transient does not know them.    *)
Conflict(a) ==
    /\ phase[a] = "waiting" /\ wire[a] = "sent"
    /\ \/ Resend(a)
       \/ resend[a] = SdkRetries /\ Reraise(a, "status")
    /\ UNCHANGED <<hasKey, stray, billed, reply>>

(* Any other 4xx is final.                                                 *)
Refused(a) ==
    /\ phase[a] = "waiting" /\ wire[a] = "sent"
    /\ Reraise(a, "status")
    /\ UNCHANGED <<hasKey, stray, billed, reply>>

(* The message arrives: LLMResponse if it holds the tool's block,          *)
(* RuntimeError if it does not.  Neither is retried.                       *)
Deliver(a, r) ==
    /\ phase[a] = "waiting" /\ wire[a] = "processed"
    /\ wire'    = [wire EXCEPT ![a] = "none"]
    /\ reply'   = [reply EXCEPT ![a] = r]
    /\ phase'   = [phase EXCEPT ![a] = IF r = "noTool" THEN "raised" ELSE "answered"]
    /\ failure' = [failure EXCEPT ![a] = IF r = "noTool" THEN "noTool" ELSE "none"]
    /\ UNCHANGED <<hasKey, attempt, resend, stray, sent, billed>>

-----------------------------------------------------------------------------
(* The provider.                                                           *)

Process(a) ==
    /\ wire[a] = "sent"
    /\ wire'   = [wire EXCEPT ![a] = "processed"]
    /\ billed' = [billed EXCEPT ![a] = @ + 1]
    /\ UNCHANGED <<hasKey, phase, attempt, resend, stray, sent, reply, failure>>

ProcessStray(a) ==
    /\ stray[a] > 0
    /\ stray'  = [stray EXCEPT ![a] = @ - 1]
    /\ billed' = [billed EXCEPT ![a] = @ + 1]
    /\ UNCHANGED <<hasKey, phase, attempt, resend, wire, sent, reply, failure>>

-----------------------------------------------------------------------------
(* What the process does without its caller.                               *)
Attempt(a)    == Send(a) \/ NoKey(a)
Wait(a)       == TimeOut(a) \/ Overloaded(a) \/ Conflict(a) \/ Refused(a)
                 \/ \E r \in Replies \ {"none"} : Deliver(a, r)
Provider(a)   == Process(a) \/ ProcessStray(a)
ClientStep(a) == Attempt(a) \/ Wait(a) \/ Provider(a)

ClientNext ==
    \E a \in Accounts :
        \/ \E key \in BOOLEAN : Boot(a, key)
        \/ Call(a)
        \/ Die(a)
        \/ ClientStep(a)

ClientSpec == ClientInit /\ [][ClientNext]_clientVars

-----------------------------------------------------------------------------
(* Properties.                                                             *)

(* Requests are conserved: whatever is billed, on the wire or abandoned    *)
(* was sent, and a delivered message is one of the billed requests.        *)
RequestsConserved ==
    \A a \in Accounts :
        /\ billed[a] + stray[a] + (IF wire[a] = "sent" THEN 1 ELSE 0) <= sent[a]
        /\ (wire[a] = "processed" \/ reply[a] # "none") => billed[a] >= 1

(* Spending is bounded whatever the provider does and however late: one    *)
(* call is charged at most RetryAttempts * (SdkRetries + 1) times, the two *)
(* retry loops multiplied.                                                 *)
SpendBounded == \A a \in Accounts : billed[a] + stray[a] <= Budget

(* The call gives up on a transient failure only after every attempt and   *)
(* every resend, and without a key it sends nothing.                       *)
GivesUpOnlyWhenSpent ==
    \A a \in Accounts :
        /\ failure[a] = "transient" => sent[a] = Budget
        /\ failure[a] = "noKey" => sent[a] = 0

(* Whatever the provider does, the call returns, raises or dies with its   *)
(* process.                                                                *)
CallEnds ==
    \A a \in Accounts :
        phase[a] \in {"building", "waiting"} ~> phase[a] \in {"off", "answered", "raised"}
=============================================================================
