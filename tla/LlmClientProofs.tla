-------------------------- MODULE LlmClientProofs --------------------------
(***************************************************************************)
(* LlmClient, for every number of accounts, attempts and resends.          *)
(*                                                                         *)
(* SpendBounded is not inductive: that a call on its last attempt may      *)
(* still send depends on how many requests the attempts before it used.    *)
(* The invariant counts them exactly: an attempt that is being built has   *)
(* used up the quota of the attempts before it, one that is waiting has    *)
(* used 1 + resend of its own.                                             *)
(***************************************************************************)
EXTENDS LlmClient, TLAPS

Quota(k) == k * (SdkRetries + 1)

CallInv(a) ==
    /\ wire[a] # "none" <=> phase[a] = "waiting"
    /\ phase[a] = "off" /\ attempt[a] = 0 => sent[a] = 0
    /\ phase[a] = "building" =>
          /\ attempt[a] \in 1 .. RetryAttempts
          /\ sent[a] + SdkRetries + 1 = Quota(attempt[a])
    /\ phase[a] = "waiting" =>
          /\ attempt[a] \in 1 .. RetryAttempts
          /\ resend[a] <= SdkRetries
          /\ sent[a] + SdkRetries = Quota(attempt[a]) + resend[a]
    /\ phase[a] = "building" /\ ~hasKey[a] => attempt[a] = 1
    /\ phase[a] = "waiting" => hasKey[a]
    /\ reply[a] # "none" => phase[a] \in {"answered", "raised"}
    /\ failure[a] # "none" => phase[a] = "raised"

Conserved(a) ==
    /\ billed[a] + stray[a] + (IF wire[a] = "sent" THEN 1 ELSE 0) <= sent[a]
    /\ (wire[a] = "processed" \/ reply[a] # "none") => billed[a] >= 1

Spent(a) ==
    /\ sent[a] <= Budget
    /\ failure[a] = "transient" => sent[a] = Budget
    /\ failure[a] = "noKey" => sent[a] = 0

AccountInv(a) == CallInv(a) /\ Conserved(a) /\ Spent(a)

ClientInv == ClientTypeOK /\ \A a \in Accounts : AccountInv(a)

-----------------------------------------------------------------------------
(* Arithmetic of the quota.                                                *)

LEMMA QuotaFacts ==
    /\ Quota(1) = SdkRetries + 1
    /\ Quota(RetryAttempts) = Budget
    /\ Budget \in Nat
    /\ \A k \in Nat : /\ Quota(k) \in Nat
                      /\ Quota(k + 1) = Quota(k) + SdkRetries + 1
                      /\ k <= RetryAttempts => Quota(k) <= Budget
<1>1. SdkRetries + 1 \in Nat /\ RetryAttempts \in Nat
  BY RetriesAssumption
<1>2. \A m \in Nat, k \in Nat : /\ k * m \in Nat
                               /\ 1 * m = m
                               /\ (k + 1) * m = k * m + m
  OBVIOUS
<1>3. \A m \in Nat, k \in Nat, n \in Nat : k <= n => k * m <= n * m
  <2> SUFFICES ASSUME NEW m \in Nat, NEW k \in Nat, NEW n \in Nat, k <= n
               PROVE  k * m <= n * m
    OBVIOUS
  <2>1. PICK d \in Nat : n = k + d
    <3>1. n - k \in Nat /\ n = k + (n - k)
      OBVIOUS
    <3> QED BY <3>1
  <2>2. (k + d) * m = k * m + d * m /\ d * m \in Nat /\ k * m \in Nat
    OBVIOUS
  <2> QED BY <2>1, <2>2
<1> QED BY <1>1, <1>2, <1>3, RetriesAssumption DEF Quota, Budget

-----------------------------------------------------------------------------
LEMMA ClientTyped == ClientTypeOK /\ [ClientNext]_clientVars => ClientTypeOK'
<1> SUFFICES ASSUME ClientTypeOK, [ClientNext]_clientVars PROVE ClientTypeOK'
  OBVIOUS
<1> USE DEF ClientTypeOK, Phases, Failures, Replies
<1>1. CASE UNCHANGED clientVars
  BY <1>1 DEF clientVars
<1>2. ASSUME NEW a \in Accounts, NEW key \in BOOLEAN, Boot(a, key) PROVE ClientTypeOK'
  BY <1>2 DEF Boot
<1>3. ASSUME NEW a \in Accounts, Call(a) PROVE ClientTypeOK'
  BY <1>3 DEF Call
<1>4. ASSUME NEW a \in Accounts, Die(a) PROVE ClientTypeOK'
  BY <1>4 DEF Die
<1>5. ASSUME NEW a \in Accounts, Attempt(a) PROVE ClientTypeOK'
  BY <1>5 DEF Attempt, Send, NoKey
<1>6. ASSUME NEW a \in Accounts, Provider(a) PROVE ClientTypeOK'
  BY <1>6 DEF Provider, Process, ProcessStray
<1>7. ASSUME NEW a \in Accounts, Wait(a) PROVE ClientTypeOK'
  <2>1. CASE TimeOut(a)
    BY <2>1 DEF TimeOut, AfterTransient, Resend, NextAttempt, Reraise
  <2>2. CASE Overloaded(a)
    BY <2>2 DEF Overloaded, AfterTransient, Resend, NextAttempt, Reraise
  <2>3. CASE Conflict(a)
    BY <2>3 DEF Conflict, Resend, Reraise
  <2>4. CASE Refused(a)
    BY <2>4 DEF Refused, Reraise
  <2>5. ASSUME NEW r \in Replies \ {"none"}, Deliver(a, r) PROVE ClientTypeOK'
    BY <2>5 DEF Deliver
  <2> QED BY <1>7, <2>1, <2>2, <2>3, <2>4, <2>5 DEF Wait
<1> QED BY <1>1, <1>2, <1>3, <1>4, <1>5, <1>6, <1>7 DEF ClientNext, ClientStep

(* Nothing an account's invariant speaks of changes.                       *)
Same(b) ==
    /\ hasKey'[b] = hasKey[b] /\ phase'[b] = phase[b] /\ attempt'[b] = attempt[b]
    /\ resend'[b] = resend[b] /\ wire'[b] = wire[b] /\ stray'[b] = stray[b]
    /\ sent'[b] = sent[b] /\ billed'[b] = billed[b] /\ reply'[b] = reply[b]
    /\ failure'[b] = failure[b]

LEMMA Others ==
    ASSUME ClientTypeOK, NEW a \in Accounts, NEW b \in Accounts, b # a,
           \/ \E key \in BOOLEAN : Boot(a, key)
           \/ Call(a) \/ Die(a) \/ ClientStep(a)
    PROVE  Same(b)
<1> USE DEF ClientTypeOK, Same
<1>1. CASE \E key \in BOOLEAN : Boot(a, key)
  BY <1>1 DEF Boot
<1>2. CASE Call(a)
  BY <1>2 DEF Call
<1>3. CASE Die(a)
  BY <1>3 DEF Die
<1>4. CASE Attempt(a) \/ Provider(a)
  BY <1>4 DEF Attempt, Send, NoKey, Provider, Process, ProcessStray
<1>5. CASE TimeOut(a) \/ Overloaded(a)
  BY <1>5 DEF TimeOut, Overloaded, AfterTransient, Resend, NextAttempt, Reraise
<1>6. CASE Conflict(a) \/ Refused(a)
  BY <1>6 DEF Conflict, Refused, Resend, Reraise
<1>7. CASE \E r \in Replies \ {"none"} : Deliver(a, r)
  BY <1>7 DEF Deliver
<1> QED BY <1>1, <1>2, <1>3, <1>4, <1>5, <1>6, <1>7 DEF ClientStep, Wait

LEMMA SameKeeps == ASSUME NEW b \in Accounts, AccountInv(b), Same(b) PROVE AccountInv(b)'
  BY DEF AccountInv, CallInv, Conserved, Spent, Same, Budget, Quota

-----------------------------------------------------------------------------
(* The account that takes the step.                                        *)

LEMMA ProcessKeeps ==
    ASSUME ClientInv, NEW a \in Accounts,
           (\E key \in BOOLEAN : Boot(a, key)) \/ Call(a) \/ Die(a)
    PROVE  AccountInv(a)'
<1> USE QuotaFacts, RetriesAssumption
        DEF ClientInv, ClientTypeOK, AccountInv, CallInv, Conserved, Spent
<1> USE SMTT(20)
<1>1. ASSUME NEW key \in BOOLEAN, Boot(a, key) PROVE AccountInv(a)'
  BY <1>1 DEF Boot
<1>2. CASE Call(a)
  BY <1>2 DEF Call
<1>3. CASE Die(a)
  BY <1>3 DEF Die
<1> QED BY <1>1, <1>2, <1>3

(* The counts at the end of the budget and at its beginning.               *)
LEMMA LastFailure ==
    ASSUME ClientInv, NEW a \in Accounts, phase[a] = "waiting",
           resend[a] = SdkRetries, attempt[a] >= RetryAttempts
    PROVE  sent[a] = Budget
<1>1. /\ attempt[a] \in 1 .. RetryAttempts
      /\ sent[a] + SdkRetries = Quota(attempt[a]) + SdkRetries
      /\ sent[a] \in Nat
  BY DEF ClientInv, ClientTypeOK, AccountInv, CallInv
<1>2. attempt[a] = RetryAttempts
  BY <1>1, RetriesAssumption
<1>3. sent[a] + SdkRetries = Budget + SdkRetries
  BY <1>1, <1>2, QuotaFacts
<1>4. Budget \in Nat /\ SdkRetries \in Nat
  BY QuotaFacts, RetriesAssumption
<1> QED BY <1>1, <1>3, <1>4

LEMMA NothingSent ==
    ASSUME ClientInv, NEW a \in Accounts, phase[a] = "building", ~hasKey[a]
    PROVE  sent[a] = 0
<1>1. /\ attempt[a] = 1 /\ sent[a] \in Nat
      /\ sent[a] + SdkRetries + 1 = Quota(attempt[a])
  BY DEF ClientInv, ClientTypeOK, AccountInv, CallInv
<1>2. sent[a] + SdkRetries + 1 = SdkRetries + 1
  BY <1>1, QuotaFacts
<1> QED BY <1>1, <1>2, RetriesAssumption

LEMMA AttemptKeeps ==
    ASSUME ClientInv, NEW a \in Accounts, Attempt(a) PROVE AccountInv(a)'
<1> USE QuotaFacts, RetriesAssumption
        DEF ClientInv, ClientTypeOK, AccountInv, CallInv, Conserved, Spent
<1>1. CASE Send(a)
  BY <1>1, SMTT(20) DEF Send
<1>2. CASE NoKey(a)
  <2>1. sent[a] = 0
    BY <1>2, NothingSent DEF NoKey
  <2> QED BY <1>2, <2>1, SMTT(20) DEF NoKey
<1> QED BY <1>1, <1>2 DEF Attempt

LEMMA ProviderKeeps ==
    ASSUME ClientInv, NEW a \in Accounts, Provider(a) PROVE AccountInv(a)'
<1> USE DEF ClientInv, ClientTypeOK, AccountInv, CallInv, Conserved, Spent
<1>1. CASE Process(a)
  BY <1>1, SMTT(20) DEF Process
<1>2. CASE ProcessStray(a)
  BY <1>2, SMTT(20) DEF ProcessStray
<1> QED BY <1>1, <1>2 DEF Provider

(* A waiting call that fails: the SDK, tenacity, or the caller takes over. *)
LEMMA FailureKeeps ==
    ASSUME ClientInv, NEW a \in Accounts,
           TimeOut(a) \/ Overloaded(a) \/ Conflict(a) \/ Refused(a)
    PROVE  AccountInv(a)'
<1> USE QuotaFacts, RetriesAssumption
        DEF ClientInv, ClientTypeOK, AccountInv, CallInv, Conserved, Spent
<1> DEFINE Lost == stray'[a] = IF wire[a] = "sent" THEN stray[a] + 1 ELSE stray[a]
           Kept == stray'[a] = stray[a] /\ wire[a] = "sent"
<1>0. /\ phase[a] = "waiting" /\ (Lost \/ Kept)
      /\ hasKey' = hasKey /\ billed' = billed /\ reply' = reply
  BY DEF TimeOut, Overloaded, Conflict, Refused
<1>1. CASE Resend(a)
  BY <1>0, <1>1, SMTT(20) DEF Resend
<1>2. CASE NextAttempt(a)
  BY <1>0, <1>2, SMTT(20) DEF NextAttempt
<1>3. CASE resend[a] = SdkRetries /\ attempt[a] >= RetryAttempts /\ Reraise(a, "transient")
  <2>1. sent[a] = Budget
    BY <1>0, <1>3, LastFailure
  <2> QED BY <1>0, <1>3, <2>1, SMTT(20) DEF Reraise
<1>4. CASE Reraise(a, "status")
  BY <1>0, <1>4, SMTT(20) DEF Reraise
<1> QED BY <1>1, <1>2, <1>3, <1>4 DEF TimeOut, Overloaded, Conflict, Refused, AfterTransient

LEMMA DeliverKeeps ==
    ASSUME ClientInv, NEW a \in Accounts, NEW r \in Replies \ {"none"}, Deliver(a, r)
    PROVE  AccountInv(a)'
  BY SMTT(20) DEF Deliver, ClientInv, ClientTypeOK, AccountInv, CallInv, Conserved, Spent

-----------------------------------------------------------------------------
LEMMA ClientInvInit == ClientInit => ClientInv
<1> SUFFICES ASSUME ClientInit PROVE ClientInv
  OBVIOUS
<1>1. ClientTypeOK
  BY DEF ClientInit, ClientTypeOK, Phases, Replies, Failures
<1>2. ASSUME NEW a \in Accounts PROVE AccountInv(a)
  BY <1>2, QuotaFacts DEF ClientInit, AccountInv, CallInv, Conserved, Spent
<1> QED BY <1>1, <1>2 DEF ClientInv

LEMMA ClientInvStep == ClientInv /\ [ClientNext]_clientVars => ClientInv'
<1> SUFFICES ASSUME ClientInv, [ClientNext]_clientVars PROVE ClientInv'
  OBVIOUS
<1>1. ClientTypeOK'
  BY ClientTyped DEF ClientInv
<1>2. ASSUME NEW b \in Accounts PROVE AccountInv(b)'
  <2>1. CASE UNCHANGED clientVars
    BY <2>1, SameKeeps DEF ClientInv, Same, clientVars
  <2>2. CASE ClientNext
    <3>1. PICK a \in Accounts : \/ \E key \in BOOLEAN : Boot(a, key)
                                \/ Call(a) \/ Die(a) \/ ClientStep(a)
      BY <2>2 DEF ClientNext
    <3>2. CASE b # a
      BY <3>1, <3>2, Others, SameKeeps DEF ClientInv
    <3>3. CASE b = a
      <4>1. CASE ClientStep(a)
        BY <3>3, <4>1, AttemptKeeps, ProviderKeeps, FailureKeeps, DeliverKeeps
           DEF ClientStep, Wait
      <4>2. CASE ~ClientStep(a)
        BY <3>1, <3>3, <4>2, ProcessKeeps
      <4> QED BY <4>1, <4>2
    <3> QED BY <3>2, <3>3
  <2> QED BY <2>1, <2>2
<1> QED BY <1>1, <1>2 DEF ClientInv

(* The counting invariant holds of every behaviour of the client.          *)
THEOREM ClientCorrect == ClientSpec => []ClientInv
  BY ClientInvInit, ClientInvStep, PTL DEF ClientSpec

(* Phases, counters, failures and replies of every call keep their types.  *)
THEOREM ClientTypeCorrect == ClientSpec => []ClientTypeOK
<1>1. ClientInv => ClientTypeOK
  BY DEF ClientInv
<1> QED BY <1>1, ClientCorrect, PTL

(* One call is charged at most RetryAttempts * (SdkRetries + 1) times,     *)
(* whatever the provider does with the requests the client gave up on.     *)
THEOREM SpendIsBounded == ClientSpec => []SpendBounded
<1>1. ASSUME ClientInv PROVE SpendBounded
  <2> SUFFICES ASSUME NEW a \in Accounts PROVE billed[a] + stray[a] <= Budget
    BY DEF SpendBounded
  <2>1. /\ billed[a] \in Nat /\ stray[a] \in Nat /\ sent[a] \in Nat
        /\ sent[a] <= Budget
        /\ billed[a] + stray[a] + (IF wire[a] = "sent" THEN 1 ELSE 0) <= sent[a]
    BY <1>1 DEF ClientInv, ClientTypeOK, AccountInv, Conserved, Spent
  <2>2. Budget \in Nat
    BY QuotaFacts
  <2> QED BY <2>1, <2>2
<1> QED BY <1>1, ClientCorrect, PTL

(* What is billed, on the wire or abandoned was sent.                      *)
THEOREM RequestsAreConserved == ClientSpec => []RequestsConserved
<1>1. ClientInv => RequestsConserved
  BY DEF ClientInv, AccountInv, Conserved, RequestsConserved
<1> QED BY <1>1, ClientCorrect, PTL

(* The call gives up on a transient failure only when the whole budget of  *)
(* requests is used, and sends none without a key.                         *)
THEOREM GivesUpLate == ClientSpec => []GivesUpOnlyWhenSpent
<1>1. ClientInv => GivesUpOnlyWhenSpent
  BY DEF ClientInv, AccountInv, Spent, GivesUpOnlyWhenSpent
<1> QED BY <1>1, ClientCorrect, PTL
=============================================================================
