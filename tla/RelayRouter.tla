---------------------------- MODULE RelayRouter ----------------------------
(***************************************************************************)
(* One process routing billed requests (relay/router.go, RouteWithBilling):*)
(* a slot of the in-memory rate limiter, a reservation in the organization,*)
(* a hold on the API token, the call of the provider, and then settlement  *)
(* or refund and another attempt.                                          *)
(*                                                                         *)
(* Each statement sent to the database is a step.  It may be rejected,     *)
(* and it may commit and be reported as failed; when the client of the     *)
(* request is gone its context is cancelled and every later statement      *)
(* fails.  The router drops the errors of refunds and of error rows.       *)
(*                                                                         *)
(* Abstracted: which channel an attempt selects (the pool may have none    *)
(* left at any time), what the provider answers, the readiness guard and   *)
(* the balance of the organization (module QuotaLedger), whose outcomes    *)
(* are left open; late denials are handed to module QuotaCompensation.     *)
(* stranded, adrift and spent are history: who gave up which money.        *)
(***************************************************************************)
EXTENDS Integers, Sequences, FiniteSets, Sums

CONSTANTS
  Requests,
  Streaming,      \* requests whose answer is a stream
  Tokened,        \* requests that came with an API token
  Keys,           \* idempotency keys; the handlers make one up when there is none
  Key,            \* the key of each request
  Estimate,       \* what each request is expected to cost
  Costs,          \* what an answer may cost
  TokenLimit,     \* relay_api_tokens.quota_limit of the one token
  MaxConcurrent,  \* limit of the one key the requests are limited by
  MaxAttempts,    \* maxRouteBillingAttempts
  NoSession,
  FaultBound      \* bound: statements that fail and processes that die

SessionIds == Keys \X (1 .. MaxAttempts)

ASSUME RequestsAssumption == IsFiniteSet(Requests)
ASSUME KindsAssumption == Streaming \subseteq Requests /\ Tokened \subseteq Requests
ASSUME KeyAssumption == Key \in [Requests -> Keys]
ASSUME MoneyAssumption ==
  /\ Estimate \in [Requests -> Nat \ {0}]
  /\ Costs \subseteq Nat \ {0}
  /\ TokenLimit \in Nat
ASSUME LimitsAssumption == MaxConcurrent \in Nat \ {0} /\ MaxAttempts \in Nat \ {0}
ASSUME SessionAssumption == NoSession \notin SessionIds
ASSUME BoundAssumption == FaultBound \in Nat

VARIABLES
  req,        \* where each request stands and what it holds
  gone,       \* requests whose client is gone
  slots,      \* the rate limiter's count of concurrent requests
  sessions,   \* billing_sessions, by attempt-scoped key
  tokenUsed,  \* relay_api_tokens.used_quota
  usage,      \* usage_records of each request: the statuses of its rows
  owed,       \* <<request, scope>> handed to compensation
  spent,      \* history: what each request was charged on the token
  stranded,   \* history: sessions whose owner gave up without closing them
  adrift,     \* history: token quota whose owner gave it up
  faults      \* bounded by FaultBound

vars == <<req, gone, slots, sessions, tokenUsed, usage, owed, spent, stranded, adrift, faults>>

AbsentSession == [status |-> "absent", reserved |-> 0, cost |-> 0]

NewRequest ==
  [pc |-> "arrive", attempt |-> 1, slot |-> FALSE, session |-> NoSession,
   token |-> FALSE, cost |-> 0, status |-> "none",
   again |-> FALSE, row |-> "none", result |-> "none"]

Init ==
  /\ req = [q \in Requests |-> NewRequest]
  /\ gone = {}
  /\ slots = 0
  /\ sessions = [s \in SessionIds |-> AbsentSession]
  /\ tokenUsed = 0
  /\ usage = [q \in Requests |-> <<>>]
  /\ owed = {}
  /\ spent = [q \in Requests |-> 0]
  /\ stranded = {}
  /\ adrift = 0
  /\ faults = 0

-----------------------------------------------------------------------------
(* Helpers                                                                  *)

Running(q) == req[q].pc \notin {"arrive", "done", "dead"}

At(q, pc) == req[q].pc = pc

Go(q, changes) == req' = [req EXCEPT ![q] = changes]

\* The request returns; what it did not release stays with it.
Returned(q, result) == [req[q] EXCEPT !.pc = "done", !.slot = FALSE, !.token = FALSE, !.result = result]

\* How a statement sent for q ends: executed; executed and reported as failed; not
\* executed and reported as failed.
Succeeds(q) == q \notin gone /\ UNCHANGED faults
Misreported(q) == q \notin gone /\ faults < FaultBound /\ faults' = faults + 1
Rejected(q) ==
  \/ q \in gone /\ UNCHANGED faults
  \/ q \notin gone /\ faults < FaultBound /\ faults' = faults + 1

AtLeastZero(n) == IF n < 0 THEN 0 ELSE n

\* Mutant: the slot is kept.
KeepSlot == UNCHANGED slots

\* releaseRateLimit: End of the in-memory limiter.
EndSlot == slots' = AtLeastZero(slots - 1)

\* recordUsage and replaceUsage: ReplaceRelayUsage updates every row of the request id.
Inserted(q, status) == [usage EXCEPT ![q] = Append(@, status)]
Replaced(q, status) ==
  IF usage[q] = <<>> THEN Inserted(q, status)
  ELSE [usage EXCEPT ![q] = [i \in DOMAIN @ |-> status]]

\* A row whose error is dropped.
Attempted(q, rows) ==
  \/ q \notin gone /\ usage' = rows
  \/ UNCHANGED usage

\* The session an attempt reserves in: the caller's key, then key:attempt:n.
SessionOf(q) == <<Key[q], req[q].attempt>>

Open(s) == sessions[s].status = "preauthorized"

\* PreConsume answers with the session of the key, or makes one.
Reserved(q) ==
  LET s == SessionOf(q) IN
  IF sessions[s].status = "absent"
  THEN [sessions EXCEPT ![s] = [status |-> "preauthorized", reserved |-> Estimate[q], cost |-> 0]]
  ELSE sessions

\* Mutant: a session that is settled or refunded is settled again.
SettleableAlways(s, cost) == cost <= sessions[s].reserved

\* Mutant: the cost is not compared with the reservation.
OpenOnly(s, cost) == Open(s)

\* SettleBillingSession accepts the cost.
Settleable(s, cost) == Open(s) /\ cost <= sessions[s].reserved

\* RefundBillingSession: a session that is not open stays as it is.
Refunded(s) == IF Open(s) THEN [sessions EXCEPT ![s].status = "refunded"] ELSE sessions

\* The owner of s gives up; nobody else closes an open session.
GiveUp(s) == stranded' = IF Open(s) THEN stranded \cup {s} ELSE stranded

\* Mutant: the token is forgotten when the organization is refunded.
OrganizationOnly(q, again, row) ==
  [req[q] EXCEPT !.pc = "refundOrg", !.slot = FALSE, !.token = FALSE, !.again = again, !.row = row]

\* Refund the reservation, then the token's hold when there is one; then try again
\* or return, and insert an error row, replace the request's rows by one, or
\* leave them alone.
RefundBoth(q, again, row) ==
  [req[q] EXCEPT !.pc = "refundOrg", !.slot = FALSE, !.again = again, !.row = row]

-----------------------------------------------------------------------------
(* Before the provider is called                                            *)

\* The request identity, the model's readiness and the semantic cache come first:
\* a denied request and one the cache answers reserve nothing.
Arrive(q) ==
  /\ At(q, "arrive")
  /\ \/ Go(q, [req[q] EXCEPT !.pc = "select"]) /\ UNCHANGED usage
     \/ Go(q, Returned(q, "failed")) /\ UNCHANGED usage
     \/ Go(q, Returned(q, "cached")) /\ Attempted(q, Inserted(q, "success"))
  /\ UNCHANGED <<gone, slots, sessions, tokenUsed, owed, spent, stranded, adrift, faults>>

\* selectChannelForBilling finds a channel that this request has not tried, or none.
SelectChannel(q) ==
  /\ At(q, "select")
  /\ \/ Go(q, [req[q] EXCEPT !.pc = "begin"]) /\ UNCHANGED usage
     \/ Go(q, Returned(q, "failed")) /\ Attempted(q, Inserted(q, "error"))
  /\ UNCHANGED <<gone, slots, sessions, tokenUsed, owed, spent, stranded, adrift, faults>>

Begin(q) ==
  /\ At(q, "begin")
  /\ IF slots < MaxConcurrent
     THEN /\ slots' = slots + 1
          /\ Go(q, [req[q] EXCEPT !.pc = "allow", !.slot = TRUE])
          /\ UNCHANGED usage
     ELSE Go(q, Returned(q, "failed")) /\ Attempted(q, Inserted(q, "error")) /\ UNCHANGED slots
  /\ UNCHANGED <<gone, sessions, tokenUsed, owed, spent, stranded, adrift, faults>>

\* The limits per minute may refuse what has its slot.
Allow(q) ==
  /\ At(q, "allow")
  /\ \/ Go(q, [req[q] EXCEPT !.pc = "reserve"]) /\ UNCHANGED <<slots, usage>>
     \/ EndSlot /\ Go(q, Returned(q, "failed")) /\ Attempted(q, Inserted(q, "error"))
  /\ UNCHANGED <<gone, sessions, tokenUsed, owed, spent, stranded, adrift, faults>>

\* PreConsume makes or finds the session of the attempt's key.
PreConsume(q) ==
  /\ At(q, "reserve")
  /\ Succeeds(q)
  /\ sessions' = Reserved(q)
  /\ Go(q, [req[q] EXCEPT !.pc = "prebill", !.session = SessionOf(q)])
  /\ UNCHANGED <<gone, slots, tokenUsed, usage, owed, spent, stranded, adrift>>

\* No price, no balance, or an error: the request returns.  When the transaction
\* was committed all the same its session has no owner.
PreConsumeFails(q) ==
  /\ At(q, "reserve")
  /\ \/ UNCHANGED <<sessions, stranded, faults>>
     \/ /\ Misreported(q)
        /\ sessions' = Reserved(q)
        /\ stranded' = IF sessions' # sessions THEN stranded \cup {SessionOf(q)} ELSE stranded
  /\ EndSlot
  /\ Go(q, Returned(q, "failed"))
  /\ Attempted(q, Inserted(q, "error"))
  /\ UNCHANGED <<gone, tokenUsed, owed, spent, adrift>>

PreBill(q) ==
  /\ At(q, "prebill")
  /\ Go(q, [req[q] EXCEPT !.pc = "token"])
  /\ UNCHANGED <<gone, slots, sessions, tokenUsed, usage, owed, spent, stranded, adrift, faults>>

\* The price was removed since the quote: the request returns and keeps its session.
PreBillFails(q) ==
  /\ At(q, "prebill")
  /\ faults < FaultBound /\ faults' = faults + 1
  /\ EndSlot
  /\ GiveUp(req[q].session)
  /\ Go(q, Returned(q, "failed"))
  /\ Attempted(q, Inserted(q, "error"))
  /\ UNCHANGED <<gone, sessions, tokenUsed, owed, spent, adrift>>

\* The UPDATE of the hold finds the token under its limit.
TokenAffords(q) == tokenUsed + Estimate[q] <= TokenLimit

\* PreAuthorizeRelayAPITokenQuota, one UPDATE; a request without a token has no hold.
HoldToken(q) ==
  /\ At(q, "token")
  /\ IF q \in Tokened
     THEN /\ Succeeds(q)
          /\ TokenAffords(q)
          /\ tokenUsed' = tokenUsed + Estimate[q]
          /\ Go(q, [req[q] EXCEPT !.pc = "pending", !.token = TRUE])
     ELSE Go(q, [req[q] EXCEPT !.pc = "pending"]) /\ UNCHANGED <<tokenUsed, faults>>
  /\ UNCHANGED <<gone, slots, sessions, usage, owed, spent, stranded, adrift>>

\* The price was removed, the token is revoked or exhausted, or the UPDATE fails:
\* only the organization is refunded, even when the UPDATE was committed.
HoldTokenFails(q) ==
  /\ At(q, "token")
  /\ \/ UNCHANGED <<tokenUsed, adrift, faults>>
     \/ /\ q \in Tokened
        /\ Misreported(q)
        /\ TokenAffords(q)
        /\ tokenUsed' = tokenUsed + Estimate[q]
        /\ adrift' = adrift + Estimate[q]
  /\ EndSlot
  /\ Go(q, RefundBoth(q, FALSE, "insert"))
  /\ UNCHANGED <<gone, sessions, usage, owed, spent, stranded>>

\* A stream has a pending row before the provider is called.
RecordPending(q) ==
  /\ At(q, "pending")
  /\ IF q \in Streaming
     THEN Succeeds(q) /\ usage' = Inserted(q, "pending")
     ELSE UNCHANGED <<usage, faults>>
  /\ Go(q, [req[q] EXCEPT !.pc = "dispatch"])
  /\ UNCHANGED <<gone, slots, sessions, tokenUsed, owed, spent, stranded, adrift>>

RecordPendingFails(q) ==
  /\ At(q, "pending") /\ q \in Streaming
  /\ \/ Rejected(q) /\ UNCHANGED usage
     \/ Misreported(q) /\ usage' = Inserted(q, "pending")
  /\ EndSlot
  /\ Go(q, RefundBoth(q, FALSE, "none"))
  /\ UNCHANGED <<gone, sessions, tokenUsed, owed, spent, stranded, adrift>>

\* Readiness is checked once more; a denial now is handed to compensation.
Dispatch(q) ==
  /\ At(q, "dispatch")
  /\ Go(q, [req[q] EXCEPT !.pc = "call"])
  /\ UNCHANGED <<gone, slots, sessions, tokenUsed, usage, owed, spent, stranded, adrift, faults>>

LateDenial(q) ==
  LET tasks == {<<q, "organization">>} \cup IF req[q].token THEN {<<q, "api_token">>} ELSE {} IN
  /\ At(q, "dispatch")
  /\ \/ /\ Succeeds(q)
        /\ owed' = owed \cup tasks
        /\ UNCHANGED <<stranded, adrift>>
     \/ /\ Rejected(q)
        /\ GiveUp(req[q].session)
        /\ adrift' = IF req[q].token THEN adrift + Estimate[q] ELSE adrift
        /\ UNCHANGED owed
  /\ EndSlot
  /\ Go(q, Returned(q, "failed"))
  /\ UNCHANGED <<gone, sessions, tokenUsed, usage, spent>>

-----------------------------------------------------------------------------
(* The provider and what follows                                            *)

\* The provider answers and the answer is worth cost, a refusal not worth another
\* attempt too; the slot is free again.
ProviderAnswers(q, cost, status) ==
  /\ At(q, "call")
  /\ EndSlot
  /\ Go(q, [req[q] EXCEPT !.pc = "record", !.slot = FALSE, !.cost = cost, !.status = status])
  /\ UNCHANGED <<gone, sessions, tokenUsed, usage, owed, spent, stranded, adrift, faults>>

\* The callback returns an error: a stream is over, any other request tries again.
ProviderErrors(q) ==
  /\ At(q, "call")
  /\ EndSlot
  /\ Go(q, IF q \in Streaming THEN RefundBoth(q, FALSE, "replace") ELSE RefundBoth(q, TRUE, "insert"))
  /\ UNCHANGED <<gone, sessions, tokenUsed, usage, owed, spent, stranded, adrift, faults>>

\* The provider answers with a status worth another attempt, streams included.
ProviderRefuses(q) ==
  /\ At(q, "call")
  /\ EndSlot
  /\ Go(q, RefundBoth(q, TRUE, "none"))
  /\ UNCHANGED <<gone, sessions, tokenUsed, usage, owed, spent, stranded, adrift, faults>>

\* The price was removed while the provider worked.
QuoteFails(q) ==
  /\ At(q, "record")
  /\ Go(q, RefundBoth(q, FALSE, "replace"))
  /\ UNCHANGED <<gone, slots, sessions, tokenUsed, usage, owed, spent, stranded, adrift, faults>>

AnswerRow(q) ==
  IF q \in Streaming THEN Replaced(q, req[q].status) ELSE Inserted(q, req[q].status)

RecordUsage(q) ==
  /\ At(q, "record")
  /\ Succeeds(q)
  /\ usage' = AnswerRow(q)
  /\ Go(q, [req[q] EXCEPT !.pc = "settleOrg"])
  /\ UNCHANGED <<gone, slots, sessions, tokenUsed, owed, spent, stranded, adrift>>

\* Mutant: the answer goes out unrecorded.
SettleAnyway(q) == [req[q] EXCEPT !.pc = "settleOrg"]

\* Mutant: an answer that is withheld is not refunded.
WithheldOnly(q) == Returned(q, "failed")

\* Part of a stream may have been sent: it is settled whether it is recorded or
\* not.  Any other answer is withheld.
Unrecorded(q) ==
  IF q \in Streaming THEN [req[q] EXCEPT !.pc = "settleOrg"] ELSE RefundBoth(q, FALSE, "none")

RecordUsageFails(q) ==
  /\ At(q, "record")
  /\ \/ Rejected(q) /\ UNCHANGED usage
     \/ Misreported(q) /\ usage' = AnswerRow(q)
  /\ Go(q, Unrecorded(q))
  /\ UNCHANGED <<gone, slots, sessions, tokenUsed, owed, spent, stranded, adrift>>

Settled(q) ==
  [sessions EXCEPT ![req[q].session] = [@ EXCEPT !.status = "settled", !.cost = req[q].cost]]

SettleOrganization(q) ==
  /\ At(q, "settleOrg")
  /\ Succeeds(q)
  /\ Settleable(req[q].session, req[q].cost)
  /\ sessions' = Settled(q)
  /\ Go(q, [req[q] EXCEPT !.pc = "settleToken"])
  /\ UNCHANGED <<gone, slots, tokenUsed, usage, owed, spent, stranded, adrift>>

\* The answer costs more than was reserved, another request closed the session, or
\* the statement fails: the token is refunded and the reservation is not.
SettleOrganizationFails(q) ==
  LET s == req[q].session IN
  /\ At(q, "settleOrg")
  /\ \/ /\ ~Settleable(s, req[q].cost) \/ q \in gone
        /\ GiveUp(s)
        /\ UNCHANGED <<sessions, faults>>
     \/ /\ q \notin gone /\ Rejected(q)
        /\ GiveUp(s)
        /\ UNCHANGED sessions
     \/ /\ Misreported(q) /\ Settleable(s, req[q].cost)
        /\ sessions' = Settled(q)
        /\ UNCHANGED stranded
  /\ Go(q, [req[q] EXCEPT !.pc = "refundToken", !.again = FALSE, !.row = "replace"])
  /\ UNCHANGED <<gone, slots, tokenUsed, usage, owed, spent, adrift>>

\* SettleRelayAPITokenQuota: the hold becomes the cost.
Charged(q) == AtLeastZero(tokenUsed + req[q].cost - Estimate[q])

\* No statement is sent when the cost is the estimate.
Exact(q) == req[q].cost = Estimate[q]

SettleToken(q) ==
  /\ At(q, "settleToken")
  /\ IF req[q].token
     THEN /\ IF Exact(q) THEN UNCHANGED faults ELSE Succeeds(q)
          /\ tokenUsed' = Charged(q)
          /\ spent' = [spent EXCEPT ![q] = req[q].cost]
     ELSE UNCHANGED <<tokenUsed, spent, faults>>
  /\ Go(q, Returned(q, "answered"))
  /\ UNCHANGED <<gone, slots, sessions, usage, owed, stranded, adrift>>

\* The statement fails: the organization's session, settled a moment ago, is
\* refunded (which it refuses); the token's hold stays.
SettleTokenFails(q) ==
  /\ At(q, "settleToken") /\ req[q].token /\ ~Exact(q)
  /\ \/ /\ Rejected(q)
        /\ adrift' = adrift + Estimate[q]
        /\ UNCHANGED <<tokenUsed, spent>>
     \/ /\ Misreported(q)
        /\ tokenUsed' = Charged(q)
        /\ spent' = [spent EXCEPT ![q] = req[q].cost]
        /\ UNCHANGED adrift
  /\ Go(q, [req[q] EXCEPT !.pc = "refundOrg", !.token = FALSE, !.again = FALSE, !.row = "replace"])
  /\ UNCHANGED <<gone, slots, sessions, usage, owed, stranded>>

-----------------------------------------------------------------------------
(* Refunds; their errors are dropped                                        *)

ErrorRow(q) ==
  CASE req[q].row = "insert" -> Attempted(q, Inserted(q, "error"))
    [] req[q].row = "replace" -> Attempted(q, Replaced(q, "error"))
    [] OTHER -> UNCHANGED usage

MayRetry(q) == req[q].again /\ req[q].attempt < MaxAttempts

\* The error row, and the next attempt or the end of the request.
Continue(q) ==
  /\ ErrorRow(q)
  /\ IF MayRetry(q)
     THEN Go(q, [req[q] EXCEPT !.pc = "select", !.attempt = @ + 1, !.session = NoSession, !.token = FALSE])
     ELSE Go(q, Returned(q, "failed"))

AfterOrganization(q) ==
  IF req[q].token THEN Go(q, [req[q] EXCEPT !.pc = "refundToken"]) /\ UNCHANGED usage
  ELSE Continue(q)

RefundOrganization(q) ==
  LET s == req[q].session IN
  /\ At(q, "refundOrg")
  /\ \/ (Succeeds(q) \/ Misreported(q)) /\ sessions' = Refunded(s) /\ UNCHANGED stranded
     \/ Rejected(q) /\ GiveUp(s) /\ UNCHANGED sessions
  /\ AfterOrganization(q)
  /\ UNCHANGED <<gone, slots, tokenUsed, owed, spent, adrift>>

RefundToken(q) ==
  /\ At(q, "refundToken")
  /\ IF ~req[q].token THEN UNCHANGED <<tokenUsed, adrift, faults>>
     ELSE \/ /\ Succeeds(q) \/ Misreported(q)
             /\ tokenUsed' = AtLeastZero(tokenUsed - Estimate[q])
             /\ UNCHANGED adrift
          \/ /\ Rejected(q)
             /\ adrift' = adrift + Estimate[q]
             /\ UNCHANGED tokenUsed
  /\ Continue(q)
  /\ UNCHANGED <<gone, slots, sessions, owed, spent, stranded>>

-----------------------------------------------------------------------------
(* The client, the process and compensation                                 *)

\* The client disconnects: net/http cancels the context of the request.
Disconnect(q) ==
  /\ Running(q) /\ q \notin gone
  /\ gone' = gone \cup {q}
  /\ UNCHANGED <<req, slots, sessions, tokenUsed, usage, owed, spent, stranded, adrift, faults>>

\* The process dies; nothing gives back what its requests held.
Crash ==
  LET running == {q \in Requests : Running(q)} IN
  /\ faults < FaultBound /\ faults' = faults + 1
  /\ running # {}
  /\ req' = [q \in Requests |->
       IF Running(q) THEN [req[q] EXCEPT !.pc = "dead", !.slot = FALSE, !.token = FALSE] ELSE req[q]]
  /\ slots' = 0
  /\ stranded' = stranded \cup {s \in SessionIds : Open(s) /\ \E q \in running : req[q].session = s}
  /\ adrift' = adrift + SumOf([q \in Requests |-> IF q \in running /\ req[q].token THEN Estimate[q] ELSE 0],
                             Requests)
  /\ UNCHANGED <<gone, sessions, tokenUsed, usage, owed, spent>>

\* What QuotaCompensation promises: each scope is given back once (a session that
\* another request settled has nothing to give back).
Compensate(q, scope) ==
  /\ <<q, scope>> \in owed
  /\ owed' = owed \ {<<q, scope>>}
  /\ IF scope = "organization"
     THEN sessions' = Refunded(req[q].session) /\ UNCHANGED tokenUsed
     ELSE tokenUsed' = AtLeastZero(tokenUsed - Estimate[q]) /\ UNCHANGED sessions
  /\ UNCHANGED <<req, gone, slots, usage, spent, stranded, adrift, faults>>

-----------------------------------------------------------------------------
Next ==
  \/ \E q \in Requests :
       \/ Arrive(q) \/ SelectChannel(q) \/ Begin(q) \/ Allow(q)
       \/ PreConsume(q) \/ PreConsumeFails(q) \/ PreBill(q) \/ PreBillFails(q)
       \/ HoldToken(q) \/ HoldTokenFails(q) \/ RecordPending(q) \/ RecordPendingFails(q)
       \/ Dispatch(q) \/ LateDenial(q)
       \/ \E cost \in Costs, status \in {"success", "error"} : ProviderAnswers(q, cost, status)
       \/ ProviderErrors(q) \/ ProviderRefuses(q) \/ QuoteFails(q) \/ RecordUsage(q) \/ RecordUsageFails(q)
       \/ SettleOrganization(q) \/ SettleOrganizationFails(q)
       \/ SettleToken(q) \/ SettleTokenFails(q)
       \/ RefundOrganization(q) \/ RefundToken(q)
       \/ Disconnect(q)
       \/ \E scope \in {"organization", "api_token"} : Compensate(q, scope)
  \/ Crash

Spec == Init /\ [][Next]_vars

-----------------------------------------------------------------------------
(* Properties                                                               *)

Stages ==
  {"arrive", "select", "begin", "allow", "reserve", "prebill", "token", "pending", "dispatch",
   "call", "record", "settleOrg", "settleToken", "refundOrg", "refundToken", "done", "dead"}

RequestType ==
  [pc : Stages, attempt : 1 .. MaxAttempts, slot : BOOLEAN, session : SessionIds \cup {NoSession},
   token : BOOLEAN, cost : Costs \cup {0}, status : {"none", "success", "error"},
   again : BOOLEAN, row : {"none", "insert", "replace"},
   result : {"none", "answered", "cached", "failed"}]

SessionType ==
  [status : {"absent", "preauthorized", "settled", "refunded"}, reserved : Nat, cost : Nat]

StateType ==
  /\ req \in [Requests -> RequestType]
  /\ gone \subseteq Requests
  /\ slots \in Nat
  /\ sessions \in [SessionIds -> SessionType]
  /\ tokenUsed \in Nat
  /\ usage \in [Requests -> Seq({"pending", "success", "error"})]
  /\ owed \subseteq Requests \X {"organization", "api_token"}
  /\ spent \in [Requests -> Nat]
  /\ stranded \subseteq SessionIds
  /\ faults \in 0 .. FaultBound

\* Every variable has its type.
TypeOK == StateType /\ adrift \in Nat

\* Every path out of an attempt frees its slot once: the limiter's count is the
\* number of attempts that hold one, so no request is refused for a slot that
\* leaked and no more than MaxConcurrent call the provider.
SlotsAreHeld ==
  /\ slots = Cardinality({q \in Requests : req[q].slot})
  /\ slots <= MaxConcurrent
  /\ \A q \in Requests : At(q, "call") => req[q].slot

\* What of the token's used quota is q's: what it holds, what its answer cost and
\* what compensation owes for it.
Share(q) ==
  (IF req[q].token THEN Estimate[q] ELSE 0) + spent[q]
  + (IF <<q, "api_token">> \in owed THEN Estimate[q] ELSE 0)

\* On every path, retries and errors included, the token's used quota is what
\* running requests hold, what answers cost, what compensation owes and what a
\* failed statement or a crash left behind; refunds never clamp at zero.
TokenBalance == tokenUsed = SumOf([q \in Requests |-> Share(q)], Requests) + adrift

\* What the answer of q cost the token beyond the hold.
Excess(q) == AtLeastZero(spent[q] - Estimate[q])

\* The token goes over its limit only by what answers cost beyond their holds, and
\* that only under a key another request reserved as much for: the settlement of
\* the token checks nothing, only that of the organization, which comes first,
\* bounds the cost, and its reservation may be one another request made.
WithinLimit ==
  /\ tokenUsed <= TokenLimit + SumOf([q \in Requests |-> Excess(q)], Requests)
  /\ \A q \in Requests : Excess(q) > 0 =>
       \E r \in Requests \ {q} : Key[r] = Key[q] /\ spent[q] <= Estimate[r]

Holds(q, s) == Running(q) /\ req[q].session = s

\* An open reservation belongs to a running request or to compensation, unless a
\* step that could not close it gave it up.
ReservationsHaveOwners ==
  \A s \in SessionIds :
    Open(s) => \/ s \in stranded
               \/ \E q \in Requests : Holds(q, s)
               \/ \E t \in owed : t[2] = "organization" /\ req[t[1]].session = s

\* A session pays for one answer: of two requests with one key, at most one of the
\* two answers that the provider gave under it goes out.
OneAnswerPerSession ==
  \A q, r \in Requests :
    /\ req[q].result = "answered" /\ req[r].result = "answered"
    /\ req[q].session = req[r].session
    => q = r

\* An answer that goes out is charged at its cost to the organization and to the
\* token, whatever the other requests of its key do before and after.
AnswersAreCharged ==
  \A q \in Requests :
    req[q].result = "answered" =>
      /\ req[q].session \in SessionIds
      /\ sessions[req[q].session].status = "settled"
      /\ sessions[req[q].session].cost = req[q].cost
      /\ q \in Tokened => spent[q] = req[q].cost

RowsOf(q, status) == {i \in DOMAIN usage[q] : usage[q][i] = status}

\* No answer goes out unrecorded: it has its row, or, when the row of a stream could
\* not be finished, its pending row.
AnswersAreRecorded ==
  \A q \in Requests :
    req[q].result = "answered" =>
      \/ RowsOf(q, req[q].status) # {}
      \/ q \in Streaming /\ RowsOf(q, "pending") # {}

\* Disconnecting settles or refunds: the code breaks this because the refund is
\* sent under the cancelled context of the client.
DisconnectsAreClosed ==
  \A q \in gone : At(q, "done") => req[q].session \notin stranded

Finished(s) == sessions[s].status \in {"settled", "refunded"}

\* What a stage says of what the request holds.
RequestInv(q) ==
  /\ req[q].slot <=> req[q].pc \in
       {"allow", "reserve", "prebill", "token", "pending", "dispatch", "call"}
  /\ req[q].pc \in {"arrive", "select", "begin", "allow", "reserve"} => req[q].session = NoSession
  /\ req[q].pc \in {"prebill", "token", "pending", "dispatch", "call", "record", "settleOrg",
                    "settleToken", "refundOrg", "refundToken"} => req[q].session \in SessionIds
  /\ req[q].session \in SessionIds => sessions[req[q].session].status # "absent"
  /\ req[q].pc \in {"arrive", "select", "begin", "allow", "reserve", "prebill", "token"} =>
       ~req[q].token
  /\ req[q].pc \in {"pending", "dispatch", "call", "record", "settleOrg", "settleToken"} =>
       (req[q].token <=> q \in Tokened)
  /\ req[q].pc = "record" => req[q].status # "none"
  /\ req[q].pc = "refundToken" => Finished(req[q].session) \/ req[q].session \in stranded
  /\ req[q].result = "answered" => req[q].pc = "done"
  /\ \A t \in owed : t[1] = q => req[q].pc = "done" /\ req[q].session \in SessionIds

StageInv == \A q \in Requests : RequestInv(q)

\* The organization has been charged for q's answer.
Paid(q) == At(q, "settleToken") \/ req[q].result = "answered"

\* A session is settled by one request, at the cost of its answer, and stays so.
PaidInv ==
  \A q \in Requests : Paid(q) =>
    /\ req[q].session \in SessionIds
    /\ sessions[req[q].session].status = "settled"
    /\ sessions[req[q].session].cost = req[q].cost
    /\ \A r \in Requests : Paid(r) /\ req[r].session = req[q].session => r = q
    /\ req[q].result = "answered" /\ q \in Tokened => spent[q] = req[q].cost

\* The inductive invariant behind the theorems of RelayRouter_proofs.
RouterInv == StageInv /\ PaidInv /\ ReservationsHaveOwners

\* A session holds what some request of its key expected to cost, and is never
\* settled at more; requests use sessions of their own key.
ReservedInv ==
  /\ \A s \in SessionIds : sessions[s].status # "absent" =>
       /\ sessions[s].cost <= sessions[s].reserved
       /\ \E r \in Requests : Key[r] = s[1] /\ sessions[s].reserved = Estimate[r]
  /\ \A q \in Requests : req[q].session \in SessionIds => req[q].session[1] = Key[q]

\* What was charged on the token is charged for good: its request is over, or about
\* to be.
ChargedInv ==
  \A q \in Requests : spent[q] # 0 =>
    /\ ~req[q].token
    /\ req[q].pc \in {"refundOrg", "done", "dead"}
    /\ req[q].pc = "refundOrg" => ~req[q].again

\* With RouterInv, what makes the last two invariants inductive.
TokenInv == ReservedInv /\ ChargedInv /\ TokenBalance /\ WithinLimit
=============================================================================
