-------------------------- MODULE PaymentLifecycle --------------------------
(***************************************************************************)
(* Top-ups paid through Stripe or a domestic provider: the checkout        *)
(* request (http/billing_handler.go), the webhooks (stripe/webhook.go and  *)
(* http/domestic_payment_webhook_handler.go), what an event does to the    *)
(* payment intent, the top-up order and the organization's balance         *)
(* (stripe/lifecycle.go), and the refunds administrators record            *)
(* (admin/billing_store.go).                                               *)
(*                                                                         *)
(* A delivery of a webhook has two steps, the row of the event and its     *)
(* application; deliveries of one event or of several overlap, in any      *)
(* order, and each may fail, die or be repeated.  The application is one   *)
(* transaction that locks the rows it changes and starts by inserting its  *)
(* transition key, so it is one action; two transactions that lock in      *)
(* opposite orders cost one of them, which is Drop.  The providers are     *)
(* external: they announce what happened, at least once.                   *)
(*                                                                         *)
(* Of the audit table billing_lifecycle_events, applied holds the keys of  *)
(* events and entered those of administrators, whose keys name the refund. *)
(* credits and vain are history.                                           *)
(*                                                                         *)
(* The formulas of the specification carry the module's name: the proofs   *)
(* about it and about QuotaLedger share a module.                          *)
(***************************************************************************)
EXTENDS Integers, FiniteSets, FiniteSetsExt, Sums

CONSTANTS
  Intents,      \* payment intents of kind topup, each with one order
  Domestic,     \* those whose provider is not Stripe
  Amount,       \* what an intent pays
  Refunds,      \* refunds the providers may make
  Returns,      \* the intent a refund is for and its amount
  Events,       \* ids of webhook events
  Announces,    \* the paid intent or the refund an event announces
  MaxDeliveries \* bound: deliveries in work at once

ASSUME IntentsAssumption ==
  IsFiniteSet(Intents) /\ Domestic \subseteq Intents /\ Amount \in [Intents -> Nat \ {0}]
ASSUME RefundsAssumption ==
  IsFiniteSet(Refunds) /\ Returns \in [Refunds -> [intent : Intents, amount : Nat \ {0}]]
ASSUME EventsAssumption ==
  /\ Intents \cap Refunds = {} /\ Events \cap Refunds = {}
  /\ Announces \in [Events -> Intents \cup Refunds]

VARIABLES
  request,      \* how far the checkout request of an intent came
  intent,       \* payment_intents
  order,        \* topup_orders
  quota,        \* the organization's row of quotas, if it exists
  happened,     \* payments and refunds the providers made
  recorded,     \* stripe_webhook_events
  deliveries,   \* deliveries between the two steps
  acked,        \* events answered with 200
  applied, entered, refundRows,
  credits,      \* history: times an intent was credited
  vain          \* history: amount of reversals that found no row of quotas

provider == <<happened, acked>>
money == <<intent, order, quota, applied, entered, refundRows, credits, vain>>
paymentVars == <<request, provider, recorded, deliveries, money>>

NoRow == [status |-> "none", refunded |-> 0]

PaymentInit ==
  /\ request = [i \in Intents |-> "none"]
  /\ intent = [i \in Intents |-> NoRow]
  /\ order = [i \in Intents |-> NoRow]
  /\ quota \in [exists : BOOLEAN, balance : {0}]
  /\ happened = {} /\ acked = {}
  /\ recorded = {} /\ deliveries = {}
  /\ applied = {} /\ entered = {} /\ refundRows = {}
  /\ credits = [i \in Intents |-> 0]
  /\ vain = 0

\* The intent an event is about.
IntentOf(e) == IF Announces[e] \in Refunds THEN Returns[Announces[e]].intent ELSE Announces[e]

-----------------------------------------------------------------------------
(* The checkout request: each step may be the last.                         *)

Ask(i, from, to) ==
  /\ request[i] = from
  /\ request' = [request EXCEPT ![i] = to]
  /\ UNCHANGED <<provider, recorded, deliveries, quota, applied, entered, refundRows, credits, vain>>

CreatePaymentIntent(i) ==
  /\ Ask(i, "none", "intent")
  /\ intent' = [intent EXCEPT ![i].status = "pending"]
  /\ UNCHANGED order

CreatePendingTopup(i) ==
  /\ Ask(i, "intent", "order")
  /\ order' = [order EXCEPT ![i].status = "pending"]
  /\ UNCHANGED intent

\* The provider opens a session; the statements that note its id change nothing here.
CreateCheckoutSession(i) ==
  /\ Ask(i, "order", "open")
  /\ UNCHANGED <<intent, order>>

MarkPaymentIntentFailed(i) ==
  /\ Ask(i, "order", "failed")
  /\ intent[i].status = "pending"
  /\ intent' = [intent EXCEPT ![i].status = "failed"]
  /\ UNCHANGED order

MarkTopupOrderFailed(i) ==
  /\ Ask(i, "failed", "closed")
  /\ order[i].status = "pending"
  /\ order' = [order EXCEPT ![i].status = "failed"]
  /\ UNCHANGED intent

-----------------------------------------------------------------------------
(* The provider                                                             *)

Pay(i) ==
  /\ request[i] = "open"
  /\ happened' = happened \cup {i}
  /\ UNCHANGED <<request, acked, recorded, deliveries, money>>

RefundedBy(fs, i) ==
  SumOf([f \in fs |-> IF Returns[f].intent = i THEN Returns[f].amount ELSE 0], fs)

\* A provider gives back no more than was paid.
MakeRefund(f) ==
  LET i == Returns[f].intent IN
  /\ i \in happened /\ f \notin happened
  /\ RefundedBy((happened \cap Refunds) \cup {f}, i) <= Amount[i]
  /\ happened' = happened \cup {f}
  /\ UNCHANGED <<request, acked, recorded, deliveries, money>>

-----------------------------------------------------------------------------
(* Webhooks                                                                 *)

\* Mutant: an event whose row is there already is not applied.
AppliesNew(e) == e \notin recorded

\* Stripe's events are applied whether or not their row is new, those of the
\* domestic providers only when it is.
Applies(e) == IntentOf(e) \notin Domestic \/ e \notin recorded

RecordWebhookEvent(e) ==
  /\ Announces[e] \in happened
  /\ Cardinality(deliveries) < MaxDeliveries
  /\ recorded' = recorded \cup {e}
  /\ deliveries' = deliveries \cup {[event |-> e, apply |-> Applies(e)]}
  /\ UNCHANGED <<request, provider, money>>

\* The delivery ends; its answer may be lost, or an error although all committed.
AnswerDelivery(d) ==
  /\ d \in deliveries
  /\ deliveries' = deliveries \ {d}
  /\ acked' \in {acked, acked \cup {d.event}}
  /\ UNCHANGED <<request, happened, recorded>>

\* Mutant: the transition's key is not unique.
NewAlways(e) == e \in Events

\* The insert of the transition's key finds no row.
New(e) == e \notin applied

\* Not the first delivery of a domestic event, or a transition that is there already.
Skip(d) ==
  /\ ~d.apply \/ ~New(d.event)
  /\ AnswerDelivery(d)
  /\ UNCHANGED money

Begin(d) ==
  /\ d.apply /\ New(d.event)
  /\ AnswerDelivery(d)
  /\ applied' = applied \cup {d.event}
  /\ UNCHANGED entered

\* Mutant: the order's status is not asked.
ToCreditAlways(i) == order[i].status # "none"

ToCredit(i) == order[i].status # "paid"

\* ApplyCheckoutCompleted: the order is credited unless it is paid.  The balance
\* grows by the order's amount, in a row that is made when there is none.
ApplyCheckout(d) ==
  LET i == Announces[d.event] IN
  /\ Begin(d)
  /\ i \in Intents
  /\ intent[i].status # "none" /\ order[i].status # "none"
  /\ intent' = [intent EXCEPT ![i].status = "completed"]
  /\ order' = [order EXCEPT ![i].status = "paid"]
  /\ quota' = IF ToCredit(i) THEN [exists |-> TRUE, balance |-> quota.balance + Amount[i]] ELSE quota
  /\ credits' = [credits EXCEPT ![i] = IF ToCredit(i) THEN @ + 1 ELSE @]
  /\ UNCHANGED <<refundRows, vain>>

\* Mutant: the total is not capped.
AfterAnyRefund(i, refunded) ==
  [status |-> IF refunded >= Amount[i] THEN "refunded" ELSE "partially_refunded", refunded |-> refunded]

\* What a refund does to a row: the total is capped, the status follows it.
AfterRefund(i, refunded) ==
  LET total == IF refunded > Amount[i] THEN Amount[i] ELSE refunded IN
  [status |-> IF total >= Amount[i] THEN "refunded" ELSE "partially_refunded", refunded |-> total]

\* A row of quotas that does not exist is not made.
Reverse(amount) ==
  IF quota.exists
    THEN quota' = [quota EXCEPT !.balance = @ - amount] /\ UNCHANGED vain
    ELSE vain' = vain + amount /\ UNCHANGED quota

\* ApplyRefund: neither the status of the intent nor that of the order is asked.
ApplyRefund(d) ==
  LET f == Announces[d.event]
      i == Returns[f].intent IN
  /\ Begin(d)
  /\ f \in Refunds
  /\ intent[i].status # "none" /\ order[i].status # "none"
  /\ refundRows' = refundRows \cup {f}
  /\ intent' = [intent EXCEPT ![i] = AfterRefund(i, @.refunded + Returns[f].amount)]
  /\ order' = [order EXCEPT ![i] =
       [status |-> intent'[i].status, refunded |-> AfterRefund(i, @.refunded + Returns[f].amount).refunded]]
  /\ Reverse(Returns[f].amount)
  /\ UNCHANGED credits

\* A statement fails and the transaction is rolled back, or the process dies.
Drop(d) ==
  /\ d \in deliveries
  /\ deliveries' = deliveries \ {d}
  /\ UNCHANGED <<request, provider, recorded, money>>

-----------------------------------------------------------------------------
(* Administrators and the rest of the server                                *)

\* RecordTopupRefund: an administrator enters a refund the provider made.  A
\* repeated entry returns the row that is there; the row of an event is a conflict.
RecordTopupRefund(f) ==
  LET i == Returns[f].intent IN
  /\ f \in happened
  /\ order[i].status \in {"paid", "partially_refunded"}
  /\ Returns[f].amount <= Amount[i] - intent[i].refunded
  /\ f \notin entered /\ f \notin refundRows
  /\ entered' = entered \cup {f}
  /\ refundRows' = refundRows \cup {f}
  /\ intent' = [intent EXCEPT ![i] = AfterRefund(i, @.refunded + Returns[f].amount)]
  /\ order' = [order EXCEPT ![i] =
       [status |-> intent'[i].status, refunded |-> @.refunded + Returns[f].amount]]
  /\ Reverse(Returns[f].amount)
  /\ UNCHANGED <<request, provider, recorded, deliveries, applied, credits>>

\* Any other use of the ledger makes the row (module QuotaLedger).
GetOrCreateQuotaRow ==
  /\ ~quota.exists
  /\ quota' = [quota EXCEPT !.exists = TRUE]
  /\ UNCHANGED <<request, provider, recorded, deliveries, intent, order, applied, entered,
                 refundRows, credits, vain>>

-----------------------------------------------------------------------------
Checkout(i) ==
  \/ CreatePaymentIntent(i) \/ CreatePendingTopup(i) \/ CreateCheckoutSession(i)
  \/ MarkPaymentIntentFailed(i) \/ MarkTopupOrderFailed(i)

Handle(d) == Skip(d) \/ ApplyCheckout(d) \/ ApplyRefund(d)

PaymentNext ==
  \/ \E i \in Intents : Checkout(i) \/ Pay(i)
  \/ \E f \in Refunds : MakeRefund(f) \/ RecordTopupRefund(f)
  \/ \E e \in Events : RecordWebhookEvent(e)
  \/ \E d \in deliveries : Handle(d) \/ Drop(d)
  \/ GetOrCreateQuotaRow

PaymentSpec == PaymentInit /\ [][PaymentNext]_paymentVars

\* A delivery ends, if only by a lost connection; a provider repeats the events of
\* a payment until they are answered, and neither the statements nor the answers of
\* their deliveries fail for ever.
Ends(e, apply) == LET d == [event |-> e, apply |-> apply] IN Handle(d) \/ Drop(d)
Redelivered(e) == e \notin acked /\ RecordWebhookEvent(e)
Answered(e) == Handle([event |-> e, apply |-> TRUE]) /\ acked' = acked \cup {e}

PaymentFairSpec ==
  /\ PaymentSpec
  /\ \A e \in Events, apply \in BOOLEAN : WF_paymentVars(Ends(e, apply))
  /\ \A e \in {ev \in Events : Announces[ev] \in Intents} :
       SF_paymentVars(Redelivered(e)) /\ SF_paymentVars(Answered(e))

-----------------------------------------------------------------------------
(* Properties                                                               *)

RowStatuses == {"none", "pending", "completed", "paid", "failed", "refunded", "partially_refunded"}
Rows == [Intents -> [status : RowStatuses, refunded : Nat]]

PaymentTypeOK ==
  /\ request \in [Intents -> {"none", "intent", "order", "open", "failed", "closed"}]
  /\ intent \in Rows /\ order \in Rows
  /\ quota \in [exists : BOOLEAN, balance : Int]
  /\ happened \subseteq Intents \cup Refunds
  /\ deliveries \subseteq [event : Events, apply : BOOLEAN]
  /\ recorded \subseteq Events /\ acked \subseteq recorded /\ applied \subseteq recorded
  /\ entered \subseteq Refunds /\ refundRows \subseteq Refunds
  /\ credits \in [Intents -> Nat]
  /\ vain \in Nat

\* The transitions that took a refund back.
Reversals(f) == {e \in applied : Announces[e] = f} \cup (entered \cap {f})

Reversed(i) == \E f \in Refunds : Returns[f].intent = i /\ Reversals(f) # {}
CheckedOut(i) == \E e \in applied : Announces[e] = i

\* However many events announce a payment, in whatever order and however often
\* they are delivered, its order is credited once, unless a refund came in
\* between: applyTopupCheckout asks the status, and a refund has overwritten it.
CreditedOnce == \A i \in Intents : credits[i] > 1 => Reversed(i)

ReversedAmount(i) ==
  SumOf([f \in Refunds |-> IF Returns[f].intent = i
                          THEN Returns[f].amount * Cardinality(Reversals(f)) ELSE 0], Refunds)

\* Intent and order, written by webhooks and administrators who check different
\* rows and cap differently, agree on what was refunded: what the audited
\* transitions say, and never more than was paid.
RefundsAgree ==
  \A i \in Intents :
    /\ order[i].refunded = intent[i].refunded
    /\ intent[i].refunded = Min({Amount[i], ReversedAmount(i)})

\* An auditor who adds up the transitions finds the balance: each credit and each
\* reversal happened with its transition, but for reversals that came before the
\* row of quotas existed, and where an order was credited again after a refund.
BalanceIsAudited ==
  (\A i \in Intents : credits[i] <= 1) =>
    quota.balance = SumOf([i \in Intents |-> IF CheckedOut(i) THEN Amount[i] ELSE 0], Intents)
                    - SumOf([i \in Intents |-> ReversedAmount(i)], Intents) + vain

\* A first delivery that did not get to apply a domestic event is the last that tries.
Lost(e) ==
  /\ IntentOf(e) \in Domestic
  /\ e \in recorded \ applied
  /\ [event |-> e, apply |-> TRUE] \notin deliveries

\* What was paid is credited in the end, through failures, deaths and lost
\* answers; a domestic payment unless the first delivery of each of its events failed.
PaidIsCredited ==
  \A i \in Intents :
    i \in happened ~> CheckedOut(i) \/ \A e \in Events : Announces[e] = i => Lost(e)

\* 18-01-SUMMARY.md:33 of the planning documents: a refund "reverses paid top-up
\* quota once".
ReversedOnce == \A f \in Refunds : Cardinality(Reversals(f)) <= 1

-----------------------------------------------------------------------------
(* What makes them inductive                                                *)

\* What is in work was recorded; an order that was not asked for is not there.
ProgressInv ==
  /\ \A d \in deliveries : d.event \in recorded
  /\ \A i \in Intents : request[i] \in {"none", "intent"} => order[i].status = "none"

\* Intent and order agree on what was refunded, and never more than was paid.
RowsInv ==
  \A i \in Intents : order[i].refunded = intent[i].refunded /\ intent[i].refunded <= Amount[i]

\* An order credited and not refunded is paid.
CreditInv ==
  \A i \in Intents :
    ~Reversed(i) => \/ credits[i] = 0
                    \/ credits[i] = 1 /\ order[i].status = "paid"

PaymentInv == PaymentTypeOK /\ ProgressInv /\ RowsInv /\ CreditInv

\* An intent was credited exactly if a transition says so, a paid order among them;
\* only so many transitions were entered as can be counted.
CheckoutsInv ==
  /\ IsFiniteSet(applied)
  /\ \A i \in Intents :
       /\ CheckedOut(i) <=> credits[i] # 0
       /\ order[i].status = "paid" => credits[i] # 0

AuditInv == CheckoutsInv /\ RefundsAgree /\ BalanceIsAudited
=============================================================================
