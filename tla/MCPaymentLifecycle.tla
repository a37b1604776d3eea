------------------------ MODULE MCPaymentLifecycle ------------------------
(***************************************************************************)
(* Instances of PaymentLifecycle for TLC: a top-up through Stripe that is  *)
(* refunded in two parts, the first announced twice, and one through a     *)
(* domestic provider that announces its payment twice.                     *)
(***************************************************************************)
EXTENDS PaymentLifecycle

CONSTANTS stripe, domestic, f1, f2, f3, paid1, made1, charged1, made2, paid2, again2, made3

Amounts == [i \in Intents |-> IF i = stripe THEN 3 ELSE 2]
ReturnsOf ==
  [f \in Refunds |-> CASE f = f1 -> [intent |-> stripe, amount |-> 2]
                       [] f = f2 -> [intent |-> stripe, amount |-> 1]
                       [] OTHER -> [intent |-> domestic, amount |-> 2]]
Announcements ==
  [e \in Events |-> CASE e = paid1 -> stripe
                      [] e \in {made1, charged1} -> f1
                      [] e = made2 -> f2
                      [] e \in {paid2, again2} -> domestic
                      [] OTHER -> f3]

\* Top-ups share nothing but the balance: one of the two is asked for.
OneTopup == Cardinality({i \in Intents : request[i] # "none"}) <= 1
=============================================================================
