---------------------------- MODULE QuotaLedger ----------------------------
(***************************************************************************)
(* The quota ledger of one organization (internal/quota, SQLStore): the    *)
(* quotas rows that hold balances, the billing_sessions rows that hold a   *)
(* reservation until it is settled or refunded, and the usage-limit rows   *)
(* that decide which quotas row a user's calls are charged to.             *)
(*                                                                         *)
(* PreConsume reads the database three times before its transaction, so a  *)
(* call is a small process (calls[c].pc) whose reads other calls and       *)
(* administrators may make stale.  Settle, Refund and every credit are one *)
(* transaction each, hence one action each; a transaction that returns an  *)
(* error rolls back and is a step that is not enabled.                     *)
(*                                                                         *)
(* Money is counted in fractions of the database's least amount: callers   *)
(* compute with float64, the columns are DECIMAL(15,6), and Grain units    *)
(* make 0.000001.  Every write rounds (Stored).  charged, returnedTo,      *)
(* credited and reversed are history: no row of the database keeps them.   *)
(***************************************************************************)
EXTENDS Integers, FiniteSets, Sums

CONSTANTS
  Organization,   \* the account of scope 'organization'
  Users,          \* each has an account of scope 'user' when it has a row
  Keys,           \* idempotency keys callers send
  NoKey,          \* the empty key: the unique index does not cover it
  SessionIds,     \* what auth.NewID("bill") hands out
  Callers,        \* concurrent calls of PreConsume and Topup
  Amounts,        \* what a call may ask for, in units
  Credits,        \* what is credited, in units: whole cents, hence whole grains
  Grain,          \* units in the least amount a column holds
  NoAccount, NoSession,
  CreditBound     \* bound: no account is granted more, no more is reversed

Accounts == {Organization} \cup Users

ASSUME AccountsAssumption ==
  /\ IsFiniteSet(Users) /\ Organization \notin Users
  /\ NoAccount \notin Users \cup {Organization}
ASSUME KeysAssumption == NoKey \notin Keys
ASSUME SessionsAssumption == IsFiniteSet(SessionIds) /\ NoSession \notin SessionIds
ASSUME AmountsAssumption == Amounts \subseteq Nat \ {0}
ASSUME GrainAssumption == Grain \in Nat \ {0}
ASSUME CreditsAssumption == Credits \subseteq Nat \ {0} /\ \A n \in Credits : n % Grain = 0
ASSUME BoundAssumption == CreditBound \in Nat

VARIABLES
  rows,      \* accounts that have a quotas row
  balance,   \* quotas.balance
  used,      \* quotas.used
  limited,   \* users with a row in concurrency_limits / token_rate_limits
  sessions,  \* billing_sessions
  calls,     \* where each call of PreConsume or Topup stands
  credited,  \* history: net amount granted to each account
  reversed,  \* history: amount the payment provider took back
  doubled    \* history: halves of a grain rounded up in two columns at once

vars == <<rows, balance, used, limited, sessions, calls, credited, reversed, doubled>>

Statuses == {"absent", "preauthorized", "settled", "refunded"}

AbsentSession ==
  [status |-> "absent", user |-> NoAccount, key |-> NoKey, reserved |-> 0,
   settled |-> 0, charged |-> NoAccount, returnedTo |-> NoAccount]

IdleCall ==
  [pc |-> "idle", user |-> NoAccount, key |-> NoKey, amount |-> 0,
   account |-> NoAccount, session |-> NoSession]

Init ==
  /\ rows = {}
  /\ balance = [a \in Accounts |-> 0]
  /\ used = [a \in Accounts |-> 0]
  /\ limited = {}
  /\ sessions = [s \in SessionIds |-> AbsentSession]
  /\ calls = [c \in Callers |-> IdleCall]
  /\ credited = [a \in Accounts |-> 0]
  /\ reversed = 0
  /\ doubled = 0

-----------------------------------------------------------------------------
(* Helpers                                                                  *)

\* Mutant: the amount is truncated.
StoredDown(x) == Grain * (x \div Grain)

\* What a DECIMAL(15,6) column keeps of x: rounded, halves away from zero.
Stored(x) == IF x >= 0 THEN Grain * ((2 * x + Grain) \div (2 * Grain))
             ELSE -(Grain * ((Grain - 2 * x) \div (2 * Grain)))

\* An amount of whole grains and a half: a column it is added to and one it is taken
\* from both round it up.
Half(n) == IF 2 * (n % Grain) = Grain THEN 1 ELSE 0

\* The account a user is charged to: its own as soon as a usage limit names it.
QuotaBalanceScope(u) == IF u \in limited THEN u ELSE Organization

Existing(k) == {s \in SessionIds : sessions[s].status # "absent" /\ sessions[s].key = k}

\* Mutant: the index covers open sessions only.
OpenDuplicate(k) ==
  k # NoKey /\ \E s \in Existing(k) : sessions[s].status = "preauthorized"

\* The row the (organization_id, idempotency_key) index would reject.
Duplicate(k) == k # NoKey /\ Existing(k) # {}

\* Mutant: the reservation's UPDATE forgets AND balance >= $4.
HasRow(a, n) == a \in rows

\* The reservation's UPDATE finds a row.
Affordable(a, n) == a \in rows /\ balance[a] >= n

\* The row Settle and Refund lock is still open.
Open(s) == sessions[s].status = "preauthorized"

Answer(c, s) == calls' = [calls EXCEPT ![c].pc = "answered", ![c].session = s]

-----------------------------------------------------------------------------
(* PreConsume                                                               *)

\* The call arrives and looks its key up: a session of that key is the answer
\* whatever its status.
PreConsume(c, u, k, n) ==
  /\ calls[c].pc = "idle"
  /\ IF Duplicate(k)
     THEN \E s \in Existing(k) :
            calls' = [calls EXCEPT ![c] =
              [IdleCall EXCEPT !.pc = "answered", !.user = u, !.key = k,
                               !.amount = n, !.session = s]]
     ELSE calls' = [calls EXCEPT ![c] =
            [IdleCall EXCEPT !.pc = "ensure", !.user = u, !.key = k, !.amount = n]]
  /\ UNCHANGED <<rows, balance, used, limited, sessions, credited, reversed, doubled>>

\* GetOrCreateQuota: the row of the scope of this moment exists afterwards.
GetOrCreateQuota(c) ==
  /\ calls[c].pc \in {"ensure", "ensureTopup"}
  /\ rows' = rows \cup {QuotaBalanceScope(calls[c].user)}
  /\ calls' = [calls EXCEPT ![c].pc = IF calls[c].pc = "ensure" THEN "resolve" ELSE "topup"]
  /\ UNCHANGED <<balance, used, limited, sessions, credited, reversed, doubled>>

\* The scope is read again, outside the transaction that will use it.
ResolveScope(c) ==
  /\ calls[c].pc = "resolve"
  /\ calls' = [calls EXCEPT ![c].pc = "reserve",
                            ![c].account = QuotaBalanceScope(calls[c].user)]
  /\ UNCHANGED <<rows, balance, used, limited, sessions, credited, reversed, doubled>>

\* The transaction: insert the session, then take the amount from the account if
\* it is there.  The commit may succeed and the caller still be told of an error.
Reserve(c, s) ==
  LET call == calls[c] IN
  /\ call.pc = "reserve"
  /\ sessions[s].status = "absent"
  /\ ~Duplicate(call.key)
  /\ Affordable(call.account, call.amount)
  /\ sessions' = [sessions EXCEPT ![s] =
       [AbsentSession EXCEPT !.status = "preauthorized", !.user = call.user,
          !.key = call.key, !.reserved = Stored(call.amount), !.charged = call.account]]
  /\ balance' = [balance EXCEPT ![call.account] = Stored(@ - call.amount)]
  /\ used' = [used EXCEPT ![call.account] = Stored(@ + call.amount)]
  /\ \/ Answer(c, s)
     \/ calls' = [calls EXCEPT ![c].pc = "failed"]
  /\ doubled' = doubled + Half(call.amount)
  /\ UNCHANGED <<rows, limited, credited, reversed>>

\* No row is updated: the insert is rolled back and the call fails.
ReserveInsufficient(c) ==
  LET call == calls[c] IN
  /\ call.pc = "reserve"
  /\ ~Duplicate(call.key)
  /\ ~Affordable(call.account, call.amount)
  /\ calls' = [calls EXCEPT ![c].pc = "failed"]
  /\ UNCHANGED <<rows, balance, used, limited, sessions, credited, reversed, doubled>>

\* The insert hits the unique index: roll back and read the winner's session.
ReserveDuplicate(c) ==
  /\ calls[c].pc = "reserve"
  /\ Duplicate(calls[c].key)
  /\ calls' = [calls EXCEPT ![c].pc = "reread"]
  /\ UNCHANGED <<rows, balance, used, limited, sessions, credited, reversed, doubled>>

ReadWinner(c) ==
  /\ calls[c].pc = "reread"
  /\ \E s \in Existing(calls[c].key) : Answer(c, s)
  /\ UNCHANGED <<rows, balance, used, limited, sessions, credited, reversed, doubled>>

\* The process serving the call dies, or its context is cancelled, between two
\* statements.
AbandonCall(c) ==
  /\ calls[c].pc \notin {"idle", "answered", "credited", "failed"}
  /\ calls' = [calls EXCEPT ![c].pc = "failed"]
  /\ UNCHANGED <<rows, balance, used, limited, sessions, credited, reversed, doubled>>

-----------------------------------------------------------------------------
(* Settlement and refund                                                    *)

\* Mutant: the refund returns the balance and forgets used.
RefundBalanceOnly(s, n) ==
  LET a == QuotaBalanceScope(sessions[s].user) IN
  IF n = 0 THEN UNCHANGED <<balance, used>>
  ELSE a \in rows /\ balance' = [balance EXCEPT ![a] = Stored(@ + n)] /\ UNCHANGED used

\* refundReservedQuotaTx: n goes to the account the user's scope names now; the
\* transaction fails when that account has no row.
RefundReserved(s, n) ==
  LET a == QuotaBalanceScope(sessions[s].user) IN
  IF n = 0 THEN UNCHANGED <<balance, used>>
  ELSE /\ a \in rows
       /\ balance' = [balance EXCEPT ![a] = Stored(@ + n)]
       /\ used' = [used EXCEPT ![a] = IF @ >= n THEN Stored(@ - n) ELSE 0]

\* The session's new row, and to which account it returned what it did not use.
Finish(s, status, n) ==
  sessions' = [sessions EXCEPT ![s] =
    [@ EXCEPT !.status = status, !.settled = Stored(n),
              !.returnedTo = IF n = sessions[s].reserved THEN NoAccount
                             ELSE QuotaBalanceScope(sessions[s].user)]]

\* The balance that takes back what a settlement of n leaves, before it is rounded.
HeldAfter(s, n) == balance[QuotaBalanceScope(sessions[s].user)] + sessions[s].reserved - n

SettleBillingSession(s, n) ==
  /\ Open(s)
  /\ n <= sessions[s].reserved
  /\ Finish(s, "settled", n)
  /\ RefundReserved(s, sessions[s].reserved - n)
  /\ doubled' = doubled + IF HeldAfter(s, n) >= 0 THEN Half(n) ELSE 0
  /\ UNCHANGED <<rows, limited, calls, credited, reversed>>

\* A session that is already refunded answers success and changes nothing.
RefundBillingSession(s) ==
  /\ Open(s)
  /\ Finish(s, "refunded", 0)
  /\ RefundReserved(s, sessions[s].reserved)
  /\ UNCHANGED <<rows, limited, calls, credited, reversed, doubled>>

-----------------------------------------------------------------------------
(* Limits and credits                                                       *)

\* Saving a user's usage limits moves the user to its own account.
SaveUsageLimitSettings(u) ==
  /\ limited' = limited \cup {u}
  /\ UNCHANGED <<rows, balance, used, sessions, calls, credited, reversed, doubled>>

Credit(a, n) ==
  /\ balance' = [balance EXCEPT ![a] = Stored(@ + n)]
  /\ credited' = [credited EXCEPT ![a] = @ + n]

\* Service.Topup, first half: the idle call will credit n.
Topup(c, u, n) ==
  /\ calls[c].pc = "idle"
  /\ calls' = [calls EXCEPT ![c] =
       [IdleCall EXCEPT !.pc = "ensureTopup", !.user = u, !.amount = n]]
  /\ UNCHANGED <<rows, balance, used, limited, sessions, credited, reversed, doubled>>

\* UpdateQuotaBalance resolves the scope anew; when that account has no row the
\* UPDATE touches nothing and still reports success.
UpdateQuotaBalance(c) ==
  LET a == QuotaBalanceScope(calls[c].user) IN
  /\ calls[c].pc = "topup"
  /\ calls' = [calls EXCEPT ![c].pc = "credited"]
  /\ IF a \in rows
     THEN credited[a] + calls[c].amount <= CreditBound /\ Credit(a, calls[c].amount)
     ELSE UNCHANGED <<balance, credited>>
  /\ UNCHANGED <<rows, used, limited, sessions, reversed, doubled>>

\* A paid checkout always credits the organization's row.
ApplyTopupCheckout(n) ==
  /\ credited[Organization] + n <= CreditBound
  /\ rows' = rows \cup {Organization}
  /\ Credit(Organization, n)
  /\ UNCHANGED <<used, limited, sessions, calls, reversed, doubled>>

\* A provider refund takes the top-up back without looking at the balance.
ReverseTopup(n) ==
  /\ Organization \in rows
  /\ n <= credited[Organization] /\ reversed + n <= CreditBound
  /\ Credit(Organization, -n)
  /\ reversed' = reversed + n
  /\ UNCHANGED <<rows, used, limited, sessions, calls, doubled>>

\* An administrator overwrites a user's balance (and creates its row).
UpdateUserQuota(u, n) ==
  /\ credited[u] + n - balance[u] <= CreditBound
  /\ rows' = rows \cup {u}
  /\ Credit(u, n - balance[u])
  /\ UNCHANGED <<used, limited, sessions, calls, reversed, doubled>>

-----------------------------------------------------------------------------
Next ==
  \/ \E c \in Callers, u \in Users :
       \/ \E n \in Amounts, k \in Keys \cup {NoKey} : PreConsume(c, u, k, n)
       \/ \E n \in Credits : Topup(c, u, n)
  \/ \E c \in Callers :
       \/ GetOrCreateQuota(c) \/ ResolveScope(c)
       \/ \E s \in SessionIds : Reserve(c, s)
       \/ ReserveInsufficient(c) \/ ReserveDuplicate(c) \/ ReadWinner(c)
       \/ AbandonCall(c) \/ UpdateQuotaBalance(c)
  \/ \E s \in SessionIds :
       \/ \E n \in 0 .. sessions[s].reserved : SettleBillingSession(s, n)
       \/ RefundBillingSession(s)
  \/ \E u \in Users :
       \/ SaveUsageLimitSettings(u)
       \/ \E n \in {0} \cup Credits : UpdateUserQuota(u, n)
  \/ \E n \in Credits : ApplyTopupCheckout(n) \/ ReverseTopup(n)

Spec == Init /\ [][Next]_vars

-----------------------------------------------------------------------------
(* Properties                                                               *)

Stages == {"idle", "ensure", "ensureTopup", "resolve", "reserve", "reread", "topup",
           "answered", "credited", "failed"}

CallType ==
  [pc : Stages, user : Users \cup {NoAccount}, key : Keys \cup {NoKey}, amount : Amounts \cup Credits \cup {0},
   account : Accounts \cup {NoAccount}, session : SessionIds \cup {NoSession}]

SessionType ==
  [status : Statuses, user : Users \cup {NoAccount}, key : Keys \cup {NoKey},
   reserved : Nat, settled : Nat, charged : Accounts \cup {NoAccount},
   returnedTo : Accounts \cup {NoAccount}]

\* Every variable has its type.
TypeOK ==
  /\ rows \subseteq Accounts
  /\ balance \in [Accounts -> Int]
  /\ used \in [Accounts -> Nat]
  /\ limited \subseteq Users
  /\ sessions \in [SessionIds -> SessionType]
  /\ calls \in [Callers -> CallType]
  /\ credited \in [Accounts -> Int]
  /\ reversed \in Nat
  /\ doubled \in Nat

Total(f) == SumOf(f, Accounts)

\* What a session still takes from the money granted: all it reserved while it
\* is open, what it settled afterwards.
Outstanding(session) ==
  CASE session.status = "preauthorized" -> session.reserved
    [] session.status = "settled" -> session.settled
    [] OTHER -> 0

\* What sessions S take.
Held(ss, S) == SumOf([s \in S |-> Outstanding(ss[s])], S)

\* No interleaving of reservations, duplicate calls, settlements, refunds, failed
\* commits and changes of scope destroys money, and none creates any but the grain
\* of a half that is rounded up both where it is taken and where it is held: what
\* the accounts hold and what sessions hold or spent is what was granted and those
\* grains (PreauthorizeBillingSession, SettleBillingSession, RefundBillingSession).
Conservation ==
  Total(balance) + Held(sessions, SessionIds) = Total(credited) + Grain * doubled

\* Concurrent reservations cannot overspend an account: only a payment provider's
\* refund makes a balance negative, and by no more than it took back.
NoOverdraft ==
  /\ \A u \in Users : balance[u] >= 0
  /\ balance[Organization] + reversed >= 0

\* An idempotency key owns at most one session, whatever happened to it.
OneSessionPerKey ==
  \A s, t \in SessionIds :
    /\ sessions[s].status # "absent" /\ sessions[t].status # "absent"
    /\ sessions[s].key = sessions[t].key /\ sessions[s].key # NoKey
    => s = t

\* Calls that share a key are answered with the same session, the racing ones
\* that lost on the unique index included.
AnswersAgree ==
  \A c, d \in Callers :
    /\ calls[c].pc = "answered" /\ calls[d].pc = "answered"
    /\ calls[c].key = calls[d].key /\ calls[c].key # NoKey
    => calls[c].session = calls[d].session

\* A call that was answered under a key holds the session that owns the key.
AnswersOwnTheirKey ==
  \A c \in Callers :
    calls[c].pc = "answered" /\ calls[c].key # NoKey =>
      /\ calls[c].session \in SessionIds
      /\ sessions[calls[c].session].status # "absent"
      /\ sessions[calls[c].session].key = calls[c].key

\* Balances are what the column can hold.
WholeGrains == \A a \in Accounts : balance[a] % Grain = 0

\* The inductive invariant behind NoOverdraft, OneSessionPerKey and AnswersAgree:
\* rounding a credit cannot lose a grain only because balances are whole grains,
\* and two answers agree because each owns the key.
LedgerInv == TypeOK /\ NoOverdraft /\ WholeGrains /\ OneSessionPerKey /\ AnswersOwnTheirKey

\* An account no session paid into without having been charged to it, nor the
\* other way round.
Undisturbed(a) ==
  \A s \in SessionIds :
    sessions[s].returnedTo # NoAccount /\ a \in {sessions[s].charged, sessions[s].returnedTo}
      => sessions[s].charged = sessions[s].returnedTo

\* As long as no change of scope diverted a refund, quotas.used is what the
\* account's sessions hold or spent: GREATEST(used - n, 0) never clamps.
UsedIsOutstanding ==
  \A a \in Accounts :
    Undisturbed(a) =>
      used[a] = Held(sessions, {s \in SessionIds : sessions[s].charged = a})

\* The inductive invariant behind Conservation and UsedIsOutstanding: what a write
\* adds to or takes from is whole grains, so that what it rounds is the amount alone;
\* a session that is not inserted is charged to no account, one that is not finished
\* has returned nothing; a top-up under way credits whole grains.
WholeColumns ==
  /\ \A a \in Accounts : used[a] % Grain = 0
  /\ \A s \in SessionIds : sessions[s].reserved % Grain = 0 /\ sessions[s].settled % Grain = 0

Unreturned ==
  \A s \in SessionIds :
    /\ sessions[s].status = "absent" => sessions[s].charged = NoAccount
    /\ sessions[s].status \in {"absent", "preauthorized"} => sessions[s].returnedTo = NoAccount

WholeTopups ==
  \A c \in Callers : calls[c].pc \in {"ensureTopup", "topup"} => calls[c].amount \in Credits

MoneyInv == WholeColumns /\ Unreturned /\ WholeTopups /\ Conservation /\ UsedIsOutstanding

\* A session that settled or was refunded never changes again: no late
\* settlement of a refunded call, no refund of a settled one, no second refund.
FinishedIsFinal ==
  [][\A s \in SessionIds :
       sessions[s].status \in {"settled", "refunded"} => sessions'[s] = sessions[s]]_vars
=============================================================================
