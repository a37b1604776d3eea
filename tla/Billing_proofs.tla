--------------------------- MODULE Billing_proofs ---------------------------
(***************************************************************************)
(* Theorems about the modules that keep an organization's balance:         *)
(* QuotaLedger, for every set of users, keys, sessions, callers, amounts   *)
(* and every grain; PaymentLifecycle, for any payment intents, refunds and *)
(* events, any amounts, and any number of deliveries in work; and          *)
(* QuotaCompensation, for every number of requests and workers, every      *)
(* claim limit and every combination of scopes.                            *)
(***************************************************************************)
EXTENDS QuotaLedger, PaymentLifecycle, QuotaCompensation, SumTheorems, TLAPS

-----------------------------------------------------------------------------
(* Rounding                                                                 *)

\* Multiplication by a positive number keeps the order of integers.
LEMMA TimesMonotone ==
  ASSUME NEW g \in Nat \ {0}, NEW x \in Int, NEW y \in Int, x <= y
  PROVE  g * x <= g * y
PROOF
  <1>1. g * (y - x) >= 0 BY SMT
  <1>2. g * (y - x) = g * y - g * x BY SMT
  <1> QED BY <1>1, <1>2, SMT

\* Division is bracketed by its divisor.
LEMMA Division ==
  ASSUME NEW d \in Nat \ {0}, NEW x \in Int
  PROVE  /\ x \div d \in Int
         /\ d * (x \div d) <= x
         /\ x < d * (x \div d) + d
PROOF BY SMT

\* What a column keeps is a whole number of grains, and rounding never falls
\* below a whole number of grains that the exact value reaches.
LEMMA StoredBounds ==
  ASSUME NEW x \in Int
  PROVE  /\ \E k \in Int : Stored(x) = Grain * k
         /\ \A m \in Int : Grain * m <= x => Grain * m <= Stored(x)
PROOF
  <1> DEFINE d == 2 * Grain
             up == (2 * x + Grain) \div d
             down == (Grain - 2 * x) \div d
  <1>0. Grain \in Nat \ {0} /\ d \in Nat \ {0} BY GrainAssumption, SMT
  <1>1. up \in Int /\ down \in Int
    <2>1. 2 * x + Grain \in Int /\ Grain - 2 * x \in Int BY <1>0, SMT
    <2> QED BY <1>0, <2>1, Division
  <1>2. CASE x >= 0
    <2>1. Stored(x) = Grain * up BY <1>2 DEF Stored
    <2>2. ASSUME NEW m \in Int, Grain * m <= x PROVE m <= up
      <3>1. 2 * x + Grain < d * up + d BY <1>0, Division, 2 * x + Grain \in Int
      <3>2. d * m <= 2 * x BY <1>0, <2>2, SMT
      <3>3. SUFFICES ASSUME up + 1 <= m PROVE FALSE BY <1>1, SMT
      <3>4. d * (up + 1) <= d * m BY <1>0, <1>1, <3>3, TimesMonotone, up + 1 \in Int
      <3>5. d * (up + 1) = d * up + d BY <1>0, <1>1, SMT
      <3>6. d * up \in Int /\ d * m \in Int BY <1>0, <1>1, SMT
      <3>7. d * up + d <= 2 * x BY <3>2, <3>4, <3>5, <3>6, <1>0, SMT
      <3> HIDE DEF d, up
      <3> QED BY <3>1, <3>7, <3>6, <1>0, <1>2, SMT
    <2>3. ASSUME NEW m \in Int, Grain * m <= x PROVE Grain * m <= Grain * up
      BY <1>0, <1>1, <2>2, <2>3, TimesMonotone
    <2> QED BY <1>1, <2>1, <2>3
  <1>3. CASE x < 0
    <2>1. Stored(x) = -(Grain * down) BY <1>3, ~(x >= 0) DEF Stored
    <2>2. -(Grain * down) = Grain * (-down) BY <1>0, <1>1, SMT
    <2>3. ASSUME NEW m \in Int, Grain * m <= x PROVE m <= -down
      <3>1. d * down <= Grain - 2 * x BY <1>0, Division, Grain - 2 * x \in Int
      <3>2. d * m <= 2 * x BY <1>0, <2>3, SMT
      <3>3. SUFFICES ASSUME 1 - down <= m PROVE FALSE BY <1>1, SMT
      <3>4. d * (1 - down) <= d * m BY <1>0, <1>1, <3>3, TimesMonotone, 1 - down \in Int
      <3>5. d * (1 - down) = d - d * down BY <1>0, <1>1, SMT
      <3>6. d * down \in Int /\ d * m \in Int BY <1>0, <1>1, SMT
      <3>7. d - d * down <= 2 * x BY <3>2, <3>4, <3>5, <3>6, <1>0, SMT
      <3>8. d = 2 * Grain OBVIOUS
      <3> HIDE DEF d, down
      <3> QED BY <3>1, <3>7, <3>6, <3>8, <1>0, SMT
    <2>4. ASSUME NEW m \in Int, Grain * m <= x PROVE Grain * m <= Grain * (-down)
      BY <1>0, <1>1, <2>3, <2>4, TimesMonotone, -down \in Int
    <2> QED BY <1>1, <2>1, <2>2, <2>4
  <1> QED BY <1>2, <1>3, SMT

LEMMA WholeNumber ==
  ASSUME NEW x \in Int
  PROVE  x % Grain = 0 <=> \E k \in Int : x = Grain * k
PROOF
  <1>0. Grain \in Nat \ {0} BY GrainAssumption
  <1>1. x % Grain \in 0 .. Grain - 1 /\ x \div Grain \in Int BY <1>0, SMT
  <1>2. x = Grain * (x \div Grain) + (x % Grain) BY <1>0, SMT
  <1>3. ASSUME x % Grain = 0 PROVE \E k \in Int : x = Grain * k
    <2>1. Grain * (x \div Grain) \in Int BY <1>0, <1>1, SMT
    <2>2. x = Grain * (x \div Grain) BY <1>2, <1>3, <2>1, SMT
    <2> QED BY <1>1, <2>2
  <1>4. ASSUME NEW k \in Int, x = Grain * k PROVE x % Grain = 0
    BY <1>0, <1>4, SMT
  <1> QED BY <1>3, <1>4

LEMMA StoredType ==
  ASSUME NEW x \in Int
  PROVE  Stored(x) \in Int /\ Stored(x) % Grain = 0 /\ (x >= 0 => Stored(x) >= 0)
PROOF
  <1>0. Grain \in Nat \ {0} BY GrainAssumption
  <1>1. PICK k \in Int : Stored(x) = Grain * k BY StoredBounds
  <1>2. Stored(x) \in Int BY <1>0, <1>1, SMT
  <1>3. x >= 0 => Stored(x) >= 0
    <2>1. 0 \in Int /\ Grain * 0 = 0 BY <1>0, SMT
    <2> QED BY <2>1, StoredBounds
  <1> QED BY <1>1, <1>2, <1>3, WholeNumber

\* Adding a natural number to a whole balance and rounding does not lower it.
LEMMA StoredCredit ==
  ASSUME NEW b \in Int, b % Grain = 0, NEW n \in Nat
  PROVE  Stored(b + n) >= b
PROOF
  <1>1. PICK k \in Int : b = Grain * k BY WholeNumber
  <1>2. Grain * k <= b + n BY <1>1, SMT
  <1> QED BY <1>1, <1>2, StoredBounds, b + n \in Int

LEMMA HalfType == ASSUME NEW n PROVE Half(n) \in {0, 1}
PROOF BY DEF Half

\* A quotient is the number whose multiple lies one divisor or less below.
LEMMA DivisionIs ==
  ASSUME NEW d \in Nat \ {0}, NEW y \in Int, NEW k \in Int, d * k <= y, y < d * k + d
  PROVE  y \div d = k
PROOF
  <1> DEFINE q == y \div d
  <1>1. q \in Int /\ d * q <= y /\ y < d * q + d BY Division
  <1> HIDE DEF q
  <1>2. d * k \in Int /\ d * q \in Int BY <1>1
  <1>3. ~ q + 1 <= k
    <2>1. SUFFICES ASSUME q + 1 <= k PROVE FALSE OBVIOUS
    <2>2. d * (q + 1) <= d * k BY <1>1, <2>1, TimesMonotone, q + 1 \in Int
    <2>3. d * (q + 1) = d * q + d BY <1>1
    <2> QED BY <1>1, <1>2, <2>2, <2>3
  <1>4. ~ k + 1 <= q
    <2>1. SUFFICES ASSUME k + 1 <= q PROVE FALSE OBVIOUS
    <2>2. d * (k + 1) <= d * q BY <1>1, <2>1, TimesMonotone, k + 1 \in Int
    <2>3. d * (k + 1) = d * k + d OBVIOUS
    <2> QED BY <1>1, <1>2, <2>2, <2>3
  <1>5. q = k BY <1>1, <1>3, <1>4
  <1> QED BY <1>5 DEF q

\* A rest of half a grain or more rounds up.
Rest(r) == IF 2 * r >= Grain THEN Grain ELSE 0

\* What a column keeps of whole grains and a rest, and of a negative number.
LEMMA StoredAt ==
  ASSUME NEW k \in Int, NEW r \in 0 .. Grain - 1, Grain * k + r >= 0
  PROVE  Stored(Grain * k + r) = Grain * k + Rest(r)
PROOF
  <1> DEFINE x == Grain * k + r
             d == 2 * Grain
             y == 2 * x + Grain
  <1>1. Grain \in Nat \ {0} /\ d \in Nat \ {0} /\ d = 2 * Grain BY GrainAssumption
  <1>2. Grain * k \in Int /\ r \in Int /\ x \in Int /\ y \in Int BY <1>1
  <1>3. d * k = 2 * (Grain * k) /\ d * (k + 1) = 2 * (Grain * k) + d BY <1>1
  <1>4. y = 2 * (Grain * k) + 2 * r + Grain BY <1>1, <1>2
  <1>5. 0 <= r /\ r < Grain BY <1>1
  <1>6. Stored(x) = Grain * (y \div d) BY DEF Stored
  <1>7. CASE 2 * r >= Grain
    <2>1. d * (k + 1) <= y /\ y < d * (k + 1) + d
      <3> HIDE DEF d, y, x
      <3> QED BY <1>1, <1>2, <1>3, <1>4, <1>5, <1>7
    <2>2. y \div d = k + 1
      <3> HIDE DEF d, y, x
      <3> QED BY <1>1, <1>2, <2>1, DivisionIs, k + 1 \in Int
    <2>3. Grain * (k + 1) = Grain * k + Grain BY <1>1
    <2> QED BY <1>6, <1>7, <2>2, <2>3 DEF Rest
  <1>8. CASE ~(2 * r >= Grain)
    <2>1. d * k <= y /\ y < d * k + d
      <3> HIDE DEF d, y, x
      <3> QED BY <1>1, <1>2, <1>3, <1>4, <1>5, <1>8
    <2>2. y \div d = k
      <3> HIDE DEF d, y, x
      <3> QED BY <1>1, <1>2, <2>1, DivisionIs
    <2>3. Grain * k + 0 = Grain * k BY <1>2
    <2> QED BY <1>6, <1>8, <2>2, <2>3 DEF Rest
  <1> QED BY <1>7, <1>8

LEMMA StoredNegative ==
  ASSUME NEW x \in Int, x < 0
  PROVE  Stored(x) = -Stored(-x)
PROOF
  <1>1. -x >= 0 /\ ~(x >= 0) OBVIOUS
  <1>2. 2 * (-x) + Grain = Grain - 2 * x BY GrainAssumption
  <1> QED BY <1>1, <1>2 DEF Stored

\* An amount is whole grains and a rest.
LEMMA AmountParts ==
  ASSUME NEW n \in Nat
  PROVE  \E q \in Nat, r \in 0 .. Grain - 1 :
           n = Grain * q + r /\ r = n % Grain /\ Stored(n) = Grain * q + Rest(r)
PROOF
  <1>1. Grain \in Nat \ {0} BY GrainAssumption
  <1>2. n \div Grain \in Nat /\ n % Grain \in 0 .. Grain - 1 BY <1>1, SMT
  <1>3. n = Grain * (n \div Grain) + (n % Grain) BY <1>1, SMT
  <1>4. Stored(n) = Grain * (n \div Grain) + Rest(n % Grain) BY <1>2, <1>3, StoredAt
  <1> QED BY <1>2, <1>3, <1>4

\* Whole grains are kept as they are.
LEMMA StoredWhole ==
  ASSUME NEW b \in Int, b % Grain = 0
  PROVE  Stored(b) = b
PROOF
  <1>1. PICK k \in Int : b = Grain * k BY WholeNumber
  <1>2. Grain \in Nat \ {0} /\ Rest(0) = 0 /\ 0 \in 0 .. Grain - 1 BY GrainAssumption DEF Rest
  <1>3. -b = Grain * (-k) /\ -k \in Int BY <1>1, <1>2
  <1>4. CASE b >= 0 
    <2>1. b = Grain * k + 0 BY <1>1
    <2> QED BY <1>2, <1>4, <2>1, StoredAt
  <1>5. CASE ~(b >= 0)
    <2>1. -b = Grain * (-k) + 0 /\ -b >= 0 BY <1>3, <1>5
    <2>2. Stored(-b) = -b BY <1>2, <1>3, <2>1, StoredAt
    <2> QED BY <1>5, <2>2, StoredNegative
  <1> QED BY <1>4, <1>5

\* Adding an amount to whole grains rounds the amount alone.
LEMMA StoredOnto ==
  ASSUME NEW b \in Nat, b % Grain = 0, NEW n \in Nat
  PROVE  Stored(b + n) = b + Stored(n)
PROOF
  <1>1. PICK j \in Int : b = Grain * j BY WholeNumber
  <1>2. PICK q \in Nat, r \in 0 .. Grain - 1 : n = Grain * q + r /\ Stored(n) = Grain * q + Rest(r)
    BY AmountParts
  <1>3. Grain \in Nat \ {0} /\ Grain * j \in Int /\ Grain * q \in Int BY GrainAssumption
  <1>4. j + q \in Int /\ Grain * (j + q) = Grain * j + Grain * q BY <1>3
  <1>5. b + n = Grain * (j + q) + r BY <1>1, <1>2, <1>3, <1>4
  <1>6. Stored(b + n) = Grain * (j + q) + Rest(r) BY <1>4, <1>5, StoredAt
  <1>7. Rest(r) \in Int BY <1>3 DEF Rest
  <1> QED BY <1>1, <1>2, <1>3, <1>4, <1>6, <1>7

\* Taking an amount from whole grains takes what a column keeps of it, unless half a
\* grain rounds up on both sides.
LEMMA StoredApart ==
  ASSUME NEW b \in Int, b % Grain = 0, NEW n \in Nat
  PROVE  Stored(b - n) + Stored(n) = b + (IF b - n >= 0 THEN Grain * Half(n) ELSE 0)
PROOF
  <1>1. PICK j \in Int : b = Grain * j BY WholeNumber
  <1>2. PICK q \in Nat, r \in 0 .. Grain - 1 :
          n = Grain * q + r /\ r = n % Grain /\ Stored(n) = Grain * q + Rest(r)
    BY AmountParts
  <1>3. Grain \in Nat \ {0} /\ Grain * j \in Int /\ Grain * q \in Int BY GrainAssumption
  <1>4. 0 <= r /\ r < Grain /\ r \in Int /\ Rest(r) \in Int BY <1>3 DEF Rest
  <1>5. CASE b - n < 0
    <2>1. q - j \in Int /\ Grain * (q - j) = Grain * q - Grain * j BY <1>3
    <2>2. -(b - n) = Grain * (q - j) + r /\ -(b - n) >= 0 BY <1>1, <1>2, <1>3, <1>5, <2>1
    <2>3. Stored(-(b - n)) = Grain * (q - j) + Rest(r) BY <2>1, <2>2, StoredAt
    <2>4. Stored(b - n) = -(Grain * (q - j) + Rest(r)) BY <1>5, <2>3, StoredNegative, b - n \in Int
    <2>5. ~(b - n >= 0) BY <1>5
    <2> QED BY <1>1, <1>2, <1>3, <1>4, <2>1, <2>4, <2>5
  <1>6. CASE b - n >= 0 /\ r = 0
    <2>1. j - q \in Int /\ Grain * (j - q) = Grain * j - Grain * q BY <1>3
    <2>2. b - n = Grain * (j - q) + 0
      <3>1. n = Grain * q BY <1>2, <1>3, <1>6
      <3> QED BY <1>1, <1>3, <2>1, <3>1
    <2>3. Stored(b - n) = Grain * (j - q) + Rest(0) BY <1>3, <1>6, <2>1, <2>2, StoredAt, 0 \in 0 .. Grain - 1
    <2>4. Rest(0) = 0 /\ Half(n) = 0 BY <1>2, <1>3, <1>6 DEF Rest, Half
    <2>5. Grain * Half(n) = 0 BY <1>3, <2>4
    <2>6. Stored(n) = Grain * q BY <1>2, <1>3, <1>6, <2>4
    <2> QED BY <1>1, <1>3, <1>6, <2>1, <2>3, <2>4, <2>5, <2>6
  <1>7. CASE b - n >= 0 /\ r # 0
    <2>1. j - q - 1 \in Int /\ Grain * (j - q - 1) = Grain * j - Grain * q - Grain BY <1>3
    <2>2. Grain - r \in 0 .. Grain - 1 BY <1>3, <1>4, <1>7
    <2>3. b - n = Grain * (j - q - 1) + (Grain - r) BY <1>1, <1>2, <1>3, <1>4, <2>1
    <2>4. Stored(b - n) = Grain * (j - q - 1) + Rest(Grain - r) BY <1>7, <2>1, <2>2, <2>3, StoredAt
    <2>5. Rest(Grain - r) + Rest(r) = Grain + Grain * Half(n)
      BY <1>2, <1>3, <1>4 DEF Rest, Half
    <2>6. Rest(Grain - r) \in Int /\ Grain * Half(n) \in Int BY <1>3, HalfType DEF Rest
    <2> QED BY <1>1, <1>2, <1>3, <1>4, <1>7, <2>1, <2>4, <2>5, <2>6
  <1> QED BY <1>5, <1>6, <1>7

-----------------------------------------------------------------------------
(* Helpers of the ledger                                                    *)

LEMMA ScopeIsAccount ==
  ASSUME TypeOK, NEW u
  PROVE  QuotaBalanceScope(u) \in Accounts
PROOF BY DEF TypeOK, QuotaBalanceScope, Accounts

LEMMA CreditIsNat ==
  ASSUME NEW n \in Credits
  PROVE  n \in Nat /\ n % Grain = 0
PROOF BY CreditsAssumption

\* Whole grains stay whole when whole grains are added or taken.
LEMMA WholeSum ==
  ASSUME NEW x \in Int, NEW y \in Int, x % Grain = 0, y % Grain = 0
  PROVE  (x + y) % Grain = 0 /\ (x - y) % Grain = 0 /\ (-x) % Grain = 0
PROOF
  <1>0. Grain \in Nat \ {0} BY GrainAssumption
  <1>1. PICK j \in Int : x = Grain * j BY WholeNumber
  <1>2. PICK k \in Int : y = Grain * k BY WholeNumber
  <1>3. x + y = Grain * (j + k) /\ x - y = Grain * (j - k) /\ -x = Grain * (-j)
    BY <1>0, <1>1, <1>2, SMT
  <1>4. j + k \in Int /\ j - k \in Int /\ -j \in Int BY SMT
  <1>5. x + y \in Int /\ x - y \in Int /\ -x \in Int BY SMT
  <1> QED BY <1>3, <1>4, <1>5, WholeNumber

-----------------------------------------------------------------------------
(* Type correctness                                                         *)

LEMMA InitType == Init => TypeOK
PROOF BY GrainAssumption DEF Init, TypeOK, SessionType, CallType, Stages,
               AbsentSession, IdleCall, Accounts, Statuses

\* What refundReservedQuotaTx does to the two amounts keeps their types.
LEMMA RefundReservedType ==
  ASSUME TypeOK, NEW s \in SessionIds, NEW n \in Nat, RefundReserved(s, n)
  PROVE  balance' \in [Accounts -> Int] /\ used' \in [Accounts -> Nat]
PROOF
  <1> DEFINE a == QuotaBalanceScope(sessions[s].user)
  <1>1. CASE n = 0 BY <1>1 DEF RefundReserved, TypeOK
  <1>2. CASE n # 0
    <2>1. a \in Accounts BY ScopeIsAccount
    <2>2. balance[a] \in Int /\ used[a] \in Nat BY <2>1 DEF TypeOK
    <2>3. Stored(balance[a] + n) \in Int BY <2>2, StoredType, balance[a] + n \in Int
    <2>4. used[a] >= n => Stored(used[a] - n) \in Nat
      BY <2>2, StoredType, used[a] - n \in Int, SMT
    <2>5. balance' = [balance EXCEPT ![a] = Stored(balance[a] + n)]
      BY <1>2, <2>1 DEF RefundReserved, TypeOK
    <2>6. used' = [used EXCEPT ![a] = IF used[a] >= n THEN Stored(used[a] - n) ELSE 0]
      BY <1>2, <2>1 DEF RefundReserved, TypeOK
    <2> QED BY <2>1, <2>3, <2>4, <2>5, <2>6 DEF TypeOK
  <1> QED BY <1>1, <1>2

\* A call that moves to another stage, draws an account or is answered stays a call.
LEMMA CallMoves ==
  ASSUME TypeOK, NEW c \in Callers, NEW p \in Stages
  PROVE  /\ [calls EXCEPT ![c].pc = p] \in [Callers -> CallType]
         /\ \A a \in Accounts :
              [calls EXCEPT ![c].pc = p, ![c].account = a] \in [Callers -> CallType]
         /\ \A s \in SessionIds :
              [calls EXCEPT ![c].pc = p, ![c].session = s] \in [Callers -> CallType]
PROOF
  <1>1. calls \in [Callers -> CallType] BY DEF TypeOK
  <1>2. [calls[c] EXCEPT !.pc = p] \in CallType BY <1>1 DEF CallType
  <1>3. \A a \in Accounts : [calls[c] EXCEPT !.pc = p, !.account = a] \in CallType
    BY <1>1 DEF CallType
  <1>4. \A s \in SessionIds : [calls[c] EXCEPT !.pc = p, !.session = s] \in CallType
    BY <1>1 DEF CallType
  <1> QED BY <1>1, <1>2, <1>3, <1>4

LEMMA AmountIsNat ==
  ASSUME TypeOK, NEW c \in Callers
  PROVE  calls[c].amount \in Nat
PROOF
  <1>1. calls[c] \in CallType BY DEF TypeOK
  <1>2. calls[c].amount \in Amounts \cup Credits \cup {0} BY <1>1 DEF CallType
  <1>3. Amounts \subseteq Nat /\ Credits \subseteq Nat
    BY AmountsAssumption, CreditsAssumption
  <1>4. \A x \in Amounts \cup Credits \cup {0} : x \in Nat BY <1>3
  <1> QED BY <1>2, <1>4

LEMMA CreditType ==
  ASSUME TypeOK, NEW a \in Accounts, NEW n \in Int, Credit(a, n)
  PROVE  balance' \in [Accounts -> Int] /\ credited' \in [Accounts -> Int]
PROOF
  <1>1. balance[a] + n \in Int /\ credited[a] + n \in Int BY DEF TypeOK
  <1>2. Stored(balance[a] + n) \in Int BY <1>1, StoredType
  <1> QED BY <1>1, <1>2 DEF TypeOK, Credit

LEMMA StepType == TypeOK /\ [Next]_vars => TypeOK'
PROOF
  <1> SUFFICES ASSUME TypeOK, [Next]_vars PROVE TypeOK'
    OBVIOUS
  <1> USE DEF TypeOK
  <1>1. ASSUME NEW c \in Callers, NEW u \in Users, NEW n \in Amounts,
               NEW k \in Keys \cup {NoKey}, PreConsume(c, u, k, n)
        PROVE  TypeOK'
    <2> DEFINE waiting == [IdleCall EXCEPT !.pc = "ensure", !.user = u, !.key = k, !.amount = n]
               found(s) == [IdleCall EXCEPT !.pc = "answered", !.user = u, !.key = k,
                                            !.amount = n, !.session = s]
    <2>0. waiting \in CallType /\ \A s \in SessionIds : found(s) \in CallType
      BY DEF CallType, Stages, IdleCall
    <2>1. calls' \in [Callers -> CallType]
      <3>1. CASE Duplicate(k)
        <4>1. PICK s \in Existing(k) : calls' = [calls EXCEPT ![c] = found(s)]
          BY <1>1, <3>1 DEF PreConsume
        <4>2. s \in SessionIds BY DEF Existing
        <4> QED BY <2>0, <4>1, <4>2
      <3>2. CASE ~Duplicate(k)
        <4>1. calls' = [calls EXCEPT ![c] = waiting] BY <1>1, <3>2 DEF PreConsume
        <4> QED BY <2>0, <4>1
      <3> QED BY <3>1, <3>2
    <2> QED BY <1>1, <2>1 DEF PreConsume
  <1>2. ASSUME NEW c \in Callers, NEW u \in Users, NEW n \in Credits, Topup(c, u, n)
        PROVE  TypeOK'
    BY <1>2 DEF Topup, CallType, Stages, IdleCall
  <1>3. ASSUME NEW c \in Callers, GetOrCreateQuota(c) PROVE TypeOK'
    <2>1. rows' \subseteq Accounts BY <1>3, ScopeIsAccount DEF GetOrCreateQuota
    <2>2. calls' \in [Callers -> CallType]
      BY <1>3, CallMoves, "resolve" \in Stages, "topup" \in Stages
      DEF GetOrCreateQuota, Stages
    <2> QED BY <1>3, <2>1, <2>2 DEF GetOrCreateQuota
  <1>4. ASSUME NEW c \in Callers, ResolveScope(c) PROVE TypeOK'
    <2>1. calls' \in [Callers -> CallType]
      BY <1>4, ScopeIsAccount, CallMoves, "reserve" \in Stages DEF ResolveScope, Stages
    <2> QED BY <1>4, <2>1 DEF ResolveScope
  <1>5. ASSUME NEW c \in Callers, NEW s \in SessionIds, Reserve(c, s) PROVE TypeOK'
    <2> DEFINE a == calls[c].account
               n == calls[c].amount
    <2>1. a \in Accounts /\ n \in Nat /\ balance[a] >= n
      BY <1>5, AmountIsNat DEF Reserve, Affordable
    <2>2. balance[a] \in Int /\ used[a] \in Nat BY <2>1
    <2>3. Stored(n) \in Nat BY <2>1, StoredType, n \in Int, SMT
    <2>4. Stored(balance[a] - n) \in Int BY <2>1, <2>2, StoredType, balance[a] - n \in Int
    <2>5. Stored(used[a] + n) \in Nat BY <2>1, <2>2, StoredType, used[a] + n \in Int, SMT
    <2>6. balance' \in [Accounts -> Int] /\ used' \in [Accounts -> Nat]
      BY <1>5, <2>4, <2>5 DEF Reserve
    <2>7. sessions' \in [SessionIds -> SessionType]
      BY <1>5, <2>1, <2>3 DEF Reserve, SessionType, AbsentSession, CallType, Statuses
    <2>8. calls' \in [Callers -> CallType] 
      <3>1. CASE Answer(c, s) BY <3>1, CallMoves, "answered" \in Stages DEF Answer, Stages
      <3>2. CASE calls' = [calls EXCEPT ![c].pc = "failed"]
        BY <3>2, CallMoves, "failed" \in Stages DEF Stages
      <3> QED BY <1>5, <3>1, <3>2 DEF Reserve
    <2>9. doubled' \in Nat BY <1>5, HalfType DEF Reserve
    <2> QED BY <1>5, <2>6, <2>7, <2>8, <2>9 DEF Reserve
  <1>6. ASSUME NEW c \in Callers,
               ReserveInsufficient(c) \/ ReserveDuplicate(c) \/ AbandonCall(c)
        PROVE  TypeOK'
    <2>1. calls' \in [Callers -> CallType]
      <3>1. CASE calls' = [calls EXCEPT ![c].pc = "failed"]
        BY <3>1, CallMoves, "failed" \in Stages DEF Stages
      <3>2. CASE calls' = [calls EXCEPT ![c].pc = "reread"]
        BY <3>2, CallMoves, "reread" \in Stages DEF Stages
      <3> QED BY <1>6, <3>1, <3>2 DEF ReserveInsufficient, ReserveDuplicate, AbandonCall
    <2> QED BY <1>6, <2>1 DEF ReserveInsufficient, ReserveDuplicate, AbandonCall
  <1>7. ASSUME NEW c \in Callers, ReadWinner(c) PROVE TypeOK'
    <2>1. calls' \in [Callers -> CallType]
      <3>1. PICK s \in SessionIds : Answer(c, s) BY <1>7 DEF ReadWinner, Existing
      <3> QED BY <3>1, CallMoves, "answered" \in Stages DEF Answer, Stages
    <2> QED BY <1>7, <2>1 DEF ReadWinner
  <1>8. ASSUME NEW c \in Callers, UpdateQuotaBalance(c) PROVE TypeOK'
    <2>1. calls[c].amount \in Nat BY AmountIsNat
    <2>2. balance' \in [Accounts -> Int] /\ credited' \in [Accounts -> Int]
      BY <1>8, <2>1, ScopeIsAccount, CreditType DEF UpdateQuotaBalance
    <2>3. calls' \in [Callers -> CallType] 
      BY <1>8, CallMoves, "credited" \in Stages DEF UpdateQuotaBalance, Stages
    <2> QED BY <1>8, <2>2, <2>3 DEF UpdateQuotaBalance
  <1>9. ASSUME NEW s \in SessionIds, NEW n \in 0 .. sessions[s].reserved,
               SettleBillingSession(s, n)
        PROVE  TypeOK'
    <2>1. sessions[s] \in SessionType BY <1>9
    <2>2. n \in Nat /\ sessions[s].reserved - n \in Nat
      BY <1>9, <2>1 DEF SessionType
    <2>3. Stored(n) \in Nat BY <2>2, StoredType, n \in Int, SMT
    <2>4. balance' \in [Accounts -> Int] /\ used' \in [Accounts -> Nat]
      BY <1>9, <2>2, RefundReservedType DEF SettleBillingSession
    <2>5. sessions' \in [SessionIds -> SessionType]
      BY <1>9, <2>1, <2>3, ScopeIsAccount
      DEF SettleBillingSession, Finish, SessionType, Statuses
    <2>6. doubled' \in Nat BY <1>9, HalfType DEF SettleBillingSession
    <2> QED BY <1>9, <2>4, <2>5, <2>6 DEF SettleBillingSession
  <1>10. ASSUME NEW s \in SessionIds, RefundBillingSession(s) PROVE TypeOK'
    <2>1. sessions[s] \in SessionType BY <1>10
    <2>2. Stored(0) \in Nat BY StoredType, 0 \in Int, SMT
    <2>3. balance' \in [Accounts -> Int] /\ used' \in [Accounts -> Nat]
      BY <1>10, <2>1, RefundReservedType DEF RefundBillingSession, SessionType
    <2>4. sessions' \in [SessionIds -> SessionType]
      BY <1>10, <2>1, <2>2, ScopeIsAccount
      DEF RefundBillingSession, Finish, SessionType, Statuses
    <2> QED BY <1>10, <2>3, <2>4 DEF RefundBillingSession
  <1>11. ASSUME NEW u \in Users, SaveUsageLimitSettings(u) PROVE TypeOK'
    BY <1>11 DEF SaveUsageLimitSettings
  <1>12. ASSUME NEW u \in Users, NEW n \in {0} \cup Credits, UpdateUserQuota(u, n)
         PROVE  TypeOK'
    <2>1. u \in Accounts BY DEF Accounts
    <2>2. n - balance[u] \in Int BY <2>1, CreditsAssumption
    <2> QED BY <1>12, <2>1, <2>2, CreditType DEF UpdateUserQuota
  <1>13. ASSUME NEW n \in Credits, ApplyTopupCheckout(n) PROVE TypeOK'
    <2>1. n \in Int /\ Organization \in Accounts BY CreditIsNat DEF Accounts
    <2> QED BY <1>13, <2>1, CreditType DEF ApplyTopupCheckout
  <1>14. ASSUME NEW n \in Credits, ReverseTopup(n) PROVE TypeOK'
    <2>1. n \in Nat /\ -n \in Int /\ Organization \in Accounts BY CreditIsNat DEF Accounts
    <2> QED BY <1>14, <2>1, CreditType DEF ReverseTopup
  <1>15. CASE UNCHANGED vars BY <1>15 DEF vars
  <1> QED
    BY <1>1, <1>2, <1>3, <1>4, <1>5, <1>6, <1>7, <1>8, <1>9, <1>10, <1>11, <1>12, <1>13,
       <1>14, <1>15 DEF Next

\* Every variable keeps its type, rounding included.
THEOREM TypeCorrect == Spec => []TypeOK
PROOF
  <1>1. Init => TypeOK BY InitType
  <1>2. TypeOK /\ [Next]_vars => TypeOK' BY StepType
  <1> QED BY <1>1, <1>2, PTL DEF Spec

-----------------------------------------------------------------------------
(* Balances                                                                 *)

Sound(b, r) ==
  /\ \A u \in Users : b[u] >= 0
  /\ b[Organization] + r >= 0
  /\ \A a \in Accounts : b[a] % Grain = 0

\* Returning a reservation cannot overdraw the account it goes to.
LEMMA RefundReservedSound ==
  ASSUME TypeOK, NoOverdraft, WholeGrains,
         NEW s \in SessionIds, NEW n \in Nat, RefundReserved(s, n)
  PROVE  Sound(balance', reversed)
PROOF
  <1> DEFINE a == QuotaBalanceScope(sessions[s].user)
  <1>1. CASE n = 0 BY <1>1 DEF RefundReserved, NoOverdraft, WholeGrains, Sound
  <1>2. CASE n # 0
    <2>1. a \in Accounts BY ScopeIsAccount
    <2>2. balance[a] \in Int /\ balance[a] % Grain = 0 /\ reversed \in Nat
      BY <2>1 DEF TypeOK, WholeGrains
    <2>3. balance' = [balance EXCEPT ![a] = Stored(balance[a] + n)]
      BY <1>2, <2>1 DEF RefundReserved, TypeOK
    <2>4. Stored(balance[a] + n) >= balance[a] BY <2>2, StoredCredit
    <2>5. Stored(balance[a] + n) \in Int /\ Stored(balance[a] + n) % Grain = 0
      BY <2>2, StoredType, balance[a] + n \in Int
    <2>6. \A x \in Accounts : balance'[x] >= balance[x] /\ balance'[x] \in Int
      BY <2>1, <2>3, <2>4, <2>5 DEF TypeOK
    <2>7. \A x \in Accounts : balance'[x] % Grain = 0
      BY <2>1, <2>3, <2>5 DEF TypeOK, WholeGrains
    <2>8. \A u \in Users : balance'[u] >= 0
      BY <2>6 DEF NoOverdraft, TypeOK, Accounts
    <2>9. balance'[Organization] + reversed >= 0
      <3>1. Organization \in Accounts BY DEF Accounts
      <3>2. balance[Organization] \in Int BY <3>1 DEF TypeOK
      <3> QED BY <2>2, <2>6, <3>1, <3>2 DEF NoOverdraft
    <2> QED BY <2>7, <2>8, <2>9 DEF Sound
  <1> QED BY <1>1, <1>2

LEMMA StepBalance ==
  TypeOK /\ NoOverdraft /\ WholeGrains /\ [Next]_vars => NoOverdraft' /\ WholeGrains'
PROOF
  <1> SUFFICES ASSUME TypeOK, NoOverdraft, WholeGrains, [Next]_vars
               PROVE  Sound(balance', reversed')
    BY DEF Sound, NoOverdraft, WholeGrains
  <1>0. /\ Sound(balance, reversed) /\ reversed \in Nat
        /\ \A a \in Accounts : balance[a] \in Int /\ balance[a] % Grain = 0
        /\ balance \in [Accounts -> Int]
        /\ Organization \in Accounts /\ Organization \notin Users
        /\ Users \subseteq Accounts
    BY AccountsAssumption DEF Sound, NoOverdraft, WholeGrains, TypeOK, Accounts
  <1>1. CASE UNCHANGED <<balance, reversed>> BY <1>0, <1>1
  <1>2. ASSUME NEW c \in Callers, NEW s \in SessionIds, Reserve(c, s)
        PROVE  Sound(balance', reversed')
    <2> DEFINE a == calls[c].account
               n == calls[c].amount
    <2>1. a \in Accounts /\ n \in Nat /\ balance[a] >= n
      BY <1>2, AmountIsNat DEF Reserve, Affordable, TypeOK
    <2>2. balance[a] - n \in Nat BY <1>0, <2>1, SMT
    <2>3. /\ Stored(balance[a] - n) \in Int /\ Stored(balance[a] - n) % Grain = 0
          /\ Stored(balance[a] - n) >= 0
      BY <2>2, StoredType, balance[a] - n \in Int, balance[a] - n >= 0
    <2>4. balance' = [balance EXCEPT ![a] = Stored(balance[a] - n)] /\ reversed' = reversed
      BY <1>2 DEF Reserve
    <2>5. balance'[Organization] + reversed' >= 0
      BY <1>0, <2>1, <2>3, <2>4 DEF Sound
    <2> QED BY <1>0, <2>1, <2>3, <2>4, <2>5 DEF Sound
  <1>3. ASSUME NEW a \in Accounts, NEW n \in Int, Credit(a, n), reversed' = reversed,
               balance[a] + n >= balance[a] \/ (a \in Users /\ balance[a] + n >= 0)
        PROVE  Sound(balance', reversed')
    <2>1. balance' = [balance EXCEPT ![a] = Stored(balance[a] + n)]
      BY <1>3 DEF Credit
    <2>2. /\ Stored(balance[a] + n) \in Int /\ Stored(balance[a] + n) % Grain = 0
          /\ balance[a] + n >= 0 => Stored(balance[a] + n) >= 0
      BY <1>0, StoredType, balance[a] + n \in Int
    <2>3. CASE balance[a] + n >= balance[a]
      <3>1. n \in Nat BY <1>0, <2>3, SMT
      <3>2. Stored(balance[a] + n) >= balance[a] BY <1>0, <3>1, StoredCredit
      <3> QED BY <1>0, <1>3, <2>1, <2>2, <3>2 DEF Sound
    <2>4. CASE a \in Users /\ balance[a] + n >= 0
      BY <1>0, <1>3, <2>1, <2>2, <2>4 DEF Sound
    <2> QED BY <1>3, <2>3, <2>4
  <1>4. ASSUME NEW c \in Callers, UpdateQuotaBalance(c) PROVE Sound(balance', reversed')
    <2> DEFINE a == QuotaBalanceScope(calls[c].user)
    <2>1. CASE a \notin rows BY <1>0, <1>4, <2>1 DEF UpdateQuotaBalance
    <2>2. CASE a \in rows
      <3>1. a \in Accounts /\ calls[c].amount \in Nat BY ScopeIsAccount, AmountIsNat
      <3>2. Credit(a, calls[c].amount) /\ reversed' = reversed
        BY <1>4, <2>2 DEF UpdateQuotaBalance
      <3>3. balance[a] + calls[c].amount >= balance[a] BY <1>0, <3>1, SMT
      <3> QED BY <1>3, <3>1, <3>2, <3>3
    <2> QED BY <2>1, <2>2
  <1>5. ASSUME NEW n \in Credits, ApplyTopupCheckout(n) PROVE Sound(balance', reversed')
    <2>1. Credit(Organization, n) /\ reversed' = reversed BY <1>5 DEF ApplyTopupCheckout
    <2>2. n \in Int /\ balance[Organization] + n >= balance[Organization]
      BY <1>0, CreditIsNat, SMT
    <2> QED BY <1>0, <1>3, <2>1, <2>2
  <1>6. ASSUME NEW u \in Users, NEW n \in {0} \cup Credits, UpdateUserQuota(u, n)
        PROVE  Sound(balance', reversed')
    <2>1. Credit(u, n - balance[u]) /\ reversed' = reversed BY <1>6 DEF UpdateUserQuota
    <2>2. n \in Nat BY CreditIsNat
    <2>3. u \in Accounts /\ n - balance[u] \in Int /\ balance[u] + (n - balance[u]) >= 0
      BY <1>0, <2>2, SMT
    <2> QED BY <1>3, <2>1, <2>3
  <1>7. ASSUME NEW n \in Credits, ReverseTopup(n) PROVE Sound(balance', reversed')
    <2> DEFINE b == balance[Organization]
    <2>1. /\ balance' = [balance EXCEPT ![Organization] = Stored(b + (-n))]
          /\ reversed' = reversed + n
      BY <1>7 DEF ReverseTopup, Credit
    <2>2. n \in Nat /\ n % Grain = 0 /\ b \in Int /\ b % Grain = 0 BY <1>0, CreditIsNat
    <2>3. (b - n) % Grain = 0 BY <2>2, WholeSum, n \in Int
    <2>4. b + (-n) = b - n /\ b - n \in Int BY <2>2, SMT
    <2>5. PICK k \in Int : b - n = Grain * k BY <2>3, <2>4, WholeNumber
    <2>6. /\ Stored(b - n) \in Int /\ Stored(b - n) % Grain = 0 /\ Stored(b - n) >= b - n
      <3>1. Grain * k <= b - n BY <2>4, <2>5, SMT
      <3> QED BY <2>4, <2>5, <3>1, StoredBounds, StoredType
    <2>7. Stored(b - n) + (reversed + n) >= 0
      BY <1>0, <2>2, <2>6, SMT DEF Sound
    <2>8. balance' = [balance EXCEPT ![Organization] = Stored(b - n)]
      BY <2>1, <2>4
    <2> QED BY <1>0, <2>1, <2>6, <2>7, <2>8 DEF Sound
  <1>8. ASSUME NEW s \in SessionIds, NEW n \in 0 .. sessions[s].reserved,
               SettleBillingSession(s, n)
        PROVE  Sound(balance', reversed')
    <2>1. sessions[s].reserved \in Nat BY DEF TypeOK, SessionType
    <2>2. sessions[s].reserved - n \in Nat BY <2>1, SMT
    <2> QED BY <1>8, <2>2, RefundReservedSound DEF SettleBillingSession
  <1>9. ASSUME NEW s \in SessionIds, RefundBillingSession(s) PROVE Sound(balance', reversed')
    <2>1. sessions[s].reserved \in Nat BY DEF TypeOK, SessionType
    <2> QED BY <1>9, <2>1, RefundReservedSound DEF RefundBillingSession
  <1>10. CASE UNCHANGED vars BY <1>1, <1>10 DEF vars
  <1>11. ASSUME NEW c \in Callers,
                \/ \E u \in Users :
                     \/ \E n \in Amounts, k \in Keys \cup {NoKey} : PreConsume(c, u, k, n)
                     \/ \E n \in Credits : Topup(c, u, n)
                \/ GetOrCreateQuota(c) \/ ResolveScope(c)
                \/ ReserveInsufficient(c) \/ ReserveDuplicate(c) \/ ReadWinner(c)
                \/ AbandonCall(c)
         PROVE  Sound(balance', reversed')
    BY <1>1, <1>11 DEF PreConsume, Topup, GetOrCreateQuota, ResolveScope,
       ReserveInsufficient, ReserveDuplicate, ReadWinner, AbandonCall
  <1>12. ASSUME NEW u \in Users, SaveUsageLimitSettings(u) PROVE Sound(balance', reversed')
    BY <1>1, <1>12 DEF SaveUsageLimitSettings
  <1> QED
    BY <1>2, <1>4, <1>5, <1>6, <1>7, <1>8, <1>9, <1>10, <1>11, <1>12 DEF Next

-----------------------------------------------------------------------------
(* Idempotency keys                                                         *)

\* No session comes to own a key unless Reserve inserts it, and no session that
\* owns a key loses it.
KeysKept ==
  \A s \in SessionIds :
    /\ sessions'[s].key = sessions[s].key
    /\ sessions'[s].status = "absent" <=> sessions[s].status = "absent"

LEMMA FinishKeepsKeys ==
  ASSUME TypeOK, NEW s \in SessionIds, Open(s), NEW p \in {"settled", "refunded"},
         NEW n, Finish(s, p, n)
  PROVE  KeysKept
PROOF
  <1> DEFINE r == [sessions[s] EXCEPT !.status = p, !.settled = Stored(n),
                     !.returnedTo = IF n = sessions[s].reserved THEN NoAccount
                                    ELSE QuotaBalanceScope(sessions[s].user)]
  <1>1. sessions' = [sessions EXCEPT ![s] = r] BY DEF Finish
  <1>2. r.key = sessions[s].key /\ r.status = p BY DEF TypeOK, SessionType
  <1> HIDE DEF r
  <1> QED BY <1>1, <1>2 DEF KeysKept, Open, TypeOK

\* Keys stay with their sessions when neither moves and no call is answered.
LEMMA KeysKeptSuffices ==
  ASSUME OneSessionPerKey, AnswersOwnTheirKey, KeysKept,
         \A c \in Callers :
           calls'[c].pc = "answered" /\ calls'[c].key # NoKey =>
             \/ calls'[c] = calls[c]
             \/ /\ calls'[c].session \in SessionIds
                /\ sessions[calls'[c].session].status # "absent"
                /\ sessions[calls'[c].session].key = calls'[c].key
  PROVE  OneSessionPerKey' /\ AnswersOwnTheirKey'
PROOF BY DEF OneSessionPerKey, AnswersOwnTheirKey, KeysKept

\* A call is answered by a session that owns its key, and only Reserve adds one.
LEMMA StepKeys ==
  TypeOK /\ OneSessionPerKey /\ AnswersOwnTheirKey /\ [Next]_vars
    => OneSessionPerKey' /\ AnswersOwnTheirKey'
PROOF
  <1> SUFFICES ASSUME TypeOK, OneSessionPerKey, AnswersOwnTheirKey, [Next]_vars
               PROVE  OneSessionPerKey' /\ AnswersOwnTheirKey'
    OBVIOUS
  <1>0. /\ calls \in [Callers -> CallType] /\ sessions \in [SessionIds -> SessionType]
        /\ UNCHANGED sessions => KeysKept
    BY DEF TypeOK, KeysKept
  <1>1. ASSUME NEW c \in Callers, NEW u \in Users, NEW n \in Amounts,
               NEW k \in Keys \cup {NoKey}, PreConsume(c, u, k, n)
        PROVE  OneSessionPerKey' /\ AnswersOwnTheirKey'
    <2>1. CASE ~Duplicate(k)
      BY <1>0, <1>1, <2>1, KeysKeptSuffices DEF PreConsume, IdleCall
    <2>2. CASE Duplicate(k)
      <3>1. PICK s \in Existing(k) :
              calls' = [calls EXCEPT ![c] =
                [IdleCall EXCEPT !.pc = "answered", !.user = u, !.key = k,
                                 !.amount = n, !.session = s]]
        BY <1>1, <2>2 DEF PreConsume
      <3>2. calls'[c].session = s /\ calls'[c].key = k BY <1>0, <3>1 DEF IdleCall
      <3>3. \A d \in Callers : d # c => calls'[d] = calls[d] BY <1>0, <3>1
      <3> QED BY <1>0, <1>1, <3>2, <3>3, KeysKeptSuffices DEF PreConsume, Existing
    <2> QED BY <2>1, <2>2
  <1>2. ASSUME NEW c \in Callers,
               \/ \E u \in Users, n \in Credits : Topup(c, u, n)
               \/ GetOrCreateQuota(c) \/ ResolveScope(c)
               \/ ReserveInsufficient(c) \/ ReserveDuplicate(c) \/ AbandonCall(c)
        PROVE  OneSessionPerKey' /\ AnswersOwnTheirKey'
    <2>1. calls'[c].pc # "answered" /\ UNCHANGED sessions
      BY <1>0, <1>2 DEF CallType, Topup, GetOrCreateQuota, ResolveScope,
         ReserveInsufficient, ReserveDuplicate, AbandonCall, IdleCall
    <2>2. \A d \in Callers : d # c => calls'[d] = calls[d]
      BY <1>0, <1>2 DEF Topup, GetOrCreateQuota, ResolveScope,
         ReserveInsufficient, ReserveDuplicate, AbandonCall
    <2> QED BY <1>0, <2>1, <2>2, KeysKeptSuffices
  <1>3. ASSUME NEW c \in Callers, NEW s \in SessionIds, Reserve(c, s)
        PROVE  OneSessionPerKey' /\ AnswersOwnTheirKey'
    <2> DEFINE k == calls[c].key
    <2>1. /\ sessions'[s].key = k /\ sessions'[s].status = "preauthorized"
          /\ \A t \in SessionIds : t # s => sessions'[t] = sessions[t]
      BY <1>0, <1>3 DEF Reserve, AbsentSession
    <2>2. k # NoKey => \A t \in SessionIds : sessions[t].key = k => sessions[t].status = "absent"
      BY <1>3 DEF Reserve, Duplicate, Existing
    <2>3. OneSessionPerKey' BY <2>1, <2>2 DEF OneSessionPerKey
    <2>4. \A d \in Callers : d # c => calls'[d] = calls[d] BY <1>0, <1>3 DEF Reserve, Answer
    <2>5. calls'[c].pc = "answered" => calls'[c].key = k /\ calls'[c].session = s
      <3>1. calls[c] \in CallType BY <1>0
      <3>2. CASE Answer(c, s) BY <1>0, <3>1, <3>2 DEF Answer, CallType
      <3>3. CASE calls' = [calls EXCEPT ![c].pc = "failed"]
        BY <1>0, <3>1, <3>3 DEF CallType
      <3> QED BY <1>3, <3>2, <3>3 DEF Reserve
    <2>6. sessions[s].status = "absent" BY <1>3 DEF Reserve
    <2>7. AnswersOwnTheirKey'
      <3> SUFFICES ASSUME NEW d \in Callers, calls'[d].pc = "answered", calls'[d].key # NoKey
                   PROVE  /\ calls'[d].session \in SessionIds
                          /\ sessions'[calls'[d].session].status # "absent"
                          /\ sessions'[calls'[d].session].key = calls'[d].key
        BY DEF AnswersOwnTheirKey
      <3>1. CASE d = c BY <2>1, <2>5, <3>1
      <3>2. CASE d # c BY <2>1, <2>4, <2>6, <3>2 DEF AnswersOwnTheirKey
      <3> QED BY <3>1, <3>2
    <2> QED BY <2>3, <2>7
  <1>4. ASSUME NEW c \in Callers, ReadWinner(c)
        PROVE  OneSessionPerKey' /\ AnswersOwnTheirKey'
    <2>1. PICK s \in Existing(calls[c].key) : Answer(c, s) BY <1>4 DEF ReadWinner
    <2>2. /\ calls'[c].session = s /\ calls'[c].key = calls[c].key
          /\ \A d \in Callers : d # c => calls'[d] = calls[d]
      <3>1. calls[c] \in CallType BY <1>0
      <3> QED BY <1>0, <2>1, <3>1 DEF Answer, CallType
    <2> QED BY <1>0, <1>4, <2>2, KeysKeptSuffices DEF ReadWinner, Existing
  <1>5. ASSUME NEW c \in Callers, UpdateQuotaBalance(c)
        PROVE  OneSessionPerKey' /\ AnswersOwnTheirKey'
    <2>1. calls'[c].pc # "answered" /\ \A d \in Callers : d # c => calls'[d] = calls[d]
      <3>1. calls[c] \in CallType BY <1>0
      <3> QED BY <1>0, <1>5, <3>1 DEF UpdateQuotaBalance, CallType
    <2> QED BY <1>0, <1>5, <2>1, KeysKeptSuffices DEF UpdateQuotaBalance
  <1>6. ASSUME NEW s \in SessionIds,
               \/ \E n \in 0 .. sessions[s].reserved : SettleBillingSession(s, n)
               \/ RefundBillingSession(s)
        PROVE  OneSessionPerKey' /\ AnswersOwnTheirKey'
    <2>1. KeysKept /\ UNCHANGED calls
      <3>1. CASE \E n \in 0 .. sessions[s].reserved : SettleBillingSession(s, n)
        BY <3>1, FinishKeepsKeys DEF SettleBillingSession
      <3>2. CASE RefundBillingSession(s)
        BY <3>2, FinishKeepsKeys DEF RefundBillingSession
      <3> QED BY <1>6, <3>1, <3>2
    <2> QED BY <2>1, KeysKeptSuffices
  <1>7. CASE UNCHANGED <<sessions, calls>>
    BY <1>0, <1>7, KeysKeptSuffices
  <1>8. ASSUME NEW u \in Users,
               \/ SaveUsageLimitSettings(u)
               \/ \E n \in {0} \cup Credits : UpdateUserQuota(u, n)
        PROVE  UNCHANGED <<sessions, calls>>
    BY <1>8 DEF SaveUsageLimitSettings, UpdateUserQuota
  <1>9. ASSUME NEW n \in Credits, ApplyTopupCheckout(n) \/ ReverseTopup(n)
        PROVE  UNCHANGED <<sessions, calls>>
    BY <1>9 DEF ApplyTopupCheckout, ReverseTopup
  <1>10. CASE UNCHANGED vars BY <1>7, <1>10 DEF vars
  <1> QED BY <1>1, <1>2, <1>3, <1>4, <1>5, <1>6, <1>7, <1>8, <1>9, <1>10 DEF Next

-----------------------------------------------------------------------------
(* Sums over accounts and sessions                                          *)

LEMMA AccountsFinite == IsFiniteSet(Accounts)
PROOF BY AccountsAssumption, FS_Singleton, FS_Union DEF Accounts

\* Writing one account changes the total by as much.
LEMMA TotalExcept ==
  ASSUME NEW f \in [Accounts -> Int], NEW a \in Accounts, NEW v \in Int
  PROVE  Total(f) \in Int /\ Total([f EXCEPT ![a] = v]) = Total(f) - f[a] + v
PROOF
  <1> DEFINE g == [f EXCEPT ![a] = v]
  <1>1. \A x \in Accounts : f[x] \in Int /\ g[x] \in Int OBVIOUS
  <1>2. g[a] = v /\ \A x \in Accounts \ {a} : f[x] = g[x] OBVIOUS
  <1> HIDE DEF g
  <1>3. SumOf(g, Accounts) = SumOf(f, Accounts) - f[a] + g[a]
    BY <1>1, <1>2, AccountsFinite, SumChange
  <1>4. SumOf(f, Accounts) \in Int BY <1>1, AccountsFinite, SumType
  <1> QED BY <1>2, <1>3, <1>4 DEF Total, g

LEMMA OutstandingType == ASSUME NEW r \in SessionType PROVE Outstanding(r) \in Nat
PROOF BY DEF Outstanding, SessionType

\* Sessions take a natural number, and no less than each of them.
LEMMA HeldType ==
  ASSUME NEW ss \in [SessionIds -> SessionType], NEW S \in SUBSET SessionIds
  PROVE  Held(ss, S) \in Nat /\ \A s \in S : Outstanding(ss[s]) <= Held(ss, S)
PROOF
  <1> DEFINE f == [s \in S |-> Outstanding(ss[s])]
  <1>1. IsFiniteSet(S) BY SessionsAssumption, FS_Subset
  <1>2. \A s \in S : f[s] \in Nat /\ f[s] = Outstanding(ss[s]) BY OutstandingType
  <1>3. Held(ss, S) = SumOf(f, S) BY DEF Held
  <1> HIDE DEF f
  <1>4. SumOf(f, S) \in Nat /\ \A s \in S : f[s] <= SumOf(f, S) BY <1>1, <1>2, SumBounds
  <1> QED BY <1>2, <1>3, <1>4

\* When one of them changes, what they take changes by as much.
LEMMA HeldChange ==
  ASSUME NEW old \in [SessionIds -> SessionType], NEW new \in [SessionIds -> SessionType],
         NEW S \in SUBSET SessionIds, NEW s \in S, \A t \in S : t # s => new[t] = old[t]
  PROVE  Held(new, S) = Held(old, S) - Outstanding(old[s]) + Outstanding(new[s])
PROOF
  <1> DEFINE f == [t \in S |-> Outstanding(old[t])]
             g == [t \in S |-> Outstanding(new[t])]
  <1>1. IsFiniteSet(S) BY SessionsAssumption, FS_Subset
  <1>2. \A t \in S : f[t] \in Int /\ g[t] \in Int BY OutstandingType
  <1>3. \A t \in S \ {s} : f[t] = g[t] OBVIOUS
  <1>4. Held(new, S) = SumOf(g, S) /\ Held(old, S) = SumOf(f, S) BY DEF Held
  <1>5. f[s] = Outstanding(old[s]) /\ g[s] = Outstanding(new[s]) OBVIOUS
  <1> HIDE DEF f, g
  <1>6. SumOf(g, S) = SumOf(f, S) - f[s] + g[s] BY <1>1, <1>2, <1>3, SumChange
  <1> QED BY <1>4, <1>5, <1>6

\* Sessions that do not change take what they took.
LEMMA HeldSame ==
  ASSUME NEW old, NEW new, NEW S \in SUBSET SessionIds, \A t \in S : new[t] = old[t]
  PROVE  Held(new, S) = Held(old, S)
PROOF
  <1> DEFINE f == [t \in S |-> Outstanding(old[t])]
             g == [t \in S |-> Outstanding(new[t])]
  <1>1. IsFiniteSet(S) BY SessionsAssumption, FS_Subset
  <1>2. \A t \in S : f[t] = g[t] OBVIOUS
  <1>3. Held(new, S) = SumOf(g, S) /\ Held(old, S) = SumOf(f, S) BY DEF Held
  <1> HIDE DEF f, g
  <1> QED BY <1>1, <1>2, <1>3, SumAgrees

\* A session that joins them adds what it takes.
LEMMA HeldMore ==
  ASSUME NEW old \in [SessionIds -> SessionType], NEW new \in [SessionIds -> SessionType],
         NEW S \in SUBSET SessionIds, NEW s \in SessionIds, s \notin S,
         \A t \in S : new[t] = old[t]
  PROVE  Held(new, S \cup {s}) = Held(old, S) + Outstanding(new[s])
PROOF
  <1> DEFINE T == S \cup {s}
             f == [t \in T |-> Outstanding(new[t])]
             g == [t \in S |-> Outstanding(old[t])]
  <1>1. IsFiniteSet(T) /\ IsFiniteSet(S) BY SessionsAssumption, FS_Subset
  <1>2. \A t \in T : f[t] \in Int BY OutstandingType
  <1>3. \A t \in S : f[t] = g[t] OBVIOUS
  <1>4. Held(new, T) = SumOf(f, T) /\ Held(old, S) = SumOf(g, S) BY DEF Held
  <1>5. f[s] = Outstanding(new[s]) /\ s \in T /\ T \ {s} = S OBVIOUS
  <1>6. \A t \in S : g[t] \in Int BY OutstandingType
  <1> HIDE DEF f, g, T
  <1>7. SumOf(f, T) = f[s] + SumOf(f, T \ {s}) BY <1>1, <1>2, <1>5, SumRemove
  <1>8. SumOf(f, S) = SumOf(g, S) BY <1>1, <1>3, SumAgrees
  <1>9. SumOf(g, S) \in Int /\ f[s] \in Int BY <1>1, <1>2, <1>5, <1>6, SumType
  <1>10. SumOf(f, T \ {s}) = SumOf(g, S) BY <1>5, <1>8
  <1>11. Held(new, T) = Held(old, S) + Outstanding(new[s]) BY <1>4, <1>5, <1>7, <1>9, <1>10
  <1> QED BY <1>11 DEF T

-----------------------------------------------------------------------------
(* Money                                                                    *)

LEMMA InitMoney == Init => MoneyInv
PROOF
  <1> SUFFICES ASSUME Init PROVE MoneyInv OBVIOUS
  <1>0. Grain \in Nat \ {0} BY GrainAssumption
  <1>1. WholeColumns BY <1>0 DEF Init, WholeColumns, AbsentSession
  <1>2. Unreturned BY DEF Init, Unreturned, AbsentSession
  <1>3. \A S \in SUBSET SessionIds : Held(sessions, S) = 0
    <2> SUFFICES ASSUME NEW S \in SUBSET SessionIds PROVE Held(sessions, S) = 0 OBVIOUS
    <2>1. IsFiniteSet(S) BY SessionsAssumption, FS_Subset
    <2>2. [s \in S |-> Outstanding(sessions[s])] = [s \in S |-> 0]
      BY DEF Init, AbsentSession, Outstanding
    <2> QED BY <2>1, <2>2, SumZero DEF Held
  <1>4. Conservation
    <2>1. Total(balance) = 0 /\ Total(credited) = 0 BY AccountsFinite, SumZero DEF Total, Init
    <2>2. doubled = 0 BY DEF Init
    <2> QED BY <1>0, <1>3, <2>1, <2>2 DEF Conservation
  <1>5. UsedIsOutstanding BY <1>3 DEF Init, UsedIsOutstanding
  <1>6. WholeTopups BY DEF Init, WholeTopups, IdleCall
  <1> QED BY <1>1, <1>2, <1>4, <1>5, <1>6 DEF MoneyInv

BooksInv == WholeColumns /\ Unreturned /\ Conservation /\ UsedIsOutstanding

\* A step that leaves them alone keeps the books.
LEMMA BooksKept ==
  ASSUME MoneyInv, UNCHANGED <<balance, used, sessions, credited, doubled>>
  PROVE  BooksInv'
PROOF BY DEF MoneyInv, BooksInv, WholeColumns, Unreturned, Conservation, UsedIsOutstanding, Undisturbed

\* The accounts' steps: what is granted is credited, and only whole grains are.
LEMMA CreditKeeps ==
  ASSUME TypeOK, WholeGrains, Conservation, NEW a \in Accounts, NEW n \in Int, n % Grain = 0,
         Credit(a, n), UNCHANGED <<sessions, doubled>>
  PROVE  Conservation'
PROOF
  <1> DEFINE b == balance[a] + n
             c == credited[a] + n
  <1>1. /\ balance \in [Accounts -> Int] /\ credited \in [Accounts -> Int]
        /\ balance[a] \in Int /\ credited[a] \in Int /\ b \in Int /\ c \in Int
    BY DEF TypeOK
  <1>2. b % Grain = 0 BY <1>1, WholeSum DEF WholeGrains
  <1>3. Stored(b) = b BY <1>1, <1>2, StoredWhole
  <1>4. balance' = [balance EXCEPT ![a] = b] /\ credited' = [credited EXCEPT ![a] = c]
    BY <1>3 DEF Credit
  <1>5. Total(balance') = Total(balance) + n /\ Total(balance) \in Int
    <2>1. b = balance[a] + n OBVIOUS
    <2> HIDE DEF b, c
    <2>2. Total(balance') = Total(balance) - balance[a] + b /\ Total(balance) \in Int
      BY <1>1, <1>4, TotalExcept
    <2> QED BY <1>1, <2>1, <2>2
  <1>6. Total(credited') = Total(credited) + n /\ Total(credited) \in Int
    <2>1. c = credited[a] + n OBVIOUS
    <2> HIDE DEF b, c
    <2>2. Total(credited') = Total(credited) - credited[a] + c /\ Total(credited) \in Int
      BY <1>1, <1>4, TotalExcept
    <2> QED BY <1>1, <2>1, <2>2
  <1>7. Held(sessions, SessionIds) \in Nat /\ Grain * doubled \in Int
    BY HeldType, GrainAssumption DEF TypeOK
  <1> QED BY <1>5, <1>6, <1>7 DEF Conservation

\* A reservation moves what the session holds from the account to used.
LEMMA ReserveKeeps ==
  ASSUME LedgerInv, LedgerInv', MoneyInv, NEW c \in Callers, NEW s \in SessionIds, Reserve(c, s)
  PROVE  Conservation'
PROOF
  <1> DEFINE a == calls[c].account
             n == calls[c].amount
  <1>0. TypeOK /\ TypeOK' BY DEF LedgerInv
  <1>1. a \in Accounts /\ n \in Nat /\ n \in Int /\ balance[a] \in Int /\ balance[a] - n >= 0
    BY <1>0, AmountIsNat DEF Reserve, Affordable, TypeOK
  <1>2. balance[a] % Grain = 0 BY <1>1 DEF LedgerInv, WholeGrains
  <1>3. Stored(n) \in Int /\ Stored(balance[a] - n) \in Int BY <1>1, StoredType, balance[a] - n \in Int
  <1>4. Stored(balance[a] - n) + Stored(n) = balance[a] + Grain * Half(n)
    BY <1>1, <1>2, StoredApart
  <1>5. balance' = [balance EXCEPT ![a] = Stored(balance[a] - n)] BY DEF Reserve
  <1>6. Total(balance') = Total(balance) - balance[a] + Stored(balance[a] - n) /\ Total(balance) \in Int
    <2>1. balance \in [Accounts -> Int] BY <1>0 DEF TypeOK
    <2> HIDE DEF a, n
    <2> QED BY <1>1, <1>3, <1>5, <2>1, TotalExcept
  <1>7. /\ Outstanding(sessions[s]) = 0 /\ Outstanding(sessions'[s]) = Stored(n)
        /\ \A t \in SessionIds : t # s => sessions'[t] = sessions[t]
    BY <1>0 DEF Reserve, Outstanding, AbsentSession, TypeOK
  <1>8. Held(sessions', SessionIds) = Held(sessions, SessionIds) + Stored(n)
        /\ Held(sessions, SessionIds) \in Int
    <2>1. sessions \in [SessionIds -> SessionType] /\ sessions' \in [SessionIds -> SessionType]
      BY <1>0 DEF TypeOK
    <2>2. Held(sessions, SessionIds) \in Int BY <2>1, HeldType
    <2>3. Held(sessions', SessionIds)
            = Held(sessions, SessionIds) - Outstanding(sessions[s]) + Outstanding(sessions'[s])
      BY <1>7, <2>1, HeldChange
    <2> HIDE DEF n
    <2> QED BY <1>3, <1>7, <2>2, <2>3
  <1>9. Grain * doubled' = Grain * doubled + Grain * Half(n) /\ Grain * doubled \in Int
        /\ Grain * Half(n) \in Int
    <2>1. doubled' = doubled + Half(n) /\ doubled \in Nat BY <1>0 DEF Reserve, TypeOK
    <2>2. Half(n) \in {0, 1} BY HalfType
    <2> HIDE DEF n
    <2>3. CASE Half(n) = 0 BY <2>1, <2>3, GrainAssumption
    <2>4. CASE Half(n) = 1 BY <2>1, <2>4, GrainAssumption
    <2> QED BY <2>2, <2>3, <2>4
  <1>10. Total(credited') = Total(credited) /\ Total(credited) \in Int
    BY <1>0, SumType, AccountsFinite DEF Total, TypeOK, Reserve
  <1>11. Total(balance) + Held(sessions, SessionIds) = Total(credited) + Grain * doubled
    BY DEF MoneyInv, Conservation
  <1>12. Total(balance') + Held(sessions', SessionIds) = Total(credited') + Grain * doubled'
    <2> HIDE DEF a, n
    <2>1. Total(balance') + Held(sessions', SessionIds)
            = Total(balance) + Held(sessions, SessionIds)
              + (Stored(balance[a] - n) + Stored(n) - balance[a])
      BY <1>1, <1>3, <1>6, <1>8
    <2>2. Stored(balance[a] - n) + Stored(n) - balance[a] = Grain * Half(n)
      BY <1>1, <1>3, <1>4, <1>9
    <2>3. Total(balance') + Held(sessions', SessionIds)
            = Total(credited) + Grain * doubled + Grain * Half(n)
      BY <1>11, <2>1, <2>2
    <2> QED BY <1>9, <1>10, <2>3
  <1> QED BY <1>12 DEF Conservation

\* What a settlement or a refund of s does to the books; n is what it keeps.
Closes(s, n) ==
  /\ Open(s)
  /\ RefundReserved(s, sessions[s].reserved - n)
  /\ \A t \in SessionIds : t # s => sessions'[t] = sessions[t]
  /\ Outstanding(sessions'[s]) = Stored(n)
  /\ sessions'[s].charged = sessions[s].charged
  /\ sessions'[s].reserved = sessions[s].reserved
  /\ sessions'[s].settled = Stored(n)
  /\ sessions'[s].status \in {"settled", "refunded"}
  /\ sessions'[s].returnedTo = IF n = sessions[s].reserved THEN NoAccount
                               ELSE QuotaBalanceScope(sessions[s].user)
  /\ doubled' = doubled + IF HeldAfter(s, n) >= 0 THEN Half(n) ELSE 0
  /\ credited' = credited

LEMMA SettleCloses ==
  ASSUME TypeOK, NEW s \in SessionIds, NEW n \in 0 .. sessions[s].reserved,
         SettleBillingSession(s, n)
  PROVE  Closes(s, n)
PROOF
  <1>1. sessions \in [SessionIds -> SessionType] BY DEF TypeOK
  <1>2. sessions[s] \in SessionType BY <1>1
  <1> QED BY <1>1, <1>2 DEF SettleBillingSession, Finish, Closes, Outstanding, SessionType

LEMMA RefundCloses ==
  ASSUME TypeOK, NEW s \in SessionIds, RefundBillingSession(s)
  PROVE  Closes(s, 0)
PROOF
  <1>1. sessions \in [SessionIds -> SessionType] /\ doubled \in Nat BY DEF TypeOK
  <1>2. sessions[s] \in SessionType BY <1>1
  <1>3. sessions[s].reserved \in Nat BY <1>2 DEF SessionType
  <1>4. Stored(0) = 0 /\ Half(0) = 0
    <2>1. Grain \in Nat \ {0} /\ 0 % Grain = 0 BY GrainAssumption
    <2> QED BY <2>1, StoredWhole DEF Half
  <1>5. sessions[s].reserved - 0 = sessions[s].reserved BY <1>3
  <1> QED BY <1>1, <1>2, <1>4, <1>5 DEF RefundBillingSession, Finish, Closes, Outstanding, SessionType

LEMMA ClosingKeeps ==
  ASSUME LedgerInv, LedgerInv', MoneyInv, NEW s \in SessionIds,
         NEW n \in 0 .. sessions[s].reserved, Closes(s, n)
  PROVE  Conservation'
PROOF
  <1> DEFINE a == QuotaBalanceScope(sessions[s].user)
             r == sessions[s].reserved
             half == IF HeldAfter(s, n) >= 0 THEN Half(n) ELSE 0
  <1>0. TypeOK /\ TypeOK' BY DEF LedgerInv
  <1>1. /\ sessions \in [SessionIds -> SessionType] /\ sessions' \in [SessionIds -> SessionType]
        /\ balance \in [Accounts -> Int] /\ doubled \in Nat
    BY <1>0 DEF TypeOK
  <1>2. /\ a \in Accounts /\ balance[a] \in Int /\ balance[a] % Grain = 0
        /\ r \in Nat /\ r % Grain = 0 /\ n \in Nat /\ n <= r
    BY <1>0, <1>1, ScopeIsAccount DEF LedgerInv, WholeGrains, MoneyInv, WholeColumns, SessionType
  <1>3. Stored(n) \in Int BY <1>2, StoredType, n \in Int
  <1>4. half \in {0, 1} BY HalfType
  <1>5. Held(sessions', SessionIds) = Held(sessions, SessionIds) - r + Stored(n)
        /\ Held(sessions, SessionIds) \in Int
    <2>1. Outstanding(sessions[s]) = r BY DEF Closes, Open, Outstanding
    <2>2. Outstanding(sessions'[s]) = Stored(n) BY DEF Closes
    <2>3. Held(sessions, SessionIds) \in Int BY <1>1, HeldType
    <2>4. Held(sessions', SessionIds)
            = Held(sessions, SessionIds) - Outstanding(sessions[s]) + Outstanding(sessions'[s])
      BY <1>1, HeldChange DEF Closes
    <2> QED BY <2>1, <2>2, <2>3, <2>4
  <1>6. Total(balance') = Total(balance) + r - Stored(n) + Grain * half /\ Total(balance) \in Int
    <2>1. CASE n = r
      <3>1. UNCHANGED balance BY <1>2, <2>1 DEF Closes, RefundReserved
      <3>2. Stored(n) = r BY <1>2, <2>1, StoredWhole
      <3>3. Half(n) = 0 BY <1>2, <2>1, GrainAssumption DEF Half
      <3>4. half = 0 /\ Grain * 0 = 0 BY <3>3, GrainAssumption
      <3>5. Total(balance) \in Int BY <1>1, <1>2, TotalExcept
      <3> QED BY <1>2, <3>1, <3>2, <3>4, <3>5
    <2>2. CASE n # r
      <3> DEFINE b == balance[a] + r
      <3>1. r - n # 0 /\ balance[a] + (r - n) = b - n /\ b \in Int BY <1>2, <2>2
      <3>2. balance' = [balance EXCEPT ![a] = Stored(b - n)]
        <4>1. balance' = [balance EXCEPT ![a] = Stored(@ + (r - n))]
          BY <3>1 DEF Closes, RefundReserved
        <4> QED BY <1>1, <1>2, <3>1, <4>1
      <3>3. b % Grain = 0
        <4>1. r \in Int BY <1>2
        <4> HIDE DEF a, r
        <4> QED BY <1>2, <4>1, WholeSum
      <3>4. Stored(b - n) + Stored(n) = b + (IF b - n >= 0 THEN Grain * Half(n) ELSE 0)
        BY <1>2, <3>1, <3>3, StoredApart
      <3>5. HeldAfter(s, n) = b - n BY <1>2 DEF HeldAfter
      <3>6. (IF b - n >= 0 THEN Grain * Half(n) ELSE 0) = Grain * half
        BY <3>5, GrainAssumption
      <3>7. Stored(b - n) \in Int BY <1>2, <3>1, StoredType, b - n \in Int
      <3>8. Total(balance') = Total(balance) - balance[a] + Stored(b - n) /\ Total(balance) \in Int
        <4> HIDE DEF a, b
        <4> QED BY <1>1, <1>2, <3>2, <3>7, TotalExcept
      <3>9. Grain * half \in Int BY <1>4, GrainAssumption
      <3>10. b = balance[a] + r OBVIOUS
      <3> HIDE DEF a, b, r, half
      <3> QED BY <1>2, <1>3, <3>4, <3>6, <3>7, <3>8, <3>9, <3>10
    <2> QED BY <2>1, <2>2
  <1>7. /\ Grain * doubled' = Grain * doubled + Grain * half
        /\ Grain * doubled \in Int /\ Grain * half \in Int
    <2>1. doubled' = doubled + half BY DEF Closes
    <2> HIDE DEF half
    <2> QED BY <1>1, <1>4, <2>1, GrainAssumption
  <1>8. Total(credited') = Total(credited) /\ Total(credited) \in Int
    BY <1>0, SumType, AccountsFinite DEF Total, TypeOK, Closes
  <1>9. Total(balance) + Held(sessions, SessionIds) = Total(credited) + Grain * doubled
    BY DEF MoneyInv, Conservation
  <1>10. Total(balance') + Held(sessions', SessionIds) = Total(credited') + Grain * doubled'
    <2> HIDE DEF a, r, half
    <2> QED BY <1>2, <1>3, <1>5, <1>6, <1>7, <1>8, <1>9
  <1> QED BY <1>10 DEF Conservation

-----------------------------------------------------------------------------
(* quotas.used                                                              *)

ChargedTo(ss, a) == {s \in SessionIds : ss[s].charged = a}

\* A column that holds at least r keeps, when r - n is taken, what it held without r
\* and what it keeps of n.
LEMMA StoredRest ==
  ASSUME NEW u \in Nat, NEW r \in Nat, NEW n \in Nat, u % Grain = 0, r % Grain = 0,
         r <= u, n <= r
  PROVE  Stored(u - (r - n)) = u - r + Stored(n)
PROOF
  <1>1. u - r \in Nat /\ u \in Int /\ r \in Int OBVIOUS
  <1>2. (u - r) % Grain = 0 BY <1>1, WholeSum
  <1>3. Stored((u - r) + n) = (u - r) + Stored(n) BY <1>1, <1>2, StoredOnto
  <1>4. (u - r) + n = u - (r - n) OBVIOUS
  <1> QED BY <1>3, <1>4

LEMMA ReserveUses ==
  ASSUME LedgerInv, LedgerInv', MoneyInv, NEW c \in Callers, NEW s \in SessionIds, Reserve(c, s),
         NEW a \in Accounts, Undisturbed(a)'
  PROVE  used'[a] = Held(sessions', ChargedTo(sessions', a))
PROOF
  <1> DEFINE x == calls[c].account
             n == calls[c].amount
             S == ChargedTo(sessions, a)
  <1>0. TypeOK /\ TypeOK' BY DEF LedgerInv
  <1>1. /\ sessions \in [SessionIds -> SessionType] /\ sessions' \in [SessionIds -> SessionType]
        /\ used \in [Accounts -> Nat] /\ used[a] \in Nat /\ S \in SUBSET SessionIds
    BY <1>0 DEF TypeOK, ChargedTo
  <1>2. x \in Accounts /\ n \in Nat /\ used' = [used EXCEPT ![x] = Stored(used[x] + n)]
    BY <1>0, AmountIsNat DEF Reserve, Affordable, TypeOK
  <1>3. /\ sessions'[s].status = "preauthorized" /\ sessions'[s].charged = x
        /\ Outstanding(sessions'[s]) = Stored(n)
        /\ \A t \in SessionIds : t # s => sessions'[t] = sessions[t]
    BY <1>1 DEF Reserve, AbsentSession, Outstanding
  <1>4. sessions[s].charged = NoAccount /\ sessions[s].returnedTo = NoAccount
    BY DEF Reserve, MoneyInv, Unreturned
  <1>5. NoAccount \notin Accounts BY AccountsAssumption DEF Accounts
  <1>6. used[a] = Held(sessions, S)
    <2>1. Undisturbed(a) BY <1>3, <1>4 DEF Undisturbed
    <2> QED BY <2>1 DEF MoneyInv, UsedIsOutstanding, ChargedTo
  <1>7. s \notin S /\ \A t \in S : sessions'[t] = sessions[t] BY <1>3, <1>4, <1>5 DEF ChargedTo
  <1>8. CASE a # x
    <2>1. ChargedTo(sessions', a) = S BY <1>3, <1>4, <1>5, <1>8 DEF ChargedTo
    <2>2. Held(sessions', S) = Held(sessions, S)
      <3> HIDE DEF S
      <3> QED BY <1>1, <1>7, HeldSame
    <2>3. used'[a] = used[a] BY <1>1, <1>2, <1>8
    <2> QED BY <1>6, <2>1, <2>2, <2>3
  <1>9. CASE a = x
    <2>1. ChargedTo(sessions', a) = S \cup {s} BY <1>3, <1>9 DEF ChargedTo
    <2>2. Held(sessions', S \cup {s}) = Held(sessions, S) + Stored(n)
      <3> HIDE DEF S
      <3>1. Held(sessions', S \cup {s}) = Held(sessions, S) + Outstanding(sessions'[s])
        BY <1>1, <1>7, HeldMore
      <3> QED BY <1>3, <3>1
    <2>3. used'[a] = Stored(used[a] + n) BY <1>1, <1>2, <1>9
    <2>4. used[a] % Grain = 0 BY DEF MoneyInv, WholeColumns
    <2>5. Stored(used[a] + n) = used[a] + Stored(n) BY <1>1, <1>2, <2>4, StoredOnto
    <2> QED BY <1>6, <2>1, <2>2, <2>3, <2>5
  <1> QED BY <1>8, <1>9

LEMMA ClosingUses ==
  ASSUME LedgerInv, LedgerInv', MoneyInv, NEW s \in SessionIds,
         NEW n \in 0 .. sessions[s].reserved, Closes(s, n), NEW a \in Accounts, Undisturbed(a)'
  PROVE  used'[a] = Held(sessions', ChargedTo(sessions', a))
PROOF
  <1> DEFINE x == QuotaBalanceScope(sessions[s].user)
             r == sessions[s].reserved
             S == ChargedTo(sessions, a)
  <1>0. TypeOK /\ TypeOK' BY DEF LedgerInv
  <1>1. /\ sessions \in [SessionIds -> SessionType] /\ sessions' \in [SessionIds -> SessionType]
        /\ used \in [Accounts -> Nat] /\ used[a] \in Nat /\ S \in SUBSET SessionIds
    BY <1>0 DEF TypeOK, ChargedTo
  <1>2. /\ x \in Accounts /\ r \in Nat /\ r % Grain = 0 /\ n \in Nat /\ n <= r
        /\ used[a] % Grain = 0
    BY <1>0, <1>1, ScopeIsAccount DEF MoneyInv, WholeColumns, SessionType
  <1>3. /\ \A t \in SessionIds : t # s => sessions'[t] = sessions[t]
        /\ sessions'[s].charged = sessions[s].charged
        /\ Outstanding(sessions[s]) = r /\ Outstanding(sessions'[s]) = Stored(n)
        /\ sessions'[s].returnedTo = IF n = r THEN NoAccount ELSE x
    BY DEF Closes, Open, Outstanding
  <1>4. sessions[s].returnedTo = NoAccount BY DEF Closes, Open, MoneyInv, Unreturned
  <1>5. NoAccount \notin Accounts BY AccountsAssumption DEF Accounts
  <1>6. used[a] = Held(sessions, S)
    <2>1. Undisturbed(a) BY <1>3, <1>4 DEF Undisturbed
    <2> QED BY <2>1 DEF MoneyInv, UsedIsOutstanding, ChargedTo
  <1>7. ChargedTo(sessions', a) = S BY <1>3 DEF ChargedTo
  <1>8. s \in S <=> sessions[s].charged = a BY DEF ChargedTo
  <1>9. used' = IF n = r THEN used
                ELSE [used EXCEPT ![x] = IF used[x] >= r - n THEN Stored(used[x] - (r - n)) ELSE 0]
    BY <1>1, <1>2 DEF Closes, RefundReserved
  <1>10. CASE s \notin S
    <2>1. used'[a] = used[a]
      <3>1. n # r => x # a BY <1>2, <1>3, <1>5, <1>8, <1>10 DEF Undisturbed
      <3> QED BY <1>1, <1>9, <3>1
    <2>2. Held(sessions', S) = Held(sessions, S)
      <3>1. \A t \in S : sessions'[t] = sessions[t] BY <1>1, <1>3, <1>10
      <3> HIDE DEF S
      <3> QED BY <1>1, <3>1, HeldSame
    <2> QED BY <1>6, <1>7, <2>1, <2>2
  <1>11. CASE s \in S
    <2>1. Held(sessions', S) = Held(sessions, S) - r + Stored(n) /\ r <= Held(sessions, S)
      <3> HIDE DEF S, r
      <3>1. Held(sessions', S) = Held(sessions, S) - Outstanding(sessions[s]) + Outstanding(sessions'[s])
        BY <1>1, <1>3, <1>11, HeldChange
      <3>2. Outstanding(sessions[s]) <= Held(sessions, S) BY <1>1, <1>11, HeldType
      <3> QED BY <1>3, <3>1, <3>2
    <2>2. CASE n = r
      <3>1. Stored(n) = n BY <1>2, <2>2, StoredWhole
      <3> HIDE DEF S, r
      <3> QED BY <1>1, <1>2, <1>6, <1>7, <1>9, <2>1, <2>2, <3>1
    <2>3. CASE n # r
      <3>1. x = a BY <1>2, <1>3, <1>5, <1>8, <1>11, <2>3 DEF Undisturbed
      <3>2. r <= used[a] /\ used[a] >= r - n BY <1>1, <1>2, <1>6, <2>1
      <3>3. used'[a] = Stored(used[a] - (r - n)) BY <1>1, <1>9, <2>3, <3>1, <3>2
      <3>4. Stored(used[a] - (r - n)) = used[a] - r + Stored(n) BY <1>1, <1>2, <3>2, StoredRest
      <3> QED BY <1>6, <1>7, <2>1, <3>3, <3>4
    <2> QED BY <2>2, <2>3
  <1> QED BY <1>10, <1>11

\* The parts of MoneyInv other than Conservation, for one session or account.
LEMMA ColumnsSuffice ==
  ASSUME \A a \in Accounts : used'[a] % Grain = 0,
         \A s \in SessionIds :
           \/ sessions'[s] = sessions[s]
           \/ /\ sessions'[s].reserved % Grain = 0 /\ sessions'[s].settled % Grain = 0
              /\ sessions'[s].status # "absent"
              /\ sessions'[s].status = "preauthorized" => sessions'[s].returnedTo = NoAccount,
         MoneyInv
  PROVE  WholeColumns' /\ Unreturned'
PROOF BY DEF MoneyInv, WholeColumns, Unreturned

LEMMA StepBooks ==
  ASSUME LedgerInv, LedgerInv', MoneyInv, [Next]_vars
  PROVE  BooksInv'
PROOF
  <1>0. TypeOK /\ TypeOK' /\ WholeGrains BY DEF LedgerInv
  <1>1. Grain \in Nat \ {0} BY GrainAssumption
  <1>2. ASSUME NEW c \in Callers, NEW s \in SessionIds, Reserve(c, s) PROVE BooksInv'
    <2> DEFINE x == calls[c].account
               n == calls[c].amount
    <2>1. x \in Accounts /\ n \in Nat /\ used[x] \in Nat
      BY <1>0, <1>2, AmountIsNat DEF Reserve, Affordable, TypeOK
    <2>2. used' = [used EXCEPT ![x] = Stored(used[x] + n)] BY <1>2 DEF Reserve
    <2>3. Stored(used[x] + n) % Grain = 0 /\ Stored(n) % Grain = 0
      BY <2>1, StoredType, used[x] + n \in Int, n \in Int
    <2>4. \A a \in Accounts : used'[a] % Grain = 0
      <3>1. \A a \in Accounts : used[a] % Grain = 0 BY DEF MoneyInv, WholeColumns
      <3> QED BY <1>0, <2>2, <2>3, <3>1 DEF TypeOK
    <2>5. /\ \A t \in SessionIds : t # s => sessions'[t] = sessions[t]
          /\ sessions'[s].reserved = Stored(n) /\ sessions'[s].settled = 0
          /\ sessions'[s].status = "preauthorized" /\ sessions'[s].returnedTo = NoAccount
      BY <1>0, <1>2 DEF Reserve, AbsentSession, TypeOK
    <2>6. 0 % Grain = 0 BY <1>1
    <2>7. WholeColumns' /\ Unreturned'
      <3> HIDE DEF n
      <3> QED BY <2>3, <2>4, <2>5, <2>6, ColumnsSuffice
    <2>8. Conservation' BY <1>2, ReserveKeeps
    <2>9. UsedIsOutstanding' BY <1>2, ReserveUses DEF UsedIsOutstanding, ChargedTo
    <2> QED BY <2>7, <2>8, <2>9 DEF BooksInv
  <1>3. ASSUME NEW s \in SessionIds, NEW n \in 0 .. sessions[s].reserved, Closes(s, n)
        PROVE  BooksInv'
    <2> DEFINE x == QuotaBalanceScope(sessions[s].user)
               r == sessions[s].reserved
    <2>1. x \in Accounts /\ r \in Nat /\ n \in Nat /\ n <= r /\ used[x] \in Nat
      <3>1. sessions[s] \in SessionType BY <1>0 DEF TypeOK
      <3> QED BY <1>0, <3>1, ScopeIsAccount DEF TypeOK, SessionType
    <2>2. Stored(n) % Grain = 0 BY <2>1, StoredType, n \in Int
    <2>3. \A a \in Accounts : used'[a] % Grain = 0
      <3>1. \A a \in Accounts : used[a] % Grain = 0 BY DEF MoneyInv, WholeColumns
      <3>2. CASE n = r BY <1>3, <2>1, <3>1, <3>2 DEF Closes, RefundReserved
      <3>3. CASE n # r
        <4> DEFINE v == IF used[x] >= r - n THEN Stored(used[x] - (r - n)) ELSE 0
        <4>1. used' = [used EXCEPT ![x] = v]
          BY <1>0, <1>3, <2>1, <3>3 DEF Closes, RefundReserved, TypeOK
        <4>2. v % Grain = 0
          <5>1. Stored(used[x] - (r - n)) % Grain = 0
            BY <2>1, StoredType, used[x] - (r - n) \in Int
          <5>2. 0 % Grain = 0 BY <1>1
          <5> QED BY <5>1, <5>2
        <4> HIDE DEF v
        <4> QED BY <1>0, <3>1, <4>1, <4>2 DEF TypeOK
      <3> QED BY <3>2, <3>3
    <2>4. sessions'[s].reserved % Grain = 0 /\ sessions'[s].settled % Grain = 0
      BY <1>3, <2>2 DEF Closes, MoneyInv, WholeColumns
    <2>5. /\ \A t \in SessionIds : t # s => sessions'[t] = sessions[t]
          /\ sessions'[s].status \in {"settled", "refunded"}
      BY <1>3 DEF Closes
    <2>6. WholeColumns' /\ Unreturned' BY <2>3, <2>4, <2>5, ColumnsSuffice
    <2>7. Conservation' BY <1>3, ClosingKeeps
    <2>8. UsedIsOutstanding' BY <1>3, ClosingUses DEF UsedIsOutstanding, ChargedTo
    <2> QED BY <2>6, <2>7, <2>8 DEF BooksInv
  <1>4. ASSUME NEW a \in Accounts, NEW n \in Int, n % Grain = 0, Credit(a, n),
               UNCHANGED <<used, sessions, doubled>>
        PROVE  BooksInv'
    <2>1. Conservation' BY <1>0, <1>4, CreditKeeps DEF MoneyInv
    <2>2. WholeColumns' /\ Unreturned' /\ UsedIsOutstanding'
      BY <1>4 DEF MoneyInv, WholeColumns, Unreturned, UsedIsOutstanding, Undisturbed
    <2> QED BY <2>1, <2>2 DEF BooksInv
  <1>5. CASE UNCHANGED <<balance, used, sessions, credited, doubled>> BY <1>5, BooksKept
  <1>6. ASSUME NEW s \in SessionIds, NEW n \in 0 .. sessions[s].reserved,
               SettleBillingSession(s, n)
        PROVE  BooksInv'
    BY <1>0, <1>3, <1>6, SettleCloses
  <1>7. ASSUME NEW s \in SessionIds, RefundBillingSession(s) PROVE BooksInv'
    <2>1. sessions[s] \in SessionType BY <1>0 DEF TypeOK
    <2>2. 0 \in 0 .. sessions[s].reserved BY <2>1 DEF SessionType
    <2> QED BY <1>0, <1>3, <1>7, <2>2, RefundCloses
  <1>8. ASSUME NEW c \in Callers, UpdateQuotaBalance(c) PROVE BooksInv'
    <2> DEFINE a == QuotaBalanceScope(calls[c].user)
    <2>1. CASE a \notin rows BY <1>5, <1>8, <2>1 DEF UpdateQuotaBalance
    <2>2. CASE a \in rows
      <3>1. a \in Accounts BY <1>0, ScopeIsAccount
      <3>2. Credit(a, calls[c].amount) /\ UNCHANGED <<used, sessions, doubled>>
        BY <1>8, <2>2 DEF UpdateQuotaBalance
      <3>3. calls[c].amount \in Int /\ calls[c].amount % Grain = 0
        BY <1>8, CreditIsNat DEF UpdateQuotaBalance, MoneyInv, WholeTopups
      <3> QED BY <1>4, <3>1, <3>2, <3>3
    <2> QED BY <2>1, <2>2
  <1>9. ASSUME NEW n \in Credits, ApplyTopupCheckout(n) \/ ReverseTopup(n) PROVE BooksInv'
    <2>1. n \in Int /\ n % Grain = 0 /\ -n \in Int /\ (-n) % Grain = 0
      BY CreditIsNat, WholeSum, n \in Int
    <2>2. Organization \in Accounts BY DEF Accounts
    <2>3. Credit(Organization, n) \/ Credit(Organization, -n)
      BY <1>9 DEF ApplyTopupCheckout, ReverseTopup
    <2>4. UNCHANGED <<used, sessions, doubled>> BY <1>9 DEF ApplyTopupCheckout, ReverseTopup
    <2> QED BY <1>4, <2>1, <2>2, <2>3, <2>4
  <1>10. ASSUME NEW u \in Users, NEW n \in {0} \cup Credits, UpdateUserQuota(u, n)
         PROVE  BooksInv'
    <2>1. u \in Accounts BY DEF Accounts
    <2>2. n \in Int /\ n % Grain = 0 /\ balance[u] \in Int /\ balance[u] % Grain = 0
      BY <1>0, <1>1, <2>1, CreditIsNat DEF TypeOK, WholeGrains
    <2>3. (n - balance[u]) % Grain = 0 BY <2>2, WholeSum
    <2>4. n - balance[u] \in Int BY <2>2
    <2> QED BY <1>4, <1>10, <2>1, <2>3, <2>4 DEF UpdateUserQuota
  <1>11. ASSUME NEW c \in Callers,
                \/ \E u \in Users :
                     \/ \E n \in Amounts, k \in Keys \cup {NoKey} : PreConsume(c, u, k, n)
                     \/ \E n \in Credits : Topup(c, u, n)
                \/ GetOrCreateQuota(c) \/ ResolveScope(c)
                \/ ReserveInsufficient(c) \/ ReserveDuplicate(c) \/ ReadWinner(c)
                \/ AbandonCall(c)
         PROVE  BooksInv'
    BY <1>5, <1>11 DEF PreConsume, Topup, GetOrCreateQuota, ResolveScope,
       ReserveInsufficient, ReserveDuplicate, ReadWinner, AbandonCall
  <1>12. ASSUME NEW u \in Users, SaveUsageLimitSettings(u) PROVE BooksInv'
    BY <1>5, <1>12 DEF SaveUsageLimitSettings
  <1>13. CASE UNCHANGED vars BY <1>5, <1>13 DEF vars
  <1> QED
    BY <1>2, <1>6, <1>7, <1>8, <1>9, <1>10, <1>11, <1>12, <1>13 DEF Next

LEMMA StepTopups == TypeOK /\ WholeTopups /\ [Next]_vars => WholeTopups'
PROOF
  <1> SUFFICES ASSUME TypeOK, WholeTopups, [Next]_vars, NEW c \in Callers,
                      calls'[c].pc \in {"ensureTopup", "topup"}
               PROVE  calls'[c].amount \in Credits
    BY DEF WholeTopups
  <1>1. calls \in [Callers -> CallType] /\ calls[c] \in CallType BY DEF TypeOK
  <1>2. calls[c].pc \in {"ensureTopup", "topup"} => calls[c].amount \in Credits
    BY DEF WholeTopups
  <1>3. ASSUME NEW d \in Callers, NEW u \in Users, NEW n \in Credits, Topup(d, u, n)
        PROVE  calls'[c].amount \in Credits
    BY <1>1, <1>2, <1>3 DEF Topup, IdleCall
  <1>4. ASSUME NEW d \in Callers, GetOrCreateQuota(d) PROVE calls'[c].amount \in Credits
    BY <1>1, <1>2, <1>4 DEF GetOrCreateQuota, CallType
  <1>5. ASSUME NEW d \in Callers, NEW u \in Users, NEW n \in Amounts,
               NEW k \in Keys \cup {NoKey}, PreConsume(d, u, k, n)
        PROVE  calls'[c].amount \in Credits
    <2>1. c # d => calls'[c] = calls[c] BY <1>1, <1>5 DEF PreConsume
    <2>2. calls'[d].pc \in {"answered", "ensure"} BY <1>1, <1>5 DEF PreConsume, IdleCall
    <2> QED BY <1>2, <2>1, <2>2
  <1>6. ASSUME NEW d \in Callers,
               \/ ResolveScope(d) \/ ReserveInsufficient(d) \/ ReserveDuplicate(d)
               \/ ReadWinner(d) \/ AbandonCall(d) \/ UpdateQuotaBalance(d)
               \/ \E s \in SessionIds : Reserve(d, s)
        PROVE  calls'[c].amount \in Credits
    <2>1. c # d => calls'[c] = calls[c]
      BY <1>1, <1>6 DEF ResolveScope, ReserveInsufficient, ReserveDuplicate, ReadWinner,
         AbandonCall, UpdateQuotaBalance, Reserve, Answer
    <2>2. calls'[d].pc \in {"reserve", "failed", "reread", "answered", "credited"}
      BY <1>1, <1>6 DEF ResolveScope, ReserveInsufficient, ReserveDuplicate, ReadWinner,
         AbandonCall, UpdateQuotaBalance, Reserve, Answer, CallType
    <2> QED BY <1>2, <2>1, <2>2
  <1>7. CASE UNCHANGED calls BY <1>2, <1>7
  <1>8. ASSUME NEW u \in Users,
               \/ SaveUsageLimitSettings(u)
               \/ \E n \in {0} \cup Credits : UpdateUserQuota(u, n)
        PROVE  UNCHANGED calls
    BY <1>8 DEF SaveUsageLimitSettings, UpdateUserQuota
  <1>9. ASSUME NEW n \in Credits, ApplyTopupCheckout(n) \/ ReverseTopup(n)
        PROVE  UNCHANGED calls
    BY <1>9 DEF ApplyTopupCheckout, ReverseTopup
  <1>10. ASSUME NEW s \in SessionIds,
                \/ \E n \in 0 .. sessions[s].reserved : SettleBillingSession(s, n)
                \/ RefundBillingSession(s)
         PROVE  UNCHANGED calls
    BY <1>10 DEF SettleBillingSession, RefundBillingSession
  <1> QED BY <1>3, <1>4, <1>5, <1>6, <1>7, <1>8, <1>9, <1>10 DEF Next, vars

LEMMA StepMoney ==
  ASSUME LedgerInv, LedgerInv', MoneyInv, [Next]_vars
  PROVE  MoneyInv'
PROOF
  <1>1. BooksInv' BY StepBooks
  <1>2. WholeTopups' BY StepTopups DEF LedgerInv, MoneyInv
  <1> QED BY <1>1, <1>2 DEF BooksInv, MoneyInv

-----------------------------------------------------------------------------
(* The invariant                                                            *)

\* Balances are sound whole grains and every key has one owner, in every state.
THEOREM LedgerInvariant == Spec => []LedgerInv
PROOF
  <1>1. Init => LedgerInv
    <2> SUFFICES ASSUME Init PROVE LedgerInv OBVIOUS
    <2>1. TypeOK BY InitType
    <2>2. NoOverdraft BY DEF Init, NoOverdraft, Accounts
    <2>3. WholeGrains BY GrainAssumption DEF Init, WholeGrains
    <2>4. OneSessionPerKey /\ AnswersOwnTheirKey
      BY DEF Init, OneSessionPerKey, AnswersOwnTheirKey, AbsentSession, IdleCall
    <2> QED BY <2>1, <2>2, <2>3, <2>4 DEF LedgerInv
  <1>2. LedgerInv /\ [Next]_vars => LedgerInv'
    BY StepType, StepBalance, StepKeys DEF LedgerInv
  <1> QED BY <1>1, <1>2, PTL DEF Spec

\* The books balance, whole grains in every column they are written to.
THEOREM MoneyInvariant == Spec => [](LedgerInv /\ MoneyInv)
PROOF
  <1>1. Init => MoneyInv BY InitMoney
  <1>2. LedgerInv /\ LedgerInv' /\ MoneyInv /\ [Next]_vars => MoneyInv' BY StepMoney
  <1> QED BY <1>1, <1>2, LedgerInvariant, PTL DEF Spec

\* No interleaving of reservations, settlements, refunds, credits and changes of scope
\* loses money or creates any but the grain of a half rounded up twice.
THEOREM MoneyConserved == Spec => []Conservation
PROOF
  <1>1. MoneyInv => Conservation BY DEF MoneyInv
  <1> QED BY <1>1, MoneyInvariant, PTL

\* quotas.used of an account that no refund crossed is what its sessions hold or spent.
THEOREM UsedAgrees == Spec => []UsedIsOutstanding
PROOF
  <1>1. MoneyInv => UsedIsOutstanding BY DEF MoneyInv
  <1> QED BY <1>1, MoneyInvariant, PTL

\* Concurrent reservations never overspend an account, whatever the number of
\* callers and however amounts round.
THEOREM NeverOverdrawn == Spec => []NoOverdraft
PROOF
  <1>1. LedgerInv => NoOverdraft BY DEF LedgerInv
  <1> QED BY <1>1, LedgerInvariant, PTL

\* A key never owns two sessions.
THEOREM KeyOwnsOneSession == Spec => []OneSessionPerKey
PROOF
  <1>1. LedgerInv => OneSessionPerKey BY DEF LedgerInv
  <1> QED BY <1>1, LedgerInvariant, PTL

\* Every call of PreConsume that shares a key is answered with one session.
THEOREM DuplicatesAgree == Spec => []AnswersAgree
PROOF
  <1>1. LedgerInv => AnswersAgree
    BY DEF LedgerInv, OneSessionPerKey, AnswersOwnTheirKey, AnswersAgree
  <1> QED BY <1>1, LedgerInvariant, PTL

\* No step of any actor changes a session that settled or was refunded.
THEOREM FinishedStaysFinished == Spec => FinishedIsFinal
PROOF
  <1> DEFINE A == \A s \in SessionIds :
                    sessions[s].status \in {"settled", "refunded"} => sessions'[s] = sessions[s]
  <1>1. TypeOK /\ [Next]_vars => [A]_vars
    <2> SUFFICES ASSUME TypeOK, Next, NEW s \in SessionIds,
                        sessions[s].status \in {"settled", "refunded"}
                 PROVE  sessions'[s] = sessions[s]
      OBVIOUS
    <2>0. sessions \in [SessionIds -> SessionType] BY DEF TypeOK
    <2>1. ASSUME NEW t \in SessionIds, NEW n, NEW p, Open(t), Finish(t, p, n)
          PROVE  sessions'[s] = sessions[s]
      BY <2>0, <2>1 DEF Open, Finish
    <2>2. ASSUME NEW c \in Callers, NEW t \in SessionIds, Reserve(c, t)
          PROVE  sessions'[s] = sessions[s]
      BY <2>0, <2>2 DEF Reserve
    <2>3. CASE UNCHANGED sessions BY <2>3
    <2>4. ASSUME NEW t \in SessionIds, NEW n, SettleBillingSession(t, n)
          PROVE  sessions'[s] = sessions[s]
      BY <2>1, <2>4 DEF SettleBillingSession
    <2>5. ASSUME NEW t \in SessionIds, RefundBillingSession(t)
          PROVE  sessions'[s] = sessions[s]
      BY <2>1, <2>5 DEF RefundBillingSession
    <2> QED BY <2>2, <2>3, <2>4, <2>5
        DEF Next, PreConsume, Topup, GetOrCreateQuota, ResolveScope, ReserveInsufficient,
            ReserveDuplicate, ReadWinner, AbandonCall, UpdateQuotaBalance,
            SaveUsageLimitSettings, UpdateUserQuota, ApplyTopupCheckout, ReverseTopup
  <1> QED BY <1>1, TypeCorrect, PTL DEF Spec, FinishedIsFinal

-----------------------------------------------------------------------------
(* What the steps do                                                        *)

LEMMA Returned == ASSUME NEW f \in Refunds
                  PROVE  Returns[f].intent \in Intents /\ Returns[f].amount \in Nat \ {0}
PROOF BY RefundsAssumption

\* A refund's total is capped at what was paid.
LEMMA AfterRefundCaps ==
  ASSUME NEW i \in Intents, NEW n \in Nat
  PROVE  /\ AfterRefund(i, n) \in [status : RowStatuses, refunded : Nat]
         /\ AfterRefund(i, n).refunded = IF n > Amount[i] THEN Amount[i] ELSE n
         /\ AfterRefund(i, n).refunded <= Amount[i]
PROOF
  <1>1. Amount[i] \in Nat BY IntentsAssumption
  <1>2. CASE n > Amount[i] BY <1>1, <1>2 DEF AfterRefund, RowStatuses
  <1>3. CASE ~(n > Amount[i]) BY <1>1, <1>3 DEF AfterRefund, RowStatuses
  <1> QED BY <1>2, <1>3

LEMMA ReverseEffect ==
  ASSUME PaymentTypeOK, NEW n \in Nat, Reverse(n)
  PROVE  quota' \in [exists : BOOLEAN, balance : Int] /\ vain' \in Nat
PROOF
  <1>1. quota.balance \in Int /\ vain \in Nat /\ quota.balance - n \in Int /\ vain + n \in Nat
    BY DEF PaymentTypeOK
  <1>2. CASE quota.exists BY <1>1, <1>2 DEF Reverse, PaymentTypeOK
  <1>3. CASE ~quota.exists BY <1>1, <1>3 DEF Reverse, PaymentTypeOK
  <1> QED BY <1>2, <1>3

LEMMA AnswerEffect ==
  ASSUME PaymentTypeOK, ProgressInv, NEW d \in deliveries, AnswerDelivery(d)
  PROVE  /\ d.event \in Events /\ d.event \in recorded
         /\ deliveries' \subseteq deliveries
         /\ acked' \subseteq recorded
         /\ UNCHANGED <<request, happened, recorded>>
PROOF BY DEF AnswerDelivery, PaymentTypeOK, ProgressInv

\* A refund, by a webhook or by an administrator, adds its amount to both rows and caps it.
LEMMA RefundEffect ==
  ASSUME PaymentTypeOK, RowsInv, NEW f \in Refunds, NEW i \in Intents, i = Returns[f].intent,
         intent' = [intent EXCEPT ![i] = AfterRefund(i, @.refunded + Returns[f].amount)],
         \/ order' = [order EXCEPT ![i] =
              [status |-> intent'[i].status, refunded |-> AfterRefund(i, @.refunded + Returns[f].amount).refunded]]
         \/ /\ Returns[f].amount <= Amount[i] - intent[i].refunded
            /\ order' = [order EXCEPT ![i] =
                 [status |-> intent'[i].status, refunded |-> @.refunded + Returns[f].amount]]
  PROVE  intent' \in Rows /\ order' \in Rows /\ RowsInv'
PROOF
  <1> DEFINE total == intent[i].refunded + Returns[f].amount
             after == AfterRefund(i, total)
  <1>1. /\ intent[i].refunded \in Nat /\ order[i].refunded = intent[i].refunded
        /\ Returns[f].amount \in Nat /\ Amount[i] \in Nat
    BY Returned, IntentsAssumption DEF PaymentTypeOK, Rows, RowsInv
  <1>2. total \in Nat BY <1>1
  <1>3. /\ after \in [status : RowStatuses, refunded : Nat]
        /\ after.refunded = IF total > Amount[i] THEN Amount[i] ELSE total
        /\ after.refunded <= Amount[i]
    BY <1>2, AfterRefundCaps
  <1> HIDE DEF total
  <1>4. intent' = [intent EXCEPT ![i] = after] BY DEF total
  <1>5. order' = [order EXCEPT ![i] = [status |-> after.status, refunded |-> after.refunded]]
    <2>1. intent'[i] = after BY <1>4 DEF PaymentTypeOK, Rows
    <2>2. CASE order' = [order EXCEPT ![i] =
                 [status |-> intent'[i].status,
                  refunded |-> AfterRefund(i, @.refunded + Returns[f].amount).refunded]]
      BY <1>1, <2>1, <2>2 DEF total
    <2>3. CASE /\ Returns[f].amount <= Amount[i] - intent[i].refunded
               /\ order' = [order EXCEPT ![i] =
                    [status |-> intent'[i].status, refunded |-> @.refunded + Returns[f].amount]]
      <3>1. after.refunded = total BY <1>1, <1>3, <2>3 DEF total
      <3>2. order[i].refunded + Returns[f].amount = total BY <1>1 DEF total
      <3> HIDE DEF after
      <3> QED BY <2>1, <2>3, <3>1, <3>2
    <2> QED BY <2>2, <2>3
  <1> HIDE DEF after
  <1>6. [status |-> after.status, refunded |-> after.refunded] \in [status : RowStatuses, refunded : Nat]
    BY <1>3
  <1>7. intent' \in Rows /\ order' \in Rows BY <1>3, <1>4, <1>5, <1>6 DEF PaymentTypeOK, Rows
  <1>8. RowsInv'
    <2> SUFFICES ASSUME NEW j \in Intents
                 PROVE  order'[j].refunded = intent'[j].refunded /\ intent'[j].refunded <= Amount[j]
      BY DEF RowsInv
    <2>1. CASE j = i BY <1>3, <1>4, <1>5, <2>1 DEF PaymentTypeOK, Rows
    <2>2. CASE j # i BY <1>4, <1>5, <2>2 DEF PaymentTypeOK, Rows, RowsInv
    <2> QED BY <2>1, <2>2
  <1> QED BY <1>7, <1>8

\* What was reversed stays so.
LEMMA ReversalsStay ==
  ASSUME applied \subseteq applied', entered \subseteq entered', NEW i \in Intents, Reversed(i)
  PROVE  Reversed(i)'
PROOF BY DEF Reversed, Reversals

\* An entry of a transition, with the reversal it makes.
LEMMA RefundReverses ==
  ASSUME NEW f \in Refunds, NEW i \in Intents, i = Returns[f].intent,
         (\E e \in Events : Announces[e] = f /\ e \in applied') \/ f \in entered'
  PROVE  Reversed(i)'
PROOF BY DEF Reversed, Reversals

-----------------------------------------------------------------------------
(* The invariant                                                            *)

LEMMA InitPayment == PaymentInit => PaymentInv
PROOF
  <1> SUFFICES ASSUME PaymentInit PROVE PaymentInv OBVIOUS
  <1>1. PaymentTypeOK BY DEF PaymentInit, PaymentTypeOK, Rows, NoRow, RowStatuses
  <1>2. ProgressInv BY DEF PaymentInit, ProgressInv, NoRow
  <1>3. RowsInv BY IntentsAssumption DEF PaymentInit, RowsInv, NoRow
  <1>4. CreditInv BY DEF PaymentInit, CreditInv
  <1> QED BY <1>1, <1>2, <1>3, <1>4 DEF PaymentInv

LEMMA RowsStay ==
  ASSUME RowsInv,
         \A j \in Intents : /\ intent'[j].refunded = intent[j].refunded
                            /\ order'[j].refunded = order[j].refunded
  PROVE  RowsInv'
PROOF
  <1> SUFFICES ASSUME NEW j \in Intents
               PROVE  order'[j].refunded = intent'[j].refunded /\ intent'[j].refunded <= Amount[j]
    BY DEF RowsInv
  <1>1. order[j].refunded = intent[j].refunded /\ intent[j].refunded <= Amount[j] BY DEF RowsInv
  <1>2. intent'[j].refunded = intent[j].refunded /\ order'[j].refunded = order[j].refunded OBVIOUS
  <1> QED BY <1>1, <1>2

LEMMA CheckoutInv ==
  ASSUME PaymentInv, NEW i \in Intents, Checkout(i)
  PROVE  PaymentInv'
PROOF
  <1> USE DEF PaymentInv
  <1>1. /\ UNCHANGED <<provider, recorded, deliveries, quota, applied, entered, refundRows,
                       credits, vain>>
        /\ request' \in [Intents -> {"none", "intent", "order", "open", "failed", "closed"}]
        /\ \A j \in Intents : j # i => request'[j] = request[j]
        /\ request'[i] \in {"intent", "order", "open", "failed", "closed"}
        /\ request'[i] = "intent" => request[i] = "none"
    BY DEF Checkout, CreatePaymentIntent, CreatePendingTopup, CreateCheckoutSession,
           MarkPaymentIntentFailed, MarkTopupOrderFailed, Ask, PaymentTypeOK
  <1>2. /\ intent' \in Rows /\ order' \in Rows
        /\ \A j \in Intents : /\ intent'[j].refunded = intent[j].refunded
                              /\ order'[j].refunded = order[j].refunded
                              /\ j # i => order'[j] = order[j]
        /\ request[i] = "none" => order'[i] = order[i]
        /\ order[i].status = "paid" => order'[i].status = "paid"
    <2>1. CASE CreatePaymentIntent(i)
      BY <2>1 DEF CreatePaymentIntent, PaymentTypeOK, Rows, RowStatuses
    <2>2. CASE CreatePendingTopup(i)
      <3>1. request[i] = "intent" /\ order[i].status = "none"
        BY <2>2 DEF CreatePendingTopup, Ask, ProgressInv
      <3> QED BY <2>2, <3>1 DEF CreatePendingTopup, PaymentTypeOK, Rows, RowStatuses
    <2>3. CASE CreateCheckoutSession(i)
      BY <2>3 DEF CreateCheckoutSession, PaymentTypeOK, Rows
    <2>4. CASE MarkPaymentIntentFailed(i)
      BY <2>4 DEF MarkPaymentIntentFailed, PaymentTypeOK, Rows, RowStatuses
    <2>5. CASE MarkTopupOrderFailed(i)
      <3>1. request[i] = "failed" BY <2>5 DEF MarkTopupOrderFailed, Ask
      <3> QED BY <2>5, <3>1 DEF MarkTopupOrderFailed, PaymentTypeOK, Rows, RowStatuses
    <2> QED BY <2>1, <2>2, <2>3, <2>4, <2>5 DEF Checkout
  <1>3. PaymentTypeOK' BY <1>1, <1>2 DEF PaymentTypeOK, provider
  <1>4. ProgressInv'
    <2>1. \A d \in deliveries' : d.event \in recorded' BY <1>1 DEF ProgressInv
    <2>2. ASSUME NEW j \in Intents, request'[j] \in {"none", "intent"}
          PROVE  order'[j].status = "none"
      <3>1. request[j] \in {"none", "intent"} /\ order'[j] = order[j]
        <4>1. CASE j = i BY <1>1, <1>2, <2>2, <4>1
        <4>2. CASE j # i BY <1>1, <1>2, <2>2, <4>2
        <4> QED BY <4>1, <4>2
      <3>2. order[j].status = "none" BY <3>1 DEF ProgressInv
      <3> QED BY <3>1, <3>2
    <2> QED BY <2>1, <2>2 DEF ProgressInv
  <1>5. RowsInv' BY <1>2, RowsStay
  <1>6. CreditInv'
    <2> SUFFICES ASSUME NEW j \in Intents, ~Reversed(j)'
                 PROVE  credits'[j] = 0 \/ (credits'[j] = 1 /\ order'[j].status = "paid")
      BY DEF CreditInv
    <2>1. ~Reversed(j) BY <1>1, ReversalsStay
    <2>2. credits[j] = 0 \/ (credits[j] = 1 /\ order[j].status = "paid") BY <2>1 DEF CreditInv
    <2>3. order[j].status = "paid" => order'[j].status = "paid"
      <3>1. CASE j = i BY <1>2, <3>1
      <3>2. CASE j # i BY <1>2, <3>2
      <3> QED BY <3>1, <3>2
    <2> QED BY <1>1, <2>2, <2>3
  <1> QED BY <1>3, <1>4, <1>5, <1>6

\* Steps that leave the rows alone.
LEMMA QuietInv ==
  ASSUME PaymentInv, PaymentTypeOK',
         UNCHANGED <<request, intent, order, applied, entered, credits>>,
         \A d \in deliveries' : d.event \in recorded'
  PROVE  PaymentInv'
PROOF BY DEF PaymentInv, ProgressInv, RowsInv, CreditInv, Reversed, Reversals

LEMMA ApplyCheckoutInv ==
  ASSUME PaymentInv, NEW d \in deliveries, ApplyCheckout(d)
  PROVE  PaymentInv'
PROOF
  <1> USE DEF PaymentInv
  <1> DEFINE i == Announces[d.event]
  <1>1. /\ d.event \in Events /\ d.event \in recorded
        /\ deliveries' \subseteq deliveries /\ acked' \subseteq recorded
        /\ UNCHANGED <<request, happened, recorded>>
    BY AnswerEffect DEF ApplyCheckout, Begin
  <1>2. /\ applied' = applied \cup {d.event} /\ UNCHANGED <<entered, refundRows, vain>>
        /\ i \in Intents /\ order[i].status # "none"
        /\ intent' = [intent EXCEPT ![i].status = "completed"]
        /\ order' = [order EXCEPT ![i].status = "paid"]
    BY DEF ApplyCheckout, Begin
  <1>3. /\ intent' \in Rows /\ order' \in Rows
        /\ order'[i].status = "paid"
        /\ \A j \in Intents : /\ intent'[j].refunded = intent[j].refunded
                              /\ order'[j].refunded = order[j].refunded
                              /\ j # i => order'[j] = order[j]
    BY <1>2 DEF PaymentTypeOK, Rows, RowStatuses
  <1>4. /\ credits' = [credits EXCEPT ![i] = IF ToCredit(i) THEN @ + 1 ELSE @]
        /\ quota' = IF ToCredit(i) THEN [exists |-> TRUE, balance |-> quota.balance + Amount[i]] ELSE quota
    BY DEF ApplyCheckout
  <1>5. quota.balance + Amount[i] \in Int BY <1>2, IntentsAssumption DEF PaymentTypeOK
  <1>6. quota' \in [exists : BOOLEAN, balance : Int] /\ credits' \in [Intents -> Nat]
    <2> HIDE DEF i
    <2>1. CASE ToCredit(i) BY <1>2, <1>4, <1>5, <2>1 DEF PaymentTypeOK
    <2>2. CASE ~ToCredit(i) BY <1>2, <1>4, <2>2 DEF PaymentTypeOK
    <2> QED BY <2>1, <2>2
  <1>7. PaymentTypeOK' BY <1>1, <1>2, <1>3, <1>6 DEF PaymentTypeOK
  <1>8. ProgressInv' BY <1>1, <1>2, <1>3 DEF ProgressInv
  <1>9. RowsInv' BY <1>3, RowsStay
  <1>10. CreditInv'
    <2> SUFFICES ASSUME NEW j \in Intents, ~Reversed(j)'
                 PROVE  credits'[j] = 0 \/ (credits'[j] = 1 /\ order'[j].status = "paid")
      BY DEF CreditInv
    <2>1. ~Reversed(j) BY <1>2, ReversalsStay
    <2>2. credits[j] = 0 \/ (credits[j] = 1 /\ order[j].status = "paid") BY <2>1 DEF CreditInv
    <2> HIDE DEF i
    <2>3. CASE j # i BY <1>2, <1>3, <1>4, <2>2, <2>3 DEF PaymentTypeOK
    <2>4. CASE j = i /\ ToCredit(i) BY <1>2, <1>3, <1>4, <2>2, <2>4 DEF ToCredit, PaymentTypeOK
    <2>5. CASE j = i /\ ~ToCredit(i) BY <1>2, <1>3, <1>4, <2>2, <2>5 DEF PaymentTypeOK
    <2> QED BY <2>3, <2>4, <2>5
  <1> QED BY <1>7, <1>8, <1>9, <1>10

\* A refund touches only rows that are there, and leaves its mark on the transitions.
LEMMA RefundInv ==
  ASSUME PaymentInv, NEW f \in Refunds, NEW i \in Intents, i = Returns[f].intent,
         intent' \in Rows, order' \in Rows, RowsInv',
         order[i].status # "none",
         \A j \in Intents : j # i => order'[j] = order[j],
         PaymentTypeOK', \A d \in deliveries' : d.event \in recorded',
         applied \subseteq applied', entered \subseteq entered',
         (\E e \in Events : Announces[e] = f /\ e \in applied') \/ f \in entered',
         UNCHANGED <<request, credits>>
  PROVE  PaymentInv'
PROOF
  <1> USE DEF PaymentInv
  <1>1. ProgressInv' BY DEF ProgressInv
  <1>2. CreditInv'
    <2> SUFFICES ASSUME NEW j \in Intents, ~Reversed(j)'
                 PROVE  credits'[j] = 0 \/ (credits'[j] = 1 /\ order'[j].status = "paid")
      BY DEF CreditInv
    <2>1. j # i BY RefundReverses
    <2>2. ~Reversed(j) BY ReversalsStay
    <2> QED BY <2>1, <2>2 DEF CreditInv
  <1> QED BY <1>1, <1>2

LEMMA ApplyRefundInv ==
  ASSUME PaymentInv, NEW d \in deliveries, ApplyRefund(d)
  PROVE  PaymentInv'
PROOF
  <1> DEFINE f == Announces[d.event]
             i == Returns[f].intent
  <1>1. PaymentTypeOK /\ ProgressInv /\ RowsInv BY DEF PaymentInv
  <1>2. /\ d.event \in Events /\ d.event \in recorded
        /\ deliveries' \subseteq deliveries /\ acked' \subseteq recorded
        /\ UNCHANGED <<request, happened, recorded>>
    BY <1>1, AnswerEffect DEF ApplyRefund, Begin
  <1>3. /\ f \in Refunds /\ i \in Intents
        /\ applied' = applied \cup {d.event} /\ refundRows' = refundRows \cup {f}
        /\ UNCHANGED <<entered, credits>>
        /\ order[i].status # "none" /\ Reverse(Returns[f].amount)
    BY Returned DEF ApplyRefund, Begin
  <1>4. /\ intent' = [intent EXCEPT ![i] = AfterRefund(i, @.refunded + Returns[f].amount)]
        /\ order' = [order EXCEPT ![i] =
             [status |-> intent'[i].status,
              refunded |-> AfterRefund(i, @.refunded + Returns[f].amount).refunded]]
    BY DEF ApplyRefund
  <1>5. intent' \in Rows /\ order' \in Rows /\ RowsInv' BY <1>1, <1>3, <1>4, RefundEffect
  <1>6. \A j \in Intents : j # i => order'[j] = order[j] BY <1>1, <1>4 DEF PaymentTypeOK, Rows
  <1>7. quota' \in [exists : BOOLEAN, balance : Int] /\ vain' \in Nat
    BY <1>1, <1>3, Returned, ReverseEffect
  <1>8. PaymentTypeOK' BY <1>1, <1>2, <1>3, <1>5, <1>7 DEF PaymentTypeOK
  <1>9. \A c \in deliveries' : c.event \in recorded' BY <1>1, <1>2 DEF ProgressInv
  <1> QED BY <1>2, <1>3, <1>5, <1>6, <1>8, <1>9, RefundInv

LEMMA RecordTopupRefundInv ==
  ASSUME PaymentInv, NEW f \in Refunds, RecordTopupRefund(f)
  PROVE  PaymentInv'
PROOF
  <1> DEFINE i == Returns[f].intent
  <1>1. PaymentTypeOK /\ ProgressInv /\ RowsInv BY DEF PaymentInv
  <1>2. /\ i \in Intents /\ order[i].status # "none" /\ Reverse(Returns[f].amount)
        /\ entered' = entered \cup {f} /\ refundRows' = refundRows \cup {f}
        /\ UNCHANGED <<request, happened, acked, recorded, deliveries, applied, credits>>
    BY Returned DEF RecordTopupRefund, provider
  <1>3. /\ Returns[f].amount <= Amount[i] - intent[i].refunded
        /\ intent' = [intent EXCEPT ![i] = AfterRefund(i, @.refunded + Returns[f].amount)]
        /\ order' = [order EXCEPT ![i] =
             [status |-> intent'[i].status, refunded |-> @.refunded + Returns[f].amount]]
    BY DEF RecordTopupRefund
  <1>4. intent' \in Rows /\ order' \in Rows /\ RowsInv' BY <1>1, <1>2, <1>3, RefundEffect
  <1>5. \A j \in Intents : j # i => order'[j] = order[j] BY <1>1, <1>3 DEF PaymentTypeOK, Rows
  <1>6. quota' \in [exists : BOOLEAN, balance : Int] /\ vain' \in Nat
    BY <1>1, <1>2, Returned, ReverseEffect
  <1>7. PaymentTypeOK' BY <1>1, <1>2, <1>4, <1>6 DEF PaymentTypeOK
  <1>8. \A c \in deliveries' : c.event \in recorded' BY <1>1, <1>2 DEF ProgressInv
  <1> QED BY <1>2, <1>4, <1>5, <1>7, <1>8, RefundInv

LEMMA StepPayment == PaymentInv /\ [PaymentNext]_paymentVars => PaymentInv'
PROOF
  <1> SUFFICES ASSUME PaymentInv, [PaymentNext]_paymentVars PROVE PaymentInv' OBVIOUS
  <1>1. PaymentTypeOK /\ ProgressInv BY DEF PaymentInv
  <1>2. ASSUME NEW i \in Intents, Checkout(i) PROVE PaymentInv' BY <1>2, CheckoutInv
  <1>3. ASSUME NEW i \in Intents, Pay(i) PROVE PaymentInv'
    <2>1. UNCHANGED <<request, acked, recorded, deliveries, money>> /\ happened' = happened \cup {i}
      BY <1>3 DEF Pay
    <2>2. PaymentTypeOK' BY <1>1, <2>1 DEF PaymentTypeOK, money
    <2> QED BY <1>1, <2>1, <2>2, QuietInv DEF ProgressInv, money
  <1>4. ASSUME NEW f \in Refunds, MakeRefund(f) PROVE PaymentInv'
    <2>1. UNCHANGED <<request, acked, recorded, deliveries, money>> /\ happened' = happened \cup {f}
      BY <1>4 DEF MakeRefund
    <2>2. PaymentTypeOK' BY <1>1, <2>1 DEF PaymentTypeOK, money
    <2> QED BY <1>1, <2>1, <2>2, QuietInv DEF ProgressInv, money
  <1>5. ASSUME NEW f \in Refunds, RecordTopupRefund(f) PROVE PaymentInv'
    BY <1>5, RecordTopupRefundInv
  <1>6. ASSUME NEW e \in Events, RecordWebhookEvent(e) PROVE PaymentInv'
    <2>1. /\ UNCHANGED <<request, happened, acked, money>>
          /\ recorded' = recorded \cup {e}
          /\ deliveries' = deliveries \cup {[event |-> e, apply |-> Applies(e)]}
      BY <1>6 DEF RecordWebhookEvent, provider
    <2>2. Applies(e) \in BOOLEAN BY DEF Applies
    <2>3. deliveries' \subseteq [event : Events, apply : BOOLEAN] BY <1>1, <2>1, <2>2 DEF PaymentTypeOK
    <2>4. PaymentTypeOK' BY <1>1, <2>1, <2>3 DEF PaymentTypeOK, money
    <2>5. \A d \in deliveries' : d.event \in recorded' BY <1>1, <2>1 DEF ProgressInv
    <2> QED BY <2>1, <2>4, <2>5, QuietInv DEF money
  <1>7. ASSUME NEW d \in deliveries, Skip(d) PROVE PaymentInv'
    <2>1. /\ deliveries' \subseteq deliveries /\ acked' \subseteq recorded
          /\ UNCHANGED <<request, happened, recorded, money>>
      BY <1>1, <1>7, AnswerEffect DEF Skip
    <2>2. PaymentTypeOK' BY <1>1, <2>1 DEF PaymentTypeOK, money
    <2>3. \A c \in deliveries' : c.event \in recorded' BY <1>1, <2>1 DEF ProgressInv
    <2> QED BY <2>1, <2>2, <2>3, QuietInv DEF money
  <1>8. ASSUME NEW d \in deliveries, ApplyCheckout(d) PROVE PaymentInv' BY <1>8, ApplyCheckoutInv
  <1>9. ASSUME NEW d \in deliveries, ApplyRefund(d) PROVE PaymentInv' BY <1>9, ApplyRefundInv
  <1>10. ASSUME NEW d \in deliveries, Drop(d) PROVE PaymentInv'
    <2>1. /\ deliveries' \subseteq deliveries
          /\ UNCHANGED <<request, happened, acked, recorded, money>>
      BY <1>10 DEF Drop, provider
    <2>2. PaymentTypeOK' BY <1>1, <2>1 DEF PaymentTypeOK, money
    <2>3. \A c \in deliveries' : c.event \in recorded' BY <1>1, <2>1 DEF ProgressInv
    <2> QED BY <2>1, <2>2, <2>3, QuietInv DEF money
  <1>11. ASSUME GetOrCreateQuotaRow PROVE PaymentInv'
    <2>1. /\ quota' = [quota EXCEPT !.exists = TRUE]
          /\ UNCHANGED <<request, happened, acked, recorded, deliveries, intent, order, applied,
                         entered, refundRows, credits, vain>>
      BY <1>11 DEF GetOrCreateQuotaRow, provider
    <2>2. quota' \in [exists : BOOLEAN, balance : Int] BY <1>1, <2>1 DEF PaymentTypeOK
    <2>3. PaymentTypeOK' BY <1>1, <2>1, <2>2 DEF PaymentTypeOK
    <2> QED BY <1>1, <2>1, <2>3, QuietInv DEF ProgressInv
  <1>12. CASE UNCHANGED paymentVars
    <2>1. PaymentTypeOK' BY <1>1, <1>12 DEF PaymentTypeOK, paymentVars, provider, money
    <2> QED BY <1>1, <1>12, <2>1, QuietInv DEF ProgressInv, paymentVars, provider, money
  <1> QED BY <1>2, <1>3, <1>4, <1>5, <1>6, <1>7, <1>8, <1>9, <1>10, <1>11, <1>12 DEF PaymentNext, Handle

-----------------------------------------------------------------------------
(* The audited transitions                                                  *)

LEMMA LeastOfTwo ==
  ASSUME NEW a \in Int, NEW b \in Int
  PROVE  Min({a, b}) = IF a <= b THEN a ELSE b
PROOF
  <1> DEFINE m == IF a <= b THEN a ELSE b
             Least(x) == x \in {a, b} /\ \A y \in {a, b} : x <= y
  <1>1. Least(m) OBVIOUS
  <1>2. \A x : Least(x) => x = m OBVIOUS
  <1>3. Min({a, b}) = CHOOSE x \in {a, b} : \A y \in {a, b} : x <= y BY DEF Min
  <1>4. Least(Min({a, b})) BY <1>1, <1>3
  <1> QED BY <1>2, <1>4

LEMMA ReversalsFinite ==
  ASSUME IsFiniteSet(applied), NEW f \in Refunds
  PROVE  IsFiniteSet(Reversals(f)) /\ Cardinality(Reversals(f)) \in Nat
PROOF
  <1>1. IsFiniteSet({e \in applied : Announces[e] = f}) BY FS_Subset
  <1>2. IsFiniteSet(entered \cap {f}) BY FS_Singleton, FS_Subset
  <1>3. IsFiniteSet(Reversals(f)) BY <1>1, <1>2, FS_Union DEF Reversals
  <1> QED BY <1>3, FS_CardinalityType

\* What refund g takes from intent j, c times.
Part(j, g, c) == IF Returns[g].intent = j THEN Returns[g].amount * c ELSE 0

LEMMA PartType ==
  ASSUME NEW j, NEW g \in Refunds, NEW c \in Nat
  PROVE  Part(j, g, c) \in Nat
PROOF BY Returned DEF Part

LEMMA ReversedIsNat ==
  ASSUME IsFiniteSet(applied), NEW i \in Intents
  PROVE  ReversedAmount(i) \in Nat
PROOF
  <1> DEFINE old == [g \in Refunds |-> Part(i, g, Cardinality(Reversals(g)))]
  <1>1. \A g \in Refunds : old[g] \in Nat BY ReversalsFinite, PartType
  <1>2. ReversedAmount(i) = SumOf(old, Refunds) BY DEF ReversedAmount, Part
  <1> HIDE DEF old
  <1> QED BY <1>1, <1>2, RefundsAssumption, SumBounds

\* One more transition of a refund takes its amount from its intent, and nothing else.
LEMMA OneMoreReversal ==
  ASSUME IsFiniteSet(applied), IsFiniteSet(applied'), NEW f \in Refunds, NEW j \in Intents,
         Cardinality(Reversals(f)') = Cardinality(Reversals(f)) + 1,
         \A g \in Refunds : g # f => Reversals(g)' = Reversals(g)
  PROVE  ReversedAmount(j)' = ReversedAmount(j) + Part(j, f, 1)
PROOF
  <1> DEFINE old == [g \in Refunds |-> Part(j, g, Cardinality(Reversals(g)))]
             new == [g \in Refunds |-> Part(j, g, Cardinality(Reversals(g)'))]
  <1>1. \A g \in Refunds : Cardinality(Reversals(g)) \in Nat /\ Cardinality(Reversals(g)') \in Nat
    <2>1. \A g \in Refunds : Cardinality(Reversals(g)) \in Nat BY ReversalsFinite
    <2> QED BY <2>1
  <1>2. \A g \in Refunds : old[g] \in Int /\ new[g] \in Int
    <2>1. \A g \in Refunds : old[g] \in Nat /\ new[g] \in Nat BY <1>1, PartType
    <2> QED BY <2>1
  <1>3. \A g \in Refunds \ {f} : old[g] = new[g] OBVIOUS
  <1>4. ReversedAmount(j) = SumOf(old, Refunds) BY DEF ReversedAmount, Part
  <1>5. ReversedAmount(j)' = SumOf(new, Refunds) BY DEF ReversedAmount, Part
  <1>6. new[f] = old[f] + Part(j, f, 1)
    <2> DEFINE c == Cardinality(Reversals(f))
    <2>1. c \in Nat /\ Cardinality(Reversals(f)') = c + 1 BY <1>1
    <2>2. old[f] = Part(j, f, c) /\ new[f] = Part(j, f, c + 1) BY <2>1
    <2> HIDE DEF c, old, new
    <2>3. Returns[f].amount * (c + 1) = Returns[f].amount * c + Returns[f].amount * 1
      <3> DEFINE a == Returns[f].amount
      <3>1. a \in Nat BY Returned
      <3> HIDE DEF a
      <3>2. a * (c + 1) = a * c + a * 1 BY <2>1, <3>1
      <3> QED BY <3>2 DEF a
    <2> QED BY <2>1, <2>2, <2>3 DEF Part
  <1> HIDE DEF old, new
  <1>7. SumOf(new, Refunds) = SumOf(old, Refunds) - old[f] + new[f]
    BY <1>2, <1>3, RefundsAssumption, SumChange
  <1>8. SumOf(old, Refunds) \in Int BY <1>2, RefundsAssumption, SumType
  <1>9. old[f] \in Int /\ Part(j, f, 1) \in Int BY <1>2, PartType
  <1> QED BY <1>4, <1>5, <1>6, <1>7, <1>8, <1>9

\* What the transitions say was paid in and taken back.
PaidIn == SumOf([i \in Intents |-> IF CheckedOut(i) THEN Amount[i] ELSE 0], Intents)
TakenBack == SumOf([i \in Intents |-> ReversedAmount(i)], Intents)

LEMMA ReversedStays ==
  ASSUME \A g \in Refunds : Reversals(g)' = Reversals(g), NEW i \in Intents
  PROVE  ReversedAmount(i)' = ReversedAmount(i)
PROOF
  <1> DEFINE old == [g \in Refunds |-> Part(i, g, Cardinality(Reversals(g)))]
             new == [g \in Refunds |-> Part(i, g, Cardinality(Reversals(g)'))]
  <1>1. \A g \in Refunds : old[g] = new[g] OBVIOUS
  <1>2. ReversedAmount(i) = SumOf(old, Refunds) BY DEF ReversedAmount, Part
  <1>3. ReversedAmount(i)' = SumOf(new, Refunds) BY DEF ReversedAmount, Part
  <1> HIDE DEF old, new
  <1> QED BY <1>1, <1>2, <1>3, RefundsAssumption, SumAgrees

LEMMA PaidInType == PaidIn \in Int
PROOF
  <1> DEFINE old == [i \in Intents |-> IF CheckedOut(i) THEN Amount[i] ELSE 0]
  <1>1. \A i \in Intents : old[i] \in Int BY IntentsAssumption
  <1>2. PaidIn = SumOf(old, Intents) BY DEF PaidIn
  <1> HIDE DEF old
  <1> QED BY <1>1, <1>2, IntentsAssumption, SumType

LEMMA PaidInStays ==
  ASSUME \A i \in Intents : CheckedOut(i)' <=> CheckedOut(i)
  PROVE  PaidIn' = PaidIn
PROOF
  <1> DEFINE old == [i \in Intents |-> IF CheckedOut(i) THEN Amount[i] ELSE 0]
             new == [i \in Intents |-> IF CheckedOut(i)' THEN Amount[i] ELSE 0]
  <1>1. \A i \in Intents : old[i] = new[i] OBVIOUS
  <1>2. PaidIn = SumOf(old, Intents) /\ PaidIn' = SumOf(new, Intents) BY DEF PaidIn
  <1> HIDE DEF old, new
  <1> QED BY <1>1, <1>2, IntentsAssumption, SumAgrees

LEMMA PaidInGrows ==
  ASSUME NEW i \in Intents, ~CheckedOut(i), CheckedOut(i)',
         \A j \in Intents : j # i => (CheckedOut(j)' <=> CheckedOut(j))
  PROVE  PaidIn' = PaidIn + Amount[i]
PROOF
  <1> DEFINE old == [j \in Intents |-> IF CheckedOut(j) THEN Amount[j] ELSE 0]
             new == [j \in Intents |-> IF CheckedOut(j)' THEN Amount[j] ELSE 0]
  <1>1. \A j \in Intents : old[j] \in Int /\ new[j] \in Int BY IntentsAssumption
  <1>2. \A j \in Intents \ {i} : old[j] = new[j] OBVIOUS
  <1>3. old[i] = 0 /\ new[i] = Amount[i] OBVIOUS
  <1>4. PaidIn = SumOf(old, Intents) /\ PaidIn' = SumOf(new, Intents) BY DEF PaidIn
  <1>5. Amount[i] \in Int BY IntentsAssumption
  <1> HIDE DEF old, new
  <1>6. SumOf(new, Intents) = SumOf(old, Intents) - old[i] + new[i]
    BY <1>1, <1>2, IntentsAssumption, SumChange
  <1>7. SumOf(old, Intents) \in Int BY <1>1, IntentsAssumption, SumType
  <1> QED BY <1>3, <1>4, <1>5, <1>6, <1>7

LEMMA TakenBackType == IsFiniteSet(applied) => TakenBack \in Int
PROOF
  <1> SUFFICES ASSUME IsFiniteSet(applied) PROVE TakenBack \in Int OBVIOUS
  <1> DEFINE old == [i \in Intents |-> ReversedAmount(i)]
  <1>1. \A i \in Intents : ReversedAmount(i) \in Int
    <2>1. \A i \in Intents : ReversedAmount(i) \in Nat BY ReversedIsNat
    <2> QED BY <2>1
  <1>2. \A i \in Intents : old[i] \in Int BY <1>1
  <1>3. TakenBack = SumOf(old, Intents) BY DEF TakenBack
  <1> HIDE DEF old
  <1> QED BY <1>2, <1>3, IntentsAssumption, SumType

LEMMA TakenBackStays ==
  ASSUME \A g \in Refunds : Reversals(g)' = Reversals(g)
  PROVE  TakenBack' = TakenBack
PROOF
  <1> DEFINE old == [i \in Intents |-> ReversedAmount(i)]
             new == [i \in Intents |-> ReversedAmount(i)']
  <1>1. \A i \in Intents : ReversedAmount(i)' = ReversedAmount(i) BY ReversedStays
  <1>2. \A i \in Intents : old[i] = new[i] BY <1>1
  <1>3. TakenBack = SumOf(old, Intents) /\ TakenBack' = SumOf(new, Intents) BY DEF TakenBack
  <1> HIDE DEF old, new
  <1> QED BY <1>2, <1>3, IntentsAssumption, SumAgrees

LEMMA TakenBackGrows ==
  ASSUME IsFiniteSet(applied), IsFiniteSet(applied'), NEW f \in Refunds,
         Cardinality(Reversals(f)') = Cardinality(Reversals(f)) + 1,
         \A g \in Refunds : g # f => Reversals(g)' = Reversals(g)
  PROVE  TakenBack' = TakenBack + Returns[f].amount
PROOF
  <1> DEFINE i == Returns[f].intent
             old == [j \in Intents |-> ReversedAmount(j)]
             new == [j \in Intents |-> ReversedAmount(j)']
  <1>1. i \in Intents /\ Returns[f].amount \in Int BY Returned
  <1>2. \A j \in Intents : ReversedAmount(j) \in Nat BY ReversedIsNat
  <1>3. \A j \in Intents : ReversedAmount(j)' = ReversedAmount(j) + Part(j, f, 1)
    BY OneMoreReversal
  <1>4. \A j \in Intents : Part(j, f, 1) \in Nat BY PartType
  <1>5. \A j \in Intents \ {i} : Part(j, f, 1) = 0 BY DEF Part
  <1>6. Part(i, f, 1) = Returns[f].amount BY <1>1 DEF Part
  <1> HIDE DEF i
  <1>7. \A j \in Intents : old[j] \in Int /\ new[j] \in Int
    <2> SUFFICES ASSUME NEW j \in Intents
                 PROVE  ReversedAmount(j) \in Int /\ ReversedAmount(j)' \in Int
      OBVIOUS
    <2>1. ReversedAmount(j)' = ReversedAmount(j) + Part(j, f, 1) BY <1>3
    <2> QED BY <1>2, <1>4, <2>1
  <1>8. \A j \in Intents \ {i} : old[j] = new[j]
    <2> SUFFICES ASSUME NEW j \in Intents \ {i} PROVE ReversedAmount(j)' = ReversedAmount(j)
      OBVIOUS
    <2>1. ReversedAmount(j)' = ReversedAmount(j) + Part(j, f, 1) BY <1>3
    <2> QED BY <1>2, <1>5, <2>1
  <1>9. new[i] = old[i] + Returns[f].amount
    <2>1. ReversedAmount(i)' = ReversedAmount(i) + Part(i, f, 1) BY <1>1, <1>3
    <2> QED BY <1>1, <1>6, <2>1
  <1>10. TakenBack = SumOf(old, Intents) /\ TakenBack' = SumOf(new, Intents) BY DEF TakenBack
  <1> HIDE DEF old, new
  <1>11. SumOf(new, Intents) = SumOf(old, Intents) - old[i] + new[i]
    BY <1>1, <1>7, <1>8, IntentsAssumption, SumChange
  <1>12. SumOf(old, Intents) \in Int /\ old[i] \in Int BY <1>1, <1>7, IntentsAssumption, SumType
  <1> QED BY <1>1, <1>9, <1>10, <1>11, <1>12

\* The balance is what was paid in less what was taken back.
LEMMA AuditedSum ==
  BalanceIsAudited <=> ((\A i \in Intents : credits[i] <= 1) =>
                          quota.balance = PaidIn - TakenBack + vain)
PROOF BY DEF BalanceIsAudited, PaidIn, TakenBack

LEMMA InitAudit == PaymentInit => AuditInv
PROOF
  <1> SUFFICES ASSUME PaymentInit PROVE AuditInv OBVIOUS
  <1>1. /\ applied = {} /\ entered = {} /\ vain = 0 /\ quota.balance = 0
        /\ \A i \in Intents : /\ credits[i] = 0
                               /\ intent[i].refunded = 0 /\ order[i].refunded = 0
                               /\ order[i].status = "none"
    BY DEF PaymentInit, NoRow
  <1>2. CheckoutsInv BY <1>1, FS_EmptySet DEF CheckoutsInv, CheckedOut
  <1>3. \A f \in Refunds : Reversals(f) = {} BY <1>1 DEF Reversals
  <1>4. \A i \in Intents : ReversedAmount(i) = 0
    <2> SUFFICES ASSUME NEW i \in Intents PROVE ReversedAmount(i) = 0 OBVIOUS
    <2> DEFINE old == [g \in Refunds |-> Part(i, g, Cardinality(Reversals(g)))]
               none == [g \in Refunds |-> 0]
    <2>1. \A g \in Refunds : Cardinality(Reversals(g)) = 0 BY <1>3, FS_EmptySet
    <2>2. \A g \in Refunds : Returns[g].amount \in Nat BY Returned
    <2>3. \A g \in Refunds : Part(i, g, 0) = 0 BY <2>2 DEF Part
    <2>4. \A g \in Refunds : old[g] = none[g] BY <2>1, <2>3
    <2>5. ReversedAmount(i) = SumOf(old, Refunds) BY DEF ReversedAmount, Part
    <2>6. SumOf(none, Refunds) = 0 BY RefundsAssumption, SumZero
    <2> HIDE DEF old, none
    <2> QED BY <2>4, <2>5, <2>6, RefundsAssumption, SumAgrees
  <1>5. RefundsAgree
    <2> SUFFICES ASSUME NEW i \in Intents PROVE Min({Amount[i], ReversedAmount(i)}) = 0
      BY <1>1 DEF RefundsAgree
    <2>1. Amount[i] \in Nat \ {0} BY IntentsAssumption
    <2>2. Min({Amount[i], 0}) = IF Amount[i] <= 0 THEN Amount[i] ELSE 0 BY <2>1, LeastOfTwo
    <2> QED BY <1>4, <2>1, <2>2
  <1>6. PaidIn = 0 /\ TakenBack = 0
    <2> DEFINE paid == [i \in Intents |-> IF CheckedOut(i) THEN Amount[i] ELSE 0]
               back == [i \in Intents |-> ReversedAmount(i)]
               none == [i \in Intents |-> 0]
    <2>1. \A i \in Intents : ~CheckedOut(i) BY <1>1 DEF CheckedOut
    <2>2. \A i \in Intents : paid[i] = none[i] /\ back[i] = none[i] BY <1>4, <2>1
    <2>3. PaidIn = SumOf(paid, Intents) /\ TakenBack = SumOf(back, Intents) BY DEF PaidIn, TakenBack
    <2>4. SumOf(none, Intents) = 0 BY IntentsAssumption, SumZero
    <2> HIDE DEF paid, back, none
    <2> QED BY <2>2, <2>3, <2>4, IntentsAssumption, SumAgrees
  <1>7. BalanceIsAudited BY <1>1, <1>6, AuditedSum
  <1> QED BY <1>2, <1>5, <1>7 DEF AuditInv

\* Steps that enter no transition and move no money.
LEMMA QuietAudit ==
  ASSUME AuditInv, UNCHANGED <<applied, entered, credits, vain>>,
         quota'.balance = quota.balance,
         \A j \in Intents : /\ intent'[j].refunded = intent[j].refunded
                            /\ order'[j].refunded = order[j].refunded
                            /\ order'[j].status = "paid" => order[j].status = "paid"
  PROVE  AuditInv'
PROOF
  <1>1. CheckoutsInv /\ RefundsAgree /\ BalanceIsAudited BY DEF AuditInv
  <1>2. \A i \in Intents : CheckedOut(i)' <=> CheckedOut(i) BY DEF CheckedOut
  <1>3. \A g \in Refunds : Reversals(g)' = Reversals(g) BY DEF Reversals
  <1>4. CheckoutsInv' BY <1>1, <1>2 DEF CheckoutsInv
  <1>5. RefundsAgree'
    <2>1. \A i \in Intents : ReversedAmount(i)' = ReversedAmount(i) BY <1>3, ReversedStays
    <2> QED BY <1>1, <2>1 DEF RefundsAgree
  <1>6. PaidIn' = PaidIn /\ TakenBack' = TakenBack BY <1>2, <1>3, PaidInStays, TakenBackStays
  <1>7. BalanceIsAudited <=> ((\A i \in Intents : credits[i] <= 1) =>
                                quota.balance = PaidIn - TakenBack + vain)
    BY AuditedSum
  <1>8. BalanceIsAudited' <=> ((\A i \in Intents : credits'[i] <= 1) =>
                                quota'.balance = PaidIn' - TakenBack' + vain')
    BY DEF BalanceIsAudited, PaidIn, TakenBack
  <1>9. BalanceIsAudited' BY <1>1, <1>6, <1>7, <1>8
  <1> QED BY <1>4, <1>5, <1>9 DEF AuditInv

\* A payment that is credited although a transition announced it already was
\* credited twice, and the auditor's sum is out of the question.
LEMMA ApplyCheckoutAudit ==
  ASSUME PaymentInv, AuditInv, NEW d \in deliveries, ApplyCheckout(d)
  PROVE  AuditInv'
PROOF
  <1> DEFINE i == Announces[d.event]
  <1>1. PaymentTypeOK /\ CheckoutsInv /\ RefundsAgree /\ BalanceIsAudited
    BY DEF AuditInv, PaymentInv
  <1>2. /\ d.event \in Events /\ applied' = applied \cup {d.event} /\ UNCHANGED <<entered, vain>>
        /\ i \in Intents /\ i \notin Refunds
        /\ intent' = [intent EXCEPT ![i].status = "completed"]
        /\ order' = [order EXCEPT ![i].status = "paid"]
    BY <1>1, EventsAssumption DEF ApplyCheckout, Begin, PaymentTypeOK
  <1>3. /\ credits' = [credits EXCEPT ![i] = IF ToCredit(i) THEN @ + 1 ELSE @]
        /\ quota' = IF ToCredit(i) THEN [exists |-> TRUE, balance |-> quota.balance + Amount[i]] ELSE quota
    BY DEF ApplyCheckout
  <1>4. /\ \A j \in Intents : /\ intent'[j].refunded = intent[j].refunded
                              /\ order'[j].refunded = order[j].refunded
                              /\ j # i => order'[j] = order[j]
        /\ order'[i].status = "paid"
    BY <1>1, <1>2 DEF PaymentTypeOK, Rows
  <1>5. \A g \in Refunds : Reversals(g)' = Reversals(g) BY <1>2 DEF Reversals
  <1>6. /\ CheckedOut(i)'
        /\ \A j \in Intents : j # i => (CheckedOut(j)' <=> CheckedOut(j))
    BY <1>2 DEF CheckedOut
  <1>7. TakenBack' = TakenBack BY <1>5, TakenBackStays
  <1>8. RefundsAgree'
    <2>1. \A j \in Intents : ReversedAmount(j)' = ReversedAmount(j) BY <1>5, ReversedStays
    <2> QED BY <1>1, <1>4, <2>1 DEF RefundsAgree
  <1>9. IsFiniteSet(applied') BY <1>1, <1>2, FS_AddElement DEF CheckoutsInv
  <1>10. /\ quota.balance \in Int /\ Amount[i] \in Int /\ vain \in Int /\ PaidIn \in Int
         /\ TakenBack \in Int /\ credits[i] \in Nat
    BY <1>1, <1>2, IntentsAssumption, PaidInType, TakenBackType DEF CheckoutsInv, PaymentTypeOK
  <1>11. /\ CheckedOut(i) <=> credits[i] # 0
         /\ order[i].status = "paid" => credits[i] # 0
         /\ \A j \in Intents : /\ CheckedOut(j) <=> credits[j] # 0
                               /\ order[j].status = "paid" => credits[j] # 0
    BY <1>1, <1>2 DEF CheckoutsInv
  <1>12. BalanceIsAudited <=> ((\A j \in Intents : credits[j] <= 1) =>
                                 quota.balance = PaidIn - TakenBack + vain)
    BY AuditedSum
  <1>13. BalanceIsAudited' <=> ((\A j \in Intents : credits'[j] <= 1) =>
                                  quota'.balance = PaidIn' - TakenBack' + vain')
    BY DEF BalanceIsAudited, PaidIn, TakenBack
  <1>14. \A j \in Intents : j # i => credits'[j] = credits[j] BY <1>1, <1>3 DEF PaymentTypeOK
  <1> HIDE DEF i
  <1>15. CASE ToCredit(i)
    <2>1. credits'[i] = credits[i] + 1 /\ quota'.balance = quota.balance + Amount[i]
      BY <1>1, <1>2, <1>3, <1>15 DEF PaymentTypeOK
    <2>2. CheckoutsInv' BY <1>4, <1>6, <1>9, <1>10, <1>11, <1>14, <2>1 DEF CheckoutsInv
    <2>3. ASSUME \A j \in Intents : credits'[j] <= 1
          PROVE  quota'.balance = PaidIn' - TakenBack' + vain'
      <3>1. credits[i] = 0 BY <1>2, <1>10, <2>1, <2>3
      <3>2. PaidIn' = PaidIn + Amount[i] BY <1>2, <1>6, <1>11, <3>1, PaidInGrows
      <3>3. \A j \in Intents : credits[j] <= 1 BY <1>14, <2>3, <3>1
      <3>4. quota.balance = PaidIn - TakenBack + vain BY <1>1, <1>12, <3>3
      <3> QED BY <1>2, <1>7, <1>10, <2>1, <3>2, <3>4
    <2> QED BY <1>8, <1>13, <2>2, <2>3 DEF AuditInv
  <1>16. CASE ~ToCredit(i)
    <2>1. credits'[i] = credits[i] /\ quota' = quota
      BY <1>1, <1>2, <1>3, <1>16 DEF PaymentTypeOK
    <2>2. credits[i] # 0 /\ CheckedOut(i) BY <1>11, <1>16 DEF ToCredit
    <2>3. CheckoutsInv' BY <1>4, <1>6, <1>9, <1>11, <1>14, <2>1, <2>2 DEF CheckoutsInv
    <2>4. PaidIn' = PaidIn BY <1>6, <2>2, PaidInStays
    <2>5. ASSUME \A j \in Intents : credits'[j] <= 1
          PROVE  quota'.balance = PaidIn' - TakenBack' + vain'
      <3>1. \A j \in Intents : credits[j] <= 1 BY <1>14, <2>1, <2>5
      <3> QED BY <1>1, <1>2, <1>7, <1>12, <2>1, <2>4, <3>1
    <2> QED BY <1>8, <1>13, <2>3, <2>5 DEF AuditInv
  <1> QED BY <1>15, <1>16

\* A refund takes its amount off the balance, or in vain, with the transition that says so.
LEMMA RefundAudit ==
  ASSUME PaymentTypeOK, AuditInv, RowsInv', NEW f \in Refunds, NEW i \in Intents,
         i = Returns[f].intent, Reverse(Returns[f].amount),
         intent' = [intent EXCEPT ![i] = AfterRefund(i, @.refunded + Returns[f].amount)],
         \A j \in Intents : j # i => order'[j] = order[j],
         order'[i].status = intent'[i].status,
         IsFiniteSet(applied'),
         Cardinality(Reversals(f)') = Cardinality(Reversals(f)) + 1,
         \A g \in Refunds : g # f => Reversals(g)' = Reversals(g),
         \A j \in Intents : CheckedOut(j)' <=> CheckedOut(j),
         UNCHANGED credits
  PROVE  AuditInv'
PROOF
  <1> DEFINE a == Returns[f].amount
  <1>1. CheckoutsInv /\ RefundsAgree /\ BalanceIsAudited BY DEF AuditInv
  <1>2. a \in Nat /\ Amount[i] \in Nat BY Returned, IntentsAssumption
  <1>3. \A j \in Intents : j # i => intent'[j] = intent[j] BY DEF PaymentTypeOK, Rows
  <1>4. /\ intent'[i].refunded = AfterRefund(i, intent[i].refunded + a).refunded
        /\ intent'[i].status \in {"refunded", "partially_refunded"}
    BY DEF PaymentTypeOK, Rows, AfterRefund
  <1>5. CheckoutsInv'
    <2>1. \A j \in Intents : order'[j].status = "paid" => order[j].status = "paid"
      <3> SUFFICES ASSUME NEW j \in Intents, order'[j].status = "paid"
                   PROVE  order[j].status = "paid"
        OBVIOUS
      <3>1. j # i BY <1>4
      <3> QED BY <3>1
    <2> QED BY <1>1, <2>1 DEF CheckoutsInv
  <1>6. IsFiniteSet(applied) BY <1>1 DEF CheckoutsInv
  <1> HIDE DEF a
  <1>7. RefundsAgree'
    <2> SUFFICES ASSUME NEW j \in Intents
                 PROVE  /\ order'[j].refunded = intent'[j].refunded
                        /\ intent'[j].refunded = Min({Amount[j], ReversedAmount(j)'})
      BY DEF RefundsAgree
    <2>1. order'[j].refunded = intent'[j].refunded BY DEF RowsInv
    <2>2. ReversedAmount(j) \in Nat BY <1>6, ReversedIsNat
    <2>3. ReversedAmount(j)' = ReversedAmount(j) + Part(j, f, 1) BY <1>6, OneMoreReversal
    <2>4. intent[j].refunded = Min({Amount[j], ReversedAmount(j)}) BY <1>1 DEF RefundsAgree
    <2>5. CASE j # i
      <3>1. Part(j, f, 1) = 0 BY <2>5 DEF Part
      <3>2. ReversedAmount(j)' = ReversedAmount(j) BY <2>2, <2>3, <3>1
      <3> QED BY <1>3, <2>1, <2>4, <2>5, <3>2
    <2>6. CASE j = i
      <3>1. Part(i, f, 1) = a BY <1>2 DEF Part, a
      <3> DEFINE r == ReversedAmount(i)
                 n == intent[i].refunded
      <3>2. r \in Nat /\ ReversedAmount(i)' = r + a BY <2>2, <2>3, <2>6, <3>1
      <3>3. n = IF Amount[i] <= r THEN Amount[i] ELSE r
        BY <1>2, <2>4, <2>6, <3>2, LeastOfTwo
      <3>4. Min({Amount[i], r + a}) = IF Amount[i] <= r + a THEN Amount[i] ELSE r + a
        BY <1>2, <3>2, LeastOfTwo
      <3>5. intent'[i].refunded = IF n + a > Amount[i] THEN Amount[i] ELSE n + a
        BY <1>4 DEF AfterRefund
      <3> HIDE DEF r, n
      <3>6. intent'[i].refunded = Min({Amount[i], r + a}) BY <1>2, <3>2, <3>3, <3>4, <3>5
      <3> QED BY <2>1, <2>6, <3>2, <3>6
    <2> QED BY <2>5, <2>6
  <1>8. PaidIn' = PaidIn /\ TakenBack' = TakenBack + a
    BY <1>6, PaidInStays, TakenBackGrows DEF a
  <1>9. quota'.balance - vain' = quota.balance - vain - a /\ quota'.balance \in Int /\ vain' \in Int
    <2>1. quota.balance \in Int /\ vain \in Int BY DEF PaymentTypeOK
    <2>2. CASE quota.exists
      <3>1. quota'.balance = quota.balance - a /\ vain' = vain
        BY <2>2 DEF Reverse, PaymentTypeOK, a
      <3> QED BY <1>2, <2>1, <3>1
    <2>3. CASE ~quota.exists
      <3>1. quota' = quota /\ vain' = vain + a BY <2>3 DEF Reverse, a
      <3> QED BY <1>2, <2>1, <3>1
    <2> QED BY <2>2, <2>3
  <1>10. quota.balance \in Int /\ vain \in Int /\ PaidIn \in Int /\ TakenBack \in Int
    BY <1>6, PaidInType, TakenBackType DEF PaymentTypeOK
  <1>11. BalanceIsAudited <=> ((\A j \in Intents : credits[j] <= 1) =>
                                 quota.balance = PaidIn - TakenBack + vain)
    BY AuditedSum
  <1>12. BalanceIsAudited' <=> ((\A j \in Intents : credits'[j] <= 1) =>
                                  quota'.balance = PaidIn' - TakenBack' + vain')
    BY DEF BalanceIsAudited, PaidIn, TakenBack
  <1>13. ASSUME \A j \in Intents : credits'[j] <= 1
         PROVE  quota'.balance = PaidIn' - TakenBack' + vain'
    <2>1. quota.balance = PaidIn - TakenBack + vain BY <1>1, <1>11, <1>13
    <2> QED BY <1>2, <1>8, <1>9, <1>10, <2>1
  <1> QED BY <1>5, <1>7, <1>12, <1>13 DEF AuditInv

LEMMA ApplyRefundAudit ==
  ASSUME PaymentInv, PaymentInv', AuditInv, NEW d \in deliveries, ApplyRefund(d)
  PROVE  AuditInv'
PROOF
  <1> DEFINE f == Announces[d.event]
             i == Returns[f].intent
  <1>1. PaymentTypeOK /\ RowsInv' /\ IsFiniteSet(applied) BY DEF PaymentInv, AuditInv, CheckoutsInv
  <1>2. /\ d.event \in Events /\ d.event \notin applied
        /\ applied' = applied \cup {d.event} /\ UNCHANGED <<entered, credits>>
        /\ f \in Refunds /\ i \in Intents /\ Reverse(Returns[f].amount)
        /\ intent' = [intent EXCEPT ![i] = AfterRefund(i, @.refunded + Returns[f].amount)]
    BY <1>1, Returned DEF ApplyRefund, Begin, New, PaymentTypeOK
  <1>3. order' = [order EXCEPT ![i] =
             [status |-> intent'[i].status,
              refunded |-> AfterRefund(i, @.refunded + Returns[f].amount).refunded]]
    BY DEF ApplyRefund
  <1>4. /\ \A j \in Intents : j # i => order'[j] = order[j]
        /\ order'[i].status = intent'[i].status
    BY <1>1, <1>2, <1>3 DEF PaymentTypeOK, Rows
  <1>5. IsFiniteSet(applied') BY <1>1, <1>2, FS_AddElement
  <1>6. Cardinality(Reversals(f)') = Cardinality(Reversals(f)) + 1
    <2>1. IsFiniteSet(Reversals(f)) BY <1>1, <1>2, ReversalsFinite
    <2>2. d.event \notin Reversals(f) BY <1>2, EventsAssumption DEF Reversals
    <2>3. Reversals(f)' = Reversals(f) \cup {d.event} BY <1>2 DEF Reversals
    <2> QED BY <2>1, <2>2, <2>3, FS_AddElement
  <1>7. \A g \in Refunds : g # f => Reversals(g)' = Reversals(g) BY <1>2 DEF Reversals
  <1>8. \A j \in Intents : CheckedOut(j)' <=> CheckedOut(j)
    BY <1>2, EventsAssumption DEF CheckedOut
  <1> HIDE DEF f, i
  <1>9. i = Returns[f].intent BY DEF i
  <1> QED BY <1>1, <1>2, <1>4, <1>5, <1>6, <1>7, <1>8, <1>9, RefundAudit

LEMMA RecordTopupRefundAudit ==
  ASSUME PaymentInv, PaymentInv', AuditInv, NEW f \in Refunds, RecordTopupRefund(f)
  PROVE  AuditInv'
PROOF
  <1> DEFINE i == Returns[f].intent
  <1>1. PaymentTypeOK /\ RowsInv' /\ IsFiniteSet(applied) BY DEF PaymentInv, AuditInv, CheckoutsInv
  <1>2. /\ f \notin entered /\ entered' = entered \cup {f} /\ UNCHANGED <<applied, credits>>
        /\ i \in Intents /\ Reverse(Returns[f].amount)
        /\ intent' = [intent EXCEPT ![i] = AfterRefund(i, @.refunded + Returns[f].amount)]
        /\ order' = [order EXCEPT ![i] =
             [status |-> intent'[i].status, refunded |-> @.refunded + Returns[f].amount]]
    BY Returned DEF RecordTopupRefund
  <1>3. /\ \A j \in Intents : j # i => order'[j] = order[j]
        /\ order'[i].status = intent'[i].status
    BY <1>1, <1>2 DEF PaymentTypeOK, Rows
  <1>4. Cardinality(Reversals(f)') = Cardinality(Reversals(f)) + 1
    <2>1. IsFiniteSet(Reversals(f)) BY <1>1, ReversalsFinite
    <2>2. f \notin Reversals(f)
      <3>1. f \notin applied BY <1>1, EventsAssumption DEF PaymentTypeOK
      <3> QED BY <1>2, <3>1 DEF Reversals
    <2>3. Reversals(f)' = Reversals(f) \cup {f} BY <1>2 DEF Reversals
    <2> QED BY <2>1, <2>2, <2>3, FS_AddElement
  <1>5. \A g \in Refunds : g # f => Reversals(g)' = Reversals(g) BY <1>2 DEF Reversals
  <1>6. \A j \in Intents : CheckedOut(j)' <=> CheckedOut(j) BY <1>2 DEF CheckedOut
  <1> HIDE DEF i
  <1>7. i = Returns[f].intent BY DEF i
  <1> QED BY <1>1, <1>2, <1>3, <1>4, <1>5, <1>6, <1>7, RefundAudit

LEMMA StepAudit == PaymentInv /\ PaymentInv' /\ AuditInv /\ [PaymentNext]_paymentVars => AuditInv'
PROOF
  <1> SUFFICES ASSUME PaymentInv, PaymentInv', AuditInv, [PaymentNext]_paymentVars PROVE AuditInv'
    OBVIOUS
  <1>1. PaymentTypeOK BY DEF PaymentInv
  <1>2. ASSUME UNCHANGED money PROVE AuditInv'
    <2>1. UNCHANGED <<intent, order, quota, applied, entered, credits, vain>> BY <1>2 DEF money
    <2> QED BY <2>1, QuietAudit
  <1>3. ASSUME NEW i \in Intents, Checkout(i) PROVE AuditInv'
    <2>1. UNCHANGED <<quota, applied, entered, credits, vain>>
      BY <1>3 DEF Checkout, CreatePaymentIntent, CreatePendingTopup, CreateCheckoutSession,
                  MarkPaymentIntentFailed, MarkTopupOrderFailed, Ask
    <2>2. \A j \in Intents : /\ intent'[j].refunded = intent[j].refunded
                             /\ order'[j].refunded = order[j].refunded
                             /\ order'[j].status = "paid" => order[j].status = "paid"
      BY <1>1, <1>3 DEF PaymentTypeOK, Rows, Checkout, CreatePaymentIntent, CreatePendingTopup,
                  CreateCheckoutSession, MarkPaymentIntentFailed, MarkTopupOrderFailed
    <2> QED BY <2>1, <2>2, QuietAudit
  <1>4. ASSUME NEW i \in Intents, Pay(i) PROVE AuditInv' BY <1>2, <1>4 DEF Pay
  <1>5. ASSUME NEW f \in Refunds, MakeRefund(f) PROVE AuditInv' BY <1>2, <1>5 DEF MakeRefund
  <1>6. ASSUME NEW f \in Refunds, RecordTopupRefund(f) PROVE AuditInv'
    BY <1>6, RecordTopupRefundAudit
  <1>7. ASSUME NEW e \in Events, RecordWebhookEvent(e) PROVE AuditInv'
    BY <1>2, <1>7 DEF RecordWebhookEvent
  <1>8. ASSUME NEW d \in deliveries, Skip(d) PROVE AuditInv' BY <1>2, <1>8 DEF Skip
  <1>9. ASSUME NEW d \in deliveries, ApplyCheckout(d) PROVE AuditInv' BY <1>9, ApplyCheckoutAudit
  <1>10. ASSUME NEW d \in deliveries, ApplyRefund(d) PROVE AuditInv' BY <1>10, ApplyRefundAudit
  <1>11. ASSUME NEW d \in deliveries, Drop(d) PROVE AuditInv' BY <1>2, <1>11 DEF Drop
  <1>12. ASSUME GetOrCreateQuotaRow PROVE AuditInv'
    <2>1. /\ quota' = [quota EXCEPT !.exists = TRUE]
          /\ UNCHANGED <<intent, order, applied, entered, credits, vain>>
      BY <1>12 DEF GetOrCreateQuotaRow
    <2>2. quota'.balance = quota.balance BY <1>1, <2>1 DEF PaymentTypeOK
    <2> QED BY <2>1, <2>2, QuietAudit
  <1>13. CASE UNCHANGED paymentVars BY <1>2, <1>13 DEF paymentVars
  <1> QED BY <1>3, <1>4, <1>5, <1>6, <1>7, <1>8, <1>9, <1>10, <1>11, <1>12, <1>13
      DEF PaymentNext, Handle

-----------------------------------------------------------------------------
(* The theorems                                                             *)

\* Every variable keeps its type, orders come after their requests, and intents,
\* orders and transitions agree: the inductive invariant.
THEOREM PaymentInvariant == PaymentSpec => []PaymentInv
PROOF BY InitPayment, StepPayment, PTL DEF PaymentSpec

\* Every variable keeps its type.
THEOREM PaymentTypeCorrect == PaymentSpec => []PaymentTypeOK
PROOF
  <1>1. PaymentInv => PaymentTypeOK BY DEF PaymentInv
  <1> QED BY <1>1, PaymentInvariant, PTL

\* The rows the webhooks and the administrators write agree on what was refunded,
\* and it is never more than was paid: although each reads another row before.
THEOREM RowsAgree == PaymentSpec => []RowsInv
PROOF
  <1>1. PaymentInv => RowsInv BY DEF PaymentInv
  <1> QED BY <1>1, PaymentInvariant, PTL

\* However many events announce a payment, it is credited once, unless it was
\* refunded in between.
THEOREM CreditedAtMostOnce == PaymentSpec => []CreditedOnce
PROOF
  <1>1. PaymentInv => CreditedOnce
    BY DEF PaymentInv, CreditInv, CreditedOnce, PaymentTypeOK
  <1> QED BY <1>1, PaymentInvariant, PTL

\* With it, the transitions account for the credits, the refunds and the balance:
\* the inductive invariant of the audit.
THEOREM AuditInvariant == PaymentSpec => [](PaymentInv /\ AuditInv)
PROOF BY InitPayment, StepPayment, InitAudit, StepAudit, PTL DEF PaymentSpec

\* Whatever the webhooks and the administrators did in whatever order, intent and
\* order say that the refunds of the audited transitions were taken back, up to
\* what was paid.
THEOREM RefundsAlwaysAgree == PaymentSpec => []RefundsAgree
PROOF
  <1>1. AuditInv => RefundsAgree BY DEF AuditInv
  <1> QED BY <1>1, AuditInvariant, PTL

\* An auditor who adds up the transitions finds the balance.
THEOREM BalanceAudited == PaymentSpec => []BalanceIsAudited
PROOF
  <1>1. AuditInv => BalanceIsAudited BY DEF AuditInv
  <1> QED BY <1>1, AuditInvariant, PTL
-----------------------------------------------------------------------------
(* Compensation: type correctness                                           *)

LEMMA TaskFields ==
  ASSUME NEW t \in Tasks
  PROVE  /\ t[1] \in Requests /\ t[2] \in Scopes /\ t = <<t[1], t[2]>>
         /\ t[2] \in Required[t[1]]
PROOF BY DEF Tasks

LEMMA CompensationInitType == CompensationInit => CompensationTypeOK
PROOF BY BoundsAssumption DEF CompensationInit, CompensationTypeOK, AbsentJob, JobType

\* What a refund does to sessions and receipts keeps their types.
LEMMA RefundScopeType ==
  ASSUME CompensationTypeOK, NEW a \in Agents, NEW t \in Tasks,
         RefundScope(a, t) \/ UNCHANGED <<session, receipts, refunds>>
  PROVE  /\ session' \in [Requests -> {"preauthorized", "refunded", "settled"}]
         /\ receipts' \subseteq Requests
         /\ refunds' \in [Requests -> Nat]
PROOF
  <1>0. t[1] \in Requests BY TaskFields
  <1>1. CASE UNCHANGED <<session, receipts, refunds>> BY <1>1 DEF CompensationTypeOK
  <1>2. CASE RefundSession(t[1]) BY <1>0, <1>2 DEF CompensationTypeOK, RefundSession
  <1>3. CASE RefundRelayAPITokenQuota(t[1])
    BY <1>0, <1>3 DEF CompensationTypeOK, RefundRelayAPITokenQuota
  <1>4. CASE RefundRelayAPITokenQuotaOnce(a, t[1])
    BY <1>0, <1>4 DEF CompensationTypeOK, RefundRelayAPITokenQuotaOnce
  <1> QED BY <1>1, <1>2, <1>3, <1>4 DEF RefundScope

LEMMA AttemptType ==
  ASSUME CompensationTypeOK, NEW a \in Agents, NEW t \in Tasks, NEW ok \in BOOLEAN, Attempt(a, t, ok)
  PROVE  /\ todo' \in [Agents -> SUBSET Tasks]
         /\ report' \in [Agents -> (Requests \X Scopes \X BOOLEAN) \cup {NoReport}]
PROOF
  <1>1. <<t[1], t[2], ok>> \in Requests \X Scopes \X BOOLEAN BY TaskFields
  <1> QED BY <1>1 DEF CompensationTypeOK, Attempt

\* The rows the statements write are rows.
LEMMA RowTypes ==
  ASSUME NEW job \in JobType
  PROVE  /\ [job EXCEPT !.due = TRUE] \in JobType
         /\ [job EXCEPT !.status = "pending", !.due = TRUE] \in JobType
         /\ [job EXCEPT !.status = "failed", !.lockedBy = NoWorker, !.due = FALSE] \in JobType
         /\ \A w \in Workers :
              [job EXCEPT !.status = "processing", !.lockedBy = w, !.due = FALSE] \in JobType
         /\ \A c \in SUBSET Scopes :
              /\ [status |-> "succeeded", completed |-> c, lockedBy |-> NoWorker, due |-> TRUE]
                   \in JobType
              /\ [job EXCEPT !.status = "pending", !.completed = c, !.due = TRUE] \in JobType
PROOF BY DEF JobType

LEMMA CompensationStepType == CompensationTypeOK /\ [CompensationNext]_compensationVars => CompensationTypeOK'
PROOF
  <1> SUFFICES ASSUME CompensationTypeOK, [CompensationNext]_compensationVars PROVE CompensationTypeOK'
    OBVIOUS
  <1> USE DEF CompensationTypeOK
  <1>0. \A r \in Requests : r \in Agents /\ TasksOf(r) \subseteq Tasks
    BY DEF Agents, TasksOf
  <1>1. ASSUME NEW r \in Requests, Arm(r) \/ ArmFails(r) PROVE CompensationTypeOK'
    <2>1. jobs' \in [Requests -> JobType]
      <3>1. [jobs[r] EXCEPT !.status = "pending", !.due = TRUE] \in JobType BY RowTypes
      <3> QED BY <1>1, <3>1 DEF Arm, ArmFails
    <2>2. told' \in [Requests -> {"unarmed", "armed", "fallback", "crashed"}]
      BY <1>1 DEF Arm, ArmFails
    <2>3. todo' \in [Agents -> SUBSET Tasks] BY <1>0, <1>1 DEF Arm, ArmFails
    <2> QED BY <1>1, <2>1, <2>2, <2>3 DEF Arm, ArmFails
  <1>2. ASSUME NEW r \in Requests, BecomeDue(r) PROVE CompensationTypeOK'
    <2>1. jobs' \in [Requests -> JobType]
      <3>1. [jobs[r] EXCEPT !.due = TRUE] \in JobType BY RowTypes
      <3> QED BY <1>2, <3>1 DEF BecomeDue
    <2>2. overruns' \in 0 .. OverrunBound
      BY <1>2, BoundsAssumption DEF BecomeDue
    <2> QED BY <1>2, <2>1, <2>2 DEF BecomeDue
  <1>3. ASSUME NEW r \in Requests, SettleElsewhere(r) PROVE CompensationTypeOK'
    BY <1>3 DEF SettleElsewhere
  <1>4. ASSUME NEW w \in Workers, NEW batch \in SUBSET Requests, Claim(w, batch)
        PROVE  CompensationTypeOK'
    <2>1. jobs' \in [Requests -> JobType]
      <3>1. \A r \in Requests :
              [jobs[r] EXCEPT !.status = "processing", !.lockedBy = w, !.due = FALSE] \in JobType
        BY RowTypes
      <3> QED BY <1>4, <3>1 DEF Claim
    <2>2. \A r \in batch : Unfinished(r) \subseteq Tasks BY <1>0 DEF Unfinished
    <2>3. UNION {Unfinished(r) : r \in batch} \in SUBSET Tasks BY <2>2
    <2>4. todo' \in [Agents -> SUBSET Tasks]
      <3> HIDE DEF CompensationTypeOK
      <3>1. todo \in [Agents -> SUBSET Tasks] BY DEF CompensationTypeOK
      <3> QED BY <1>4, <2>3, <3>1 DEF Claim
    <2> QED BY <1>4, <2>1, <2>4 DEF Claim
  <1>5. ASSUME NEW a \in Agents, NEW t \in Tasks, RefundSucceeds(a, t) \/ RefundFails(a, t)
        PROVE  CompensationTypeOK'
    BY <1>5, RefundScopeType, AttemptType DEF RefundSucceeds, RefundFails, Attempt
  <1>6. ASSUME NEW a \in Agents, NEW r \in Requests, NEW s \in Scopes,
               MarkScopeSucceeded(a, r, s)
        PROVE  CompensationTypeOK'
    <2>1. jobs' \in [Requests -> JobType]
      <3> DEFINE c == jobs[r].completed \cup {s}
      <3>1. c \in SUBSET Scopes BY DEF JobType
      <3>2. /\ [status |-> "succeeded", completed |-> c, lockedBy |-> NoWorker, due |-> TRUE]
                 \in JobType
            /\ [jobs[r] EXCEPT !.status = "pending", !.completed = c, !.due = TRUE] \in JobType
        BY <3>1, RowTypes
      <3> HIDE DEF CompensationTypeOK
      <3>3. jobs \in [Requests -> JobType] BY DEF CompensationTypeOK
      <3> QED BY <1>6, <3>2, <3>3 DEF MarkScopeSucceeded
    <2> QED BY <1>6, <2>1 DEF MarkScopeSucceeded
  <1>7. ASSUME NEW a \in Agents, NEW r \in Requests, NEW s \in Scopes, MarkScopeFailed(a, r, s)
        PROVE  CompensationTypeOK'
    <2>1. jobs' \in [Requests -> JobType]
      <3>1. [jobs[r] EXCEPT !.status = "failed", !.lockedBy = NoWorker, !.due = FALSE] \in JobType
        BY RowTypes
      <3> QED BY <1>7, <3>1 DEF MarkScopeFailed
    <2> QED BY <1>7, <2>1 DEF MarkScopeFailed
  <1>8. ASSUME NEW a \in Agents, MarkLost(a) PROVE CompensationTypeOK' BY <1>8 DEF MarkLost
  <1>9. ASSUME NEW a \in Agents, Crash(a) PROVE CompensationTypeOK' BY <1>9 DEF Crash
  <1>10. CASE UNCHANGED compensationVars BY <1>10 DEF compensationVars
  <1> QED
    BY <1>1, <1>2, <1>3, <1>4, <1>5, <1>6, <1>7, <1>8, <1>9, <1>10 DEF CompensationNext

\* Every variable keeps its type.
THEOREM CompensationTypeCorrect == CompensationSpec => []CompensationTypeOK
PROOF
  <1>1. CompensationInit => CompensationTypeOK BY CompensationInitType
  <1>2. CompensationTypeOK /\ [CompensationNext]_compensationVars => CompensationTypeOK' BY CompensationStepType
  <1> QED BY <1>1, <1>2, PTL DEF CompensationSpec

-----------------------------------------------------------------------------
(* Compensation: the invariant                                              *)

LEMMA InitInv == CompensationInit => CompensationInv
PROOF
  <1> SUFFICES ASSUME CompensationInit PROVE CompensationInv OBVIOUS
  <1>1. CompensationTypeOK BY CompensationInitType
  <1>2. CompletedMeansRefunded BY DEF CompensationInit, CompletedMeansRefunded, AbsentJob
  <1>3. ClosedMeansDone
    <2>1. \A r \in Requests : Required[r] # {} BY RequiredAssumption
    <2> QED BY <2>1 DEF CompensationInit, ClosedMeansDone, AllDone, AbsentJob
  <1>4. ReportsAreTrue
    <2>1. \A r \in Requests, s \in Scopes, ok \in BOOLEAN : NoReport # <<r, s, ok>>
      BY ReportAssumption
    <2> QED BY <2>1 DEF CompensationInit, ReportsAreTrue
  <1>5. OwnTasks BY DEF CompensationInit, OwnTasks, Agents
  <1>6. RefundsAreReceipts BY DEF CompensationInit, RefundsAreReceipts
  <1> QED BY <1>1, <1>2, <1>3, <1>4, <1>5, <1>6 DEF CompensationInv

\* A refund is never undone and, once it succeeded, is there.
LEMMA RefundScopeEffect ==
  ASSUME CompensationTypeOK, NEW a \in Agents, NEW t \in Tasks,
         RefundScope(a, t) \/ UNCHANGED <<session, receipts, refunds>>
  PROVE  /\ \A r \in Requests, s \in Scopes : Refunded(r, s) => Refunded(r, s)'
         /\ RefundScope(a, t) /\ ~(a \in Requests /\ told[a] = "fallback")
              => Refunded(t[1], t[2])'
PROOF
  <1>0. t[1] \in Requests /\ t[2] \in Scopes BY TaskFields
  <1>1. CASE UNCHANGED <<session, receipts, refunds>> /\ ~RefundScope(a, t)
    BY <1>1 DEF Refunded
  <1>2. CASE t[2] = "organization" /\ RefundScope(a, t)
    BY <1>0, <1>2 DEF RefundScope, RefundSession, Refunded, CompensationTypeOK
  <1>3. CASE t[2] # "organization" /\ RefundScope(a, t)
    BY <1>0, <1>3 DEF RefundScope, RefundRelayAPITokenQuota, RefundRelayAPITokenQuotaOnce,
       Refunded, CompensationTypeOK
  <1> QED BY <1>1, <1>2, <1>3

\* The jobs' part is kept by a step that leaves jobs alone or only relabels a job
\* that is not closed, and undoes no refund.
LEMMA JobsKept ==
  ASSUME CompletedMeansRefunded, ClosedMeansDone,
         \A r \in Requests, s \in Scopes : Refunded(r, s) => Refunded(r, s)',
         CompensationTypeOK,
         \A r \in Requests :
           \/ jobs'[r] = jobs[r]
           \/ /\ jobs[r].status # "succeeded" /\ jobs'[r].status # "succeeded"
              /\ jobs'[r].completed = jobs[r].completed
  PROVE  CompletedMeansRefunded' /\ ClosedMeansDone'
PROOF
  <1>1. \A r \in Requests : jobs[r].completed \subseteq Scopes BY DEF CompensationTypeOK, JobType
  <1>2. CompletedMeansRefunded' BY <1>1 DEF CompletedMeansRefunded
  <1>3. ClosedMeansDone' BY DEF ClosedMeansDone, AllDone
  <1> QED BY <1>2, <1>3

LEMMA StepInv == CompensationInv /\ [CompensationNext]_compensationVars => CompensationInv'
PROOF
  <1> SUFFICES ASSUME CompensationInv, [CompensationNext]_compensationVars PROVE CompensationInv'
    OBVIOUS
  <1>0. /\ CompensationTypeOK /\ CompletedMeansRefunded /\ ClosedMeansDone
        /\ ReportsAreTrue /\ OwnTasks /\ RefundsAreReceipts
        /\ CompensationTypeOK'
    BY CompensationStepType DEF CompensationInv
  <1>a. /\ jobs \in [Requests -> JobType] /\ todo \in [Agents -> SUBSET Tasks]
        /\ told \in [Requests -> {"unarmed", "armed", "fallback", "crashed"}]
        /\ report \in [Agents -> (Requests \X Scopes \X BOOLEAN) \cup {NoReport}]
        /\ Requests \subseteq Agents /\ Requests \cap Workers = {}
        /\ \A r \in Requests, s \in Scopes, ok \in BOOLEAN : NoReport # <<r, s, ok>>
        /\ \A r \in Requests : Required[r] # {}
    BY <1>0, AgentsAssumption, ReportAssumption, RequiredAssumption DEF CompensationTypeOK, Agents
  <1>b. ASSUME UNCHANGED <<session, receipts>>
        PROVE  \A r \in Requests, s \in Scopes : Refunded(r, s) <=> Refunded(r, s)'
    BY <1>b DEF Refunded
  <1>1. ASSUME NEW r \in Requests, Arm(r) \/ ArmFails(r) PROVE CompensationInv'
    <2>1. UNCHANGED <<session, receipts, refunds, report>> BY <1>1 DEF Arm, ArmFails
    <2>2. ClosedMeansDone' /\ CompletedMeansRefunded'
      <3>1. CASE ArmFails(r) BY <1>0, <1>a, <1>b, <2>1, <3>1, JobsKept DEF ArmFails
      <3>2. CASE Arm(r)
        <4>1. \A q \in Requests :
                \/ jobs'[q] = jobs[q]
                \/ /\ jobs[q].status # "succeeded" /\ jobs'[q].status # "succeeded"
                   /\ jobs'[q].completed = jobs[q].completed
          <5>1. jobs[r] \in JobType BY <1>a
          <5> QED BY <1>a, <3>2, <5>1 DEF Arm, JobType
        <4> QED BY <1>0, <1>b, <2>1, <4>1, JobsKept
      <3> QED BY <1>1, <3>1, <3>2
    <2>3. ReportsAreTrue' BY <1>0, <1>b, <2>1 DEF ReportsAreTrue
    <2>4. OwnTasks' BY <1>0, <1>1, <1>a DEF OwnTasks, Arm, ArmFails, TasksOf
    <2>5. RefundsAreReceipts'
      BY <1>0, <1>1, <1>a, <2>1 DEF RefundsAreReceipts, Arm, ArmFails
    <2> QED BY <1>0, <2>2, <2>3, <2>4, <2>5 DEF CompensationInv
  <1>2. ASSUME NEW r \in Requests, BecomeDue(r) PROVE CompensationInv'
    <2>1. UNCHANGED <<session, receipts, refunds, report, told, todo>>
      BY <1>2 DEF BecomeDue
    <2>2. \A q \in Requests :
            \/ jobs'[q] = jobs[q]
            \/ /\ jobs[q].status # "succeeded" /\ jobs'[q].status # "succeeded"
               /\ jobs'[q].completed = jobs[q].completed
      <3>1. jobs[r] \in JobType BY <1>a
      <3>2. /\ jobs' = [jobs EXCEPT ![r] = [jobs[r] EXCEPT !.due = TRUE]]
            /\ jobs[r].status # "succeeded"
        BY <1>2, <1>a DEF BecomeDue
      <3> QED BY <1>a, <3>1, <3>2 DEF JobType
    <2>3. CompletedMeansRefunded' /\ ClosedMeansDone' BY <1>0, <1>b, <2>1, <2>2, JobsKept
    <2>4. ReportsAreTrue' /\ OwnTasks' /\ RefundsAreReceipts'
      BY <1>0, <1>b, <2>1 DEF ReportsAreTrue, OwnTasks, RefundsAreReceipts, TasksOf
    <2> QED BY <1>0, <2>3, <2>4 DEF CompensationInv
  <1>3. ASSUME NEW r \in Requests, SettleElsewhere(r) PROVE CompensationInv'
    <2>1. UNCHANGED <<jobs, receipts, refunds, told, todo, report>>
      BY <1>3 DEF SettleElsewhere
    <2>2. \A q \in Requests, s \in Scopes : Refunded(q, s) => Refunded(q, s)'
      BY <1>0, <1>3 DEF SettleElsewhere, Refunded, CompensationTypeOK
    <2>3. CompletedMeansRefunded' /\ ClosedMeansDone' BY <1>0, <2>1, <2>2, JobsKept
    <2>4. ReportsAreTrue' /\ OwnTasks' /\ RefundsAreReceipts'
      BY <1>0, <2>1, <2>2 DEF ReportsAreTrue, OwnTasks, RefundsAreReceipts, TasksOf
    <2> QED BY <1>0, <2>3, <2>4 DEF CompensationInv
  <1>4. ASSUME NEW w \in Workers, NEW batch \in SUBSET Requests, Claim(w, batch)
        PROVE  CompensationInv'
    <2>1. UNCHANGED <<session, receipts, refunds, told, report>> BY <1>4 DEF Claim
    <2>2. \A q \in Requests :
            \/ jobs'[q] = jobs[q]
            \/ /\ jobs[q].status # "succeeded" /\ jobs'[q].status # "succeeded"
               /\ jobs'[q].completed = jobs[q].completed
      <3> SUFFICES ASSUME NEW q \in Requests, q \in batch
                   PROVE  /\ jobs[q].status # "succeeded" /\ jobs'[q].status # "succeeded"
                          /\ jobs'[q].completed = jobs[q].completed
        BY <1>4 DEF Claim
      <3>1. jobs[q] \in JobType /\ jobs[q].status # "succeeded"
        BY <1>4, <1>a DEF Claim, Claimable
      <3>2. jobs'[q] = [jobs[q] EXCEPT !.status = "processing", !.lockedBy = w, !.due = FALSE]
        BY <1>4 DEF Claim
      <3> QED BY <3>1, <3>2 DEF JobType
    <2>3. CompletedMeansRefunded' /\ ClosedMeansDone' BY <1>0, <1>b, <2>1, <2>2, JobsKept
    <2>4. \A r \in Requests : todo'[r] = todo[r]
      BY <1>4, <1>a DEF Claim
    <2>5. ReportsAreTrue' /\ OwnTasks' /\ RefundsAreReceipts'
      BY <1>0, <1>b, <2>1, <2>4 DEF ReportsAreTrue, OwnTasks, RefundsAreReceipts, TasksOf
    <2> QED BY <1>0, <2>3, <2>5 DEF CompensationInv
  <1>5. ASSUME NEW a \in Agents, NEW t \in Tasks, NEW ok \in BOOLEAN,
               NextTask(a, t), Attempt(a, t, ok),
               RefundScope(a, t) \/ (~ok /\ UNCHANGED <<session, receipts, refunds>>)
        PROVE  CompensationInv'
    <2>0. t[1] \in Requests /\ t[2] \in Scopes /\ t = <<t[1], t[2]>> BY TaskFields
    <2>1. UNCHANGED <<jobs, told>> BY <1>5 DEF Attempt
    <2>2. /\ \A q \in Requests, s \in Scopes : Refunded(q, s) => Refunded(q, s)'
          /\ ok /\ ~(a \in Requests /\ told[a] = "fallback") => Refunded(t[1], t[2])'
      BY <1>0, <1>5, RefundScopeEffect
    <2>3. CompletedMeansRefunded' /\ ClosedMeansDone' BY <1>0, <2>1, <2>2, JobsKept
    <2>4. ReportsAreTrue'
      <3> SUFFICES ASSUME NEW b \in Agents, NEW q \in Requests, NEW s \in Scopes,
                          report'[b] = <<q, s, TRUE>>
                   PROVE  Refunded(q, s)'
        BY DEF ReportsAreTrue
      <3>1. CASE b # a
        <4>1. report'[b] = report[b] BY <1>5, <1>a, <3>1 DEF Attempt
        <4> QED BY <1>0, <2>2, <4>1 DEF ReportsAreTrue
      <3>2. CASE b = a
        <4>1. report'[a] = IF a \in Requests /\ told[a] = "fallback" THEN NoReport
                           ELSE <<t[1], t[2], ok>>
          BY <1>5, <1>a DEF Attempt
        <4>2. /\ ~(a \in Requests /\ told[a] = "fallback")
              /\ <<t[1], t[2], ok>> = <<q, s, TRUE>>
          BY <1>a, <3>2, <4>1
        <4>3. t[1] = q /\ t[2] = s /\ ok = TRUE BY <4>2
        <4> QED BY <2>2, <4>2, <4>3
      <3> QED BY <3>1, <3>2
    <2>5. OwnTasks'
      <3>1. \A r \in Requests : todo'[r] \subseteq todo[r] BY <1>5, <1>a DEF Attempt
      <3> QED BY <1>0, <3>1 DEF OwnTasks, TasksOf
    <2>6. RefundsAreReceipts'
      <3>1. refunds \in [Requests -> Nat] BY <1>0 DEF CompensationTypeOK
      <3>2. CASE UNCHANGED <<receipts, refunds>>
        BY <1>0, <2>1, <3>2 DEF RefundsAreReceipts
      <3>3. CASE RefundRelayAPITokenQuotaOnce(a, t[1])
        BY <1>0, <2>0, <2>1, <3>1, <3>3 DEF RefundsAreReceipts, RefundRelayAPITokenQuotaOnce
      <3>4. CASE RefundRelayAPITokenQuota(t[1]) /\ a \in Requests /\ told[a] = "fallback"
        <4>1. t \in todo[a] BY <1>5 DEF NextTask
        <4>2. t[1] = a BY <1>0, <3>4, <4>1 DEF OwnTasks, TasksOf
        <4> QED BY <1>0, <2>0, <2>1, <3>1, <3>4, <4>2
            DEF RefundsAreReceipts, RefundRelayAPITokenQuota
      <3> QED BY <1>5, <3>2, <3>3, <3>4 DEF RefundScope, RefundSession
    <2> QED BY <1>0, <2>3, <2>4, <2>5, <2>6 DEF CompensationInv
  <1>6. ASSUME NEW a \in Agents, UNCHANGED <<session, receipts, refunds, told, todo>>,
               report' = [report EXCEPT ![a] = NoReport],
               CompletedMeansRefunded' /\ ClosedMeansDone'
        PROVE  CompensationInv'
    <2>1. ReportsAreTrue'
      <3> SUFFICES ASSUME NEW b \in Agents, NEW q \in Requests, NEW s \in Scopes,
                          report'[b] = <<q, s, TRUE>>
                   PROVE  Refunded(q, s)'
        BY DEF ReportsAreTrue
      <3>1. b # a BY <1>6, <1>a
      <3>2. report'[b] = report[b] BY <1>6, <1>a, <3>1
      <3> QED BY <1>0, <1>6, <1>b, <3>2 DEF ReportsAreTrue
    <2>2. OwnTasks' /\ RefundsAreReceipts'
      BY <1>0, <1>6 DEF OwnTasks, RefundsAreReceipts, TasksOf
    <2> QED BY <1>0, <1>6, <2>1, <2>2 DEF CompensationInv
  <1>7. ASSUME NEW a \in Agents, NEW r \in Requests, NEW s \in Scopes,
               MarkScopeSucceeded(a, r, s)
        PROVE  CompensationInv'
    <2> DEFINE c == jobs[r].completed \cup {s}
    <2>1. UNCHANGED <<session, receipts, refunds, told, todo>> /\ Refunded(r, s)
      BY <1>0, <1>7 DEF MarkScopeSucceeded, ReportsAreTrue
    <2>2. \A q \in Requests : jobs[q].completed \subseteq Scopes BY <1>a DEF JobType
    <2>3. CompletedMeansRefunded' /\ ClosedMeansDone'
      <3>1. CASE UNCHANGED jobs BY <1>0, <1>b, <2>1, <3>1, JobsKept
      <3>2. CASE Matches(a, r, s)
        <4>1. /\ \A q \in Requests : q # r => jobs'[q] = jobs[q]
              /\ jobs'[r].completed = c
              /\ jobs'[r].status = "succeeded" <=> AllDone(r, c)
          <5>1. jobs[r] \in JobType BY <1>a
          <5>2. CASE AllDone(r, c)
            <6>1. jobs' = [jobs EXCEPT ![r] = [status |-> "succeeded", completed |-> c,
                                               lockedBy |-> NoWorker, due |-> TRUE]]
              BY <1>7, <3>2, <5>2 DEF MarkScopeSucceeded
            <6> QED BY <1>a, <5>2, <6>1
          <5>3. CASE ~AllDone(r, c)
            <6>1. jobs' = [jobs EXCEPT ![r] =
                    [jobs[r] EXCEPT !.status = "pending", !.completed = c, !.due = TRUE]]
              BY <1>7, <1>a, <3>2, <5>3 DEF MarkScopeSucceeded
            <6> QED BY <1>a, <5>1, <5>3, <6>1 DEF JobType
          <5> QED BY <5>2, <5>3
        <4> HIDE DEF c
        <4>2. ClosedMeansDone' BY <1>0, <4>1 DEF ClosedMeansDone, AllDone
        <4>3. CompletedMeansRefunded'
          BY <1>0, <1>b, <2>1, <2>2, <4>1 DEF CompletedMeansRefunded, c
        <4> QED BY <4>2, <4>3
      <3> QED BY <1>7, <3>1, <3>2 DEF MarkScopeSucceeded
    <2> QED BY <1>6, <1>7, <2>1, <2>3 DEF MarkScopeSucceeded
  <1>8. ASSUME NEW a \in Agents, NEW r \in Requests, NEW s \in Scopes, MarkScopeFailed(a, r, s)
        PROVE  CompensationInv'
    <2>1. UNCHANGED <<session, receipts, refunds, told, todo>> BY <1>8 DEF MarkScopeFailed
    <2>2. CASE UNCHANGED jobs
      <3>1. CompletedMeansRefunded' /\ ClosedMeansDone' BY <1>0, <1>b, <2>1, <2>2, JobsKept
      <3> QED BY <1>6, <1>8, <2>1, <3>1 DEF MarkScopeFailed
    <2>3. CASE MayFail(a, r, s)
      <3>1. jobs[r] \in JobType BY <1>a
      <3>2. jobs' = [jobs EXCEPT ![r] =
                      [jobs[r] EXCEPT !.status = "failed", !.lockedBy = NoWorker, !.due = FALSE]]
        BY <1>8, <1>a, <2>3 DEF MarkScopeFailed
      <3>3. jobs[r].status # "succeeded"
        BY <1>0, <2>3 DEF MayFail, Matches, ClosedMeansDone, AllDone
      <3>4. /\ \A q \in Requests : q # r => jobs'[q] = jobs[q]
            /\ jobs'[r].status # "succeeded" /\ jobs'[r].completed = jobs[r].completed
        BY <1>a, <3>1, <3>2 DEF JobType
      <3>5. CompletedMeansRefunded' /\ ClosedMeansDone'
        BY <1>0, <1>b, <2>1, <3>3, <3>4, JobsKept
      <3> QED BY <1>6, <1>8, <2>1, <3>5 DEF MarkScopeFailed
    <2> QED BY <1>8, <2>2, <2>3 DEF MarkScopeFailed
  <1>9. ASSUME NEW a \in Agents, MarkLost(a) PROVE CompensationInv'
    <2>1. UNCHANGED <<jobs, session, receipts, refunds, told, todo>> BY <1>9 DEF MarkLost
    <2>2. CompletedMeansRefunded' /\ ClosedMeansDone' BY <1>0, <1>b, <2>1, JobsKept
    <2> QED BY <1>6, <1>9, <2>1, <2>2 DEF MarkLost
  <1>10. ASSUME NEW a \in Agents, Crash(a) PROVE CompensationInv'
    <2>1. UNCHANGED <<jobs, session, receipts, refunds>> BY <1>10 DEF Crash
    <2>2. CompletedMeansRefunded' /\ ClosedMeansDone' BY <1>0, <1>b, <2>1, JobsKept
    <2>3. ReportsAreTrue'
      <3> SUFFICES ASSUME NEW b \in Agents, NEW q \in Requests, NEW s \in Scopes,
                          report'[b] = <<q, s, TRUE>>
                   PROVE  Refunded(q, s)'
        BY DEF ReportsAreTrue
      <3>1. report'[b] = report[b] BY <1>10, <1>a DEF Crash
      <3> QED BY <1>0, <1>b, <2>1, <3>1 DEF ReportsAreTrue
    <2>4. OwnTasks'
      <3>1. \A r \in Requests : todo'[r] \subseteq todo[r] BY <1>10, <1>a DEF Crash
      <3> QED BY <1>0, <3>1 DEF OwnTasks, TasksOf
    <2>5. RefundsAreReceipts'
      <3>1. \A r \in Requests : told[r] = "fallback" => told'[r] = "fallback"
        BY <1>10, <1>a DEF Crash
      <3> QED BY <1>0, <2>1, <3>1 DEF RefundsAreReceipts
    <2> QED BY <1>0, <2>2, <2>3, <2>4, <2>5 DEF CompensationInv
  <1>11. CASE UNCHANGED compensationVars
    <2>1. UNCHANGED <<jobs, session, receipts, refunds, told, todo, report>> BY <1>11 DEF compensationVars
    <2>2. CompletedMeansRefunded' /\ ClosedMeansDone' BY <1>0, <1>b, <2>1, JobsKept
    <2>3. ReportsAreTrue' /\ OwnTasks' /\ RefundsAreReceipts'
      BY <1>0, <1>b, <2>1 DEF ReportsAreTrue, OwnTasks, RefundsAreReceipts, TasksOf
    <2> QED BY <1>0, <2>2, <2>3 DEF CompensationInv
  <1>12. ASSUME NEW a \in Agents, NEW t \in Tasks, RefundSucceeds(a, t) \/ RefundFails(a, t)
         PROVE  CompensationInv'
    BY <1>5, <1>12, TRUE \in BOOLEAN, FALSE \in BOOLEAN DEF RefundSucceeds, RefundFails
  <1> QED
    BY <1>1, <1>2, <1>3, <1>4, <1>7, <1>8, <1>9, <1>10, <1>11, <1>12 DEF CompensationNext

\* Jobs, receipts and reports agree in every state.
THEOREM CompensationInvariant == CompensationSpec => []CompensationInv
PROOF
  <1>1. CompensationInit => CompensationInv BY InitInv
  <1>2. CompensationInv /\ [CompensationNext]_compensationVars => CompensationInv' BY StepInv
  <1> QED BY <1>1, <1>2, PTL DEF CompensationSpec

\* No job claims a refund that did not happen.
THEOREM CompletedIsTrue == CompensationSpec => []CompletedMeansRefunded
PROOF
  <1>1. CompensationInv => CompletedMeansRefunded BY DEF CompensationInv
  <1> QED BY <1>1, CompensationInvariant, PTL

\* A token is refunded once by any number of processes and workers, unless
\* arming was reported as failed.
THEOREM RefundedOnce == CompensationSpec => []TokenRefundedOnce
PROOF
  <1>1. CompensationInv => TokenRefundedOnce
    BY DEF CompensationInv, RefundsAreReceipts, TokenRefundedOnce
  <1> QED BY <1>1, CompensationInvariant, PTL

\* No late mark of a slow process or a worker with a stale copy reopens a job or
\* a scope of it.
THEOREM CompletedStays == CompensationSpec => CompletedIsFinal
PROOF
  <1> DEFINE A == \A r \in Requests :
                    /\ jobs[r].completed \subseteq jobs'[r].completed
                    /\ jobs[r].status = "succeeded" => jobs'[r].status = "succeeded"
  <1>1. CompensationInv /\ [CompensationNext]_compensationVars => [A]_compensationVars
    <2> SUFFICES ASSUME CompensationInv, CompensationNext, NEW q \in Requests
                 PROVE  /\ jobs[q].completed \subseteq jobs'[q].completed
                        /\ jobs[q].status = "succeeded" => jobs'[q].status = "succeeded"
      OBVIOUS
    <2> DEFINE Kept == /\ jobs[q].completed \subseteq jobs'[q].completed
                       /\ jobs[q].status = "succeeded" => jobs'[q].status = "succeeded"
    <2>0. jobs \in [Requests -> JobType] /\ ClosedMeansDone
          /\ \A r \in Requests : jobs[r] \in JobType
          /\ CompletedMeansRefunded
      BY DEF CompensationInv, CompensationTypeOK
    <2>1. CASE UNCHANGED jobs BY <2>1
    <2>2. ASSUME NEW r \in Requests, Arm(r) \/ BecomeDue(r) PROVE Kept
      <3>1. CASE UNCHANGED jobs BY <3>1
      <3>2. CASE jobs[r].status # "succeeded"
        BY <2>0, <2>2, <3>2 DEF Arm, BecomeDue, JobType
      <3> QED BY <2>2, <3>1, <3>2 DEF Arm, BecomeDue
    <2>3. ASSUME NEW w \in Workers, NEW batch \in SUBSET Requests, Claim(w, batch) PROVE Kept
      <3>1. CASE q \notin batch BY <2>3, <3>1 DEF Claim
      <3>2. CASE q \in batch
        <4>1. jobs'[q] = [jobs[q] EXCEPT !.status = "processing", !.lockedBy = w, !.due = FALSE]
          BY <2>3, <3>2 DEF Claim
        <4> QED BY <2>0, <2>3, <3>2, <4>1 DEF Claim, Claimable, JobType
      <3> QED BY <3>1, <3>2
    <2>4. ASSUME NEW a \in Agents, NEW r \in Requests, NEW s \in Scopes,
                 MarkScopeSucceeded(a, r, s)
          PROVE  Kept
      <3> DEFINE c == jobs[r].completed \cup {s}
      <3>1. CASE UNCHANGED jobs BY <3>1
      <3>2. CASE Matches(a, r, s) /\ AllDone(r, c)
        <4>1. jobs' = [jobs EXCEPT ![r] = [status |-> "succeeded", completed |-> c,
                                           lockedBy |-> NoWorker, due |-> TRUE]]
          BY <2>4, <3>2 DEF MarkScopeSucceeded
        <4> QED BY <2>0, <4>1
      <3>3. CASE Matches(a, r, s) /\ ~AllDone(r, c)
        <4>1. jobs' = [jobs EXCEPT ![r] =
                [jobs[r] EXCEPT !.status = "pending", !.completed = c, !.due = TRUE]]
          BY <2>0, <2>4, <3>3 DEF MarkScopeSucceeded
        <4>2. jobs[r].status # "succeeded"
          BY <2>0, <3>3 DEF ClosedMeansDone, AllDone
        <4> QED BY <2>0, <4>1, <4>2 DEF JobType
      <3> QED BY <2>4, <3>1, <3>2, <3>3 DEF MarkScopeSucceeded
    <2>5. ASSUME NEW a \in Agents, NEW r \in Requests, NEW s \in Scopes,
                 MarkScopeFailed(a, r, s)
          PROVE  Kept
      <3>1. CASE UNCHANGED jobs BY <3>1
      <3>2. CASE MayFail(a, r, s)
        <4>1. jobs' = [jobs EXCEPT ![r] =
                        [jobs[r] EXCEPT !.status = "failed", !.lockedBy = NoWorker, !.due = FALSE]]
          BY <2>0, <2>5, <3>2 DEF MarkScopeFailed
        <4>2. jobs[r].status # "succeeded"
          BY <2>0, <3>2 DEF MayFail, Matches, ClosedMeansDone, AllDone
        <4> QED BY <2>0, <4>1, <4>2 DEF JobType
      <3> QED BY <2>5, <3>1, <3>2 DEF MarkScopeFailed
    <2>6. CASE \/ \E r \in Requests : ArmFails(r) \/ SettleElsewhere(r)
               \/ \E a \in Agents :
                    \/ \E t \in Tasks : RefundSucceeds(a, t) \/ RefundFails(a, t)
                    \/ MarkLost(a) \/ Crash(a)
      BY <2>1, <2>6 DEF ArmFails, SettleElsewhere, RefundSucceeds, RefundFails, Attempt,
         MarkLost, Crash
    <2> QED BY <2>2, <2>3, <2>4, <2>5, <2>6 DEF CompensationNext
  <1> QED BY <1>1, CompensationInvariant, PTL DEF CompensationSpec, CompletedIsFinal

-----------------------------------------------------------------------------
(* Compensation: the promise                                                *)

GivenBack == {t \in Tasks : Refunded(t[1], t[2])}
Closed == {r \in Requests : jobs[r].status = "succeeded"}

\* A refund attempt returns at most its own task.
LEMMA AttemptReturns ==
  ASSUME CompensationTypeOK, NEW a \in Agents, NEW t \in Tasks,
         RefundScope(a, t) \/ UNCHANGED <<session, receipts, refunds>>
  PROVE  GivenBack' = GivenBack \/ (t \notin GivenBack /\ GivenBack' = GivenBack \cup {t})
PROOF
  <1>0. t[1] \in Requests /\ t[2] \in Scopes /\ t = <<t[1], t[2]>> BY TaskFields
  <1>1. \A u \in Tasks : u # t => (Refunded(u[1], u[2])' <=> Refunded(u[1], u[2]))
    <2> SUFFICES ASSUME NEW u \in Tasks, u # t
                 PROVE  Refunded(u[1], u[2])' <=> Refunded(u[1], u[2])
      OBVIOUS
    <2>1. u[1] \in Requests /\ u[2] \in Scopes /\ u = <<u[1], u[2]>> BY TaskFields
    <2>2. u[1] # t[1] \/ u[2] # t[2] BY <1>0, <2>1
    <2> QED BY <1>0, <2>1, <2>2
        DEF RefundScope, RefundSession, RefundRelayAPITokenQuota, RefundRelayAPITokenQuotaOnce,
            Refunded, CompensationTypeOK, Scopes
  <1>2. Refunded(t[1], t[2]) => Refunded(t[1], t[2])'
    BY <1>0, RefundScopeEffect
  <1>3. CASE Refunded(t[1], t[2])' <=> Refunded(t[1], t[2])
    BY <1>1, <1>3 DEF GivenBack
  <1>4. CASE Refunded(t[1], t[2])' /\ ~Refunded(t[1], t[2])
    BY <1>1, <1>4 DEF GivenBack
  <1> QED BY <1>2, <1>3, <1>4

\* A step that closes no job or closes one whose scopes are all returned.
LEMMA ClosingStep ==
  ASSUME CompensationInv, UNCHANGED <<session, receipts>>, NEW r \in Requests,
         \A q \in Requests : q # r => jobs'[q] = jobs[q],
         jobs[r].status = "succeeded" => jobs'[r].status = "succeeded",
         jobs'[r].status = "succeeded" => \A s \in Required[r] : Refunded(r, s)
  PROVE  [Promise!Next]_(Promise!promise)
PROOF
  <1>1. GivenBack' = GivenBack BY DEF GivenBack, Refunded
  <1>2. CASE jobs'[r].status = jobs[r].status \/ jobs'[r].status # "succeeded"
    <2>1. Closed' = Closed BY <1>2 DEF Closed
    <2> QED BY <1>1, <2>1 DEF Promise!promise, GivenBack, Closed
  <1>3. CASE jobs'[r].status = "succeeded" /\ jobs[r].status # "succeeded"
    <2>1. Closed' = Closed \cup {r} /\ r \notin Closed BY <1>3 DEF Closed
    <2>2. \A s \in Required[r] : <<r, s>> \in GivenBack
      <3>1. \A s \in Required[r] : <<r, s>> \in Tasks
        BY RequiredAssumption DEF Tasks
      <3> QED BY <1>3, <3>1 DEF GivenBack
    <2>3. Promise!Close(r)
      BY <1>1, <2>1, <2>2 DEF Promise!Close, GivenBack, Closed
    <2> QED BY <2>3 DEF Promise!Next
  <1> QED BY <1>2, <1>3

LEMMA StepPromise ==
  CompensationInv /\ [CompensationNext]_compensationVars => [Promise!Next]_(Promise!promise)
PROOF
  <1> SUFFICES ASSUME CompensationInv, [CompensationNext]_compensationVars PROVE [Promise!Next]_(Promise!promise)
    OBVIOUS
  <1>0. CompensationTypeOK /\ CompletedMeansRefunded /\ ClosedMeansDone /\ ReportsAreTrue
    BY DEF CompensationInv
  <1>a. jobs \in [Requests -> JobType] BY <1>0 DEF CompensationTypeOK
  <1>1. ASSUME NEW r \in Requests, UNCHANGED <<session, receipts>>,
               \A q \in Requests : q # r => jobs'[q] = jobs[q],
               jobs[r].status # "succeeded" /\ jobs'[r].status # "succeeded"
        PROVE  [Promise!Next]_(Promise!promise)
    BY <1>1, ClosingStep
  <1>2. ASSUME UNCHANGED <<jobs, session, receipts>> PROVE [Promise!Next]_(Promise!promise)
    BY <1>2 DEF Promise!promise, Refunded
  <1>3. ASSUME NEW r \in Requests, Arm(r) PROVE [Promise!Next]_(Promise!promise)
    <2>1. UNCHANGED <<session, receipts>> BY <1>3 DEF Arm
    <2>2. CASE jobs[r].status = "absent"
      <3>1. jobs[r] \in JobType BY <1>a
      <3> QED BY <1>1, <1>3, <1>a, <2>1, <2>2, <3>1 DEF Arm, JobType
    <2>3. CASE jobs[r].status # "absent" BY <1>2, <1>3, <2>1, <2>3 DEF Arm
    <2> QED BY <2>2, <2>3
  <1>4. ASSUME NEW r \in Requests, BecomeDue(r) PROVE [Promise!Next]_(Promise!promise)
    <2>1. jobs[r] \in JobType BY <1>a
    <2>2. jobs' = [jobs EXCEPT ![r] = [jobs[r] EXCEPT !.due = TRUE]]
      BY <1>4, <1>a DEF BecomeDue
    <2> QED BY <1>1, <1>4, <1>a, <2>1, <2>2 DEF BecomeDue, JobType
  <1>5. ASSUME NEW r \in Requests, SettleElsewhere(r) PROVE [Promise!Next]_(Promise!promise)
    <2>1. UNCHANGED <<jobs, receipts>> BY <1>5 DEF SettleElsewhere
    <2>2. \A t \in Tasks : Refunded(t[1], t[2])' <=> Refunded(t[1], t[2])
      BY <1>0, <1>5, TaskFields DEF SettleElsewhere, Refunded, CompensationTypeOK
    <2> QED BY <2>1, <2>2 DEF Promise!promise
  <1>6. ASSUME NEW w \in Workers, NEW batch \in SUBSET Requests, Claim(w, batch)
        PROVE  [Promise!Next]_(Promise!promise)
    <2>1. \A q \in Requests : jobs'[q].status = "succeeded" <=> jobs[q].status = "succeeded"
      <3> SUFFICES ASSUME NEW q \in Requests, q \in batch
                   PROVE  jobs[q].status # "succeeded" /\ jobs'[q].status # "succeeded"
        BY <1>6 DEF Claim
      <3>1. jobs[q] \in JobType /\ jobs[q].status # "succeeded"
        BY <1>6, <1>a DEF Claim, Claimable
      <3>2. jobs'[q] = [jobs[q] EXCEPT !.status = "processing", !.lockedBy = w, !.due = FALSE]
        BY <1>6 DEF Claim
      <3> QED BY <3>1, <3>2 DEF JobType
    <2>2. UNCHANGED <<session, receipts>> BY <1>6 DEF Claim
    <2> QED BY <2>1, <2>2 DEF Promise!promise, Refunded
  <1>7. ASSUME NEW a \in Agents, NEW t \in Tasks, RefundSucceeds(a, t) \/ RefundFails(a, t)
        PROVE  [Promise!Next]_(Promise!promise)
    <2>1. UNCHANGED jobs BY <1>7 DEF RefundSucceeds, RefundFails, Attempt
    <2>2. Closed' = Closed BY <2>1 DEF Closed
    <2>3. GivenBack' = GivenBack \/ (t \notin GivenBack /\ GivenBack' = GivenBack \cup {t})
      BY <1>0, <1>7, AttemptReturns DEF RefundSucceeds, RefundFails
    <2>4. CASE GivenBack' = GivenBack
      BY <2>2, <2>4 DEF Promise!promise, GivenBack, Closed
    <2>5. CASE t \notin GivenBack /\ GivenBack' = GivenBack \cup {t}
      <3>1. Promise!Return(t[1], t[2])
        BY <2>2, <2>5, TaskFields DEF Promise!Return, GivenBack, Closed
      <3> QED BY <3>1, TaskFields DEF Promise!Next
    <2> QED BY <2>3, <2>4, <2>5
  <1>8. ASSUME NEW a \in Agents, NEW r \in Requests, NEW s \in Scopes,
               MarkScopeSucceeded(a, r, s)
        PROVE  [Promise!Next]_(Promise!promise)
    <2> DEFINE c == jobs[r].completed \cup {s}
    <2>0. UNCHANGED <<session, receipts>> /\ Refunded(r, s) /\ jobs[r] \in JobType
      BY <1>0, <1>8, <1>a DEF MarkScopeSucceeded, ReportsAreTrue
    <2>1. CASE UNCHANGED jobs BY <1>2, <2>0, <2>1
    <2>2. CASE Matches(a, r, s) /\ AllDone(r, c)
      <3>1. jobs' = [jobs EXCEPT ![r] = [status |-> "succeeded", completed |-> c,
                                         lockedBy |-> NoWorker, due |-> TRUE]]
        BY <1>8, <2>2 DEF MarkScopeSucceeded
      <3>2. /\ \A q \in Requests : q # r => jobs'[q] = jobs[q]
            /\ jobs'[r].status = "succeeded"
        BY <1>a, <3>1
      <3>3. \A x \in Required[r] : Refunded(r, x)
        BY <1>0, <2>0, <2>2 DEF AllDone, CompletedMeansRefunded
      <3> QED BY <2>0, <3>2, <3>3, ClosingStep
    <2>3. CASE Matches(a, r, s) /\ ~AllDone(r, c)
      <3>1. jobs' = [jobs EXCEPT ![r] =
              [jobs[r] EXCEPT !.status = "pending", !.completed = c, !.due = TRUE]]
        BY <1>8, <1>a, <2>3 DEF MarkScopeSucceeded
      <3>2. /\ \A q \in Requests : q # r => jobs'[q] = jobs[q]
            /\ jobs'[r].status # "succeeded"
        BY <1>a, <2>0, <3>1 DEF JobType
      <3>3. jobs[r].status # "succeeded"
        BY <1>0, <2>3 DEF ClosedMeansDone, AllDone
      <3> QED BY <1>1, <2>0, <3>2, <3>3
    <2> QED BY <1>8, <2>1, <2>2, <2>3 DEF MarkScopeSucceeded
  <1>9. ASSUME NEW a \in Agents, NEW r \in Requests, NEW s \in Scopes, MarkScopeFailed(a, r, s)
        PROVE  [Promise!Next]_(Promise!promise)
    <2>0. UNCHANGED <<session, receipts>> /\ jobs[r] \in JobType
      BY <1>9, <1>a DEF MarkScopeFailed
    <2>1. CASE UNCHANGED jobs BY <1>2, <2>0, <2>1
    <2>2. CASE MayFail(a, r, s)
      <3>1. jobs' = [jobs EXCEPT ![r] =
                      [jobs[r] EXCEPT !.status = "failed", !.lockedBy = NoWorker, !.due = FALSE]]
        BY <1>9, <1>a, <2>2 DEF MarkScopeFailed
      <3>2. /\ \A q \in Requests : q # r => jobs'[q] = jobs[q]
            /\ jobs'[r].status # "succeeded"
        BY <1>a, <2>0, <3>1 DEF JobType
      <3>3. jobs[r].status # "succeeded"
        BY <1>0, <2>2 DEF MayFail, Matches, ClosedMeansDone, AllDone
      <3> QED BY <1>1, <2>0, <3>2, <3>3
    <2> QED BY <1>9, <2>1, <2>2 DEF MarkScopeFailed
  <1>10. CASE \/ \E r \in Requests : ArmFails(r)
              \/ \E a \in Agents : MarkLost(a) \/ Crash(a)
              \/ UNCHANGED compensationVars
    BY <1>2, <1>10 DEF ArmFails, MarkLost, Crash, compensationVars
  <1> QED BY <1>3, <1>4, <1>5, <1>6, <1>7, <1>8, <1>9, <1>10 DEF CompensationNext

\* The jobs, marks and refunds of all processes and workers implement the promise.
THEOREM KeepsPromise == CompensationSpec => PromiseKept
PROOF
  <1>1. CompensationInit => Promise!Init
    BY TaskFields DEF CompensationInit, Promise!Init, Refunded, AbsentJob
  <1>2. CompensationInv /\ [CompensationNext]_compensationVars => [Promise!Next]_(Promise!promise)
    BY StepPromise
  <1> QED BY <1>1, <1>2, CompensationInvariant, PTL DEF CompensationSpec, PromiseKept, Promise!Spec
=============================================================================
