---------------------------- MODULE Relay_proofs ----------------------------
(***************************************************************************)
(* Theorems about the modules of the relay: RelayRouter, for every number  *)
(* of requests, keys, attempts and faults; and BatchPolling, for any sets  *)
(* of batches and workers, any claim limit and any number of attempts.     *)
(***************************************************************************)
EXTENDS RelayRouter, BatchPolling, SumTheorems, SequenceTheorems, FiniteSetTheorems, TLAPS

RowStatus == {"pending", "success", "error"}

\* Sessions keep their type, are not forgotten, and are final once finished.
Kept ==
  /\ sessions' \in [SessionIds -> SessionType]
  /\ \A s \in SessionIds : Finished(s) => sessions'[s] = sessions[s]
  /\ \A s \in SessionIds : sessions[s].status # "absent" => sessions'[s].status # "absent"

\* What a step of q that leaves it as c does to what other requests rely on.
Step(q, c) ==
  /\ c \in RequestType /\ Go(q, c)
  /\ Kept
  /\ stranded \subseteq stranded' /\ stranded' \subseteq SessionIds
  /\ owed \subseteq owed' /\ owed' \subseteq Requests \X {"organization", "api_token"}
  /\ \A t \in owed' : t \in owed \/ t[1] = q
  /\ spent' \in [Requests -> Nat]
  /\ \A p \in Requests : p # q => spent'[p] = spent[p]

\* The session q had or has is closed, given up, or still owned on its behalf.
Handed(q, c) ==
  \A s \in SessionIds : Open(s)' =>
    \/ s \in stranded'
    \/ c.session = s /\ c.pc \notin {"arrive", "done", "dead"}
    \/ c.session = s /\ <<q, "organization">> \in owed'
    \/ Open(s) /\ req[q].session # s

\* The organization pays for c from a session that was open, or paid already.
Pays(q, c) ==
  c.pc = "settleToken" \/ c.result = "answered" =>
    /\ c.session \in SessionIds
    /\ sessions'[c.session].status = "settled"
    /\ sessions'[c.session].cost = c.cost
    /\ \/ Open(c.session)
       \/ Paid(q) /\ c.session = req[q].session
    /\ c.result = "answered" /\ q \in Tokened => spent'[q] = c.cost

Good(q, c) == Step(q, c) /\ Handed(q, c) /\ Pays(q, c) /\ RequestInv(q)'

-----------------------------------------------------------------------------
(* What follows from the effect of a step                                   *)

LEMMA Updated ==
  ASSUME StateType, NEW q \in Requests, NEW c \in RequestType, Go(q, c)
  PROVE  /\ req' \in [Requests -> RequestType]
         /\ req'[q] = c
         /\ \A p \in Requests : p # q => req'[p] = req[p]
PROOF BY DEF StateType, Go

LEMMA GoodStage ==
  ASSUME StateType, StageInv, NEW q \in Requests, NEW c \in RequestType, Good(q, c)
  PROVE  StageInv'
PROOF
  <1> SUFFICES ASSUME NEW p \in Requests, p # q PROVE RequestInv(p)'
    BY DEF StageInv, Good
  <1>1. req'[p] = req[p] /\ RequestInv(p) BY Updated DEF Good, Step, StageInv
  <1>2. \A t \in owed' : t[1] = p => t \in owed BY DEF Good, Step
  <1>3. \A s \in SessionIds : Finished(s) => Finished(s)' BY DEF Good, Step, Kept, Finished
  <1> QED BY <1>1, <1>2, <1>3 DEF RequestInv, Good, Step, Kept

LEMMA GoodPaid ==
  ASSUME StateType, PaidInv, NEW q \in Requests, NEW c \in RequestType, Good(q, c)
  PROVE  PaidInv'
PROOF
  <1>1. /\ req'[q] = c
        /\ \A p \in Requests : p # q => req'[p] = req[p]
    BY Updated DEF Good, Step
  <1>2. \A p \in Requests : p # q => (Paid(p)' <=> Paid(p)) /\ spent'[p] = spent[p]
    BY <1>1 DEF Paid, At, Good, Step
  <1>3. \A p \in Requests : p # q /\ Paid(p) => sessions'[req[p].session] = sessions[req[p].session]
    BY DEF PaidInv, Good, Step, Kept, Finished
  <1>4. Paid(q)' => c.pc = "settleToken" \/ c.result = "answered" BY <1>1 DEF Paid, At
  <1>5. ASSUME NEW p \in Requests, p # q, Paid(p), Paid(q)' PROVE req[p].session # c.session
    <2>1. CASE Open(c.session) BY <1>5, <2>1 DEF PaidInv, Open
    <2>2. CASE Paid(q) /\ c.session = req[q].session BY <1>5, <2>2 DEF PaidInv
    <2> QED BY <1>4, <1>5, <2>1, <2>2 DEF Good, Pays
  <1>6. ASSUME NEW p \in Requests, Paid(p)'
        PROVE  /\ req'[p].session \in SessionIds
               /\ sessions'[req'[p].session].status = "settled"
               /\ sessions'[req'[p].session].cost = req'[p].cost
               /\ req'[p].result = "answered" /\ p \in Tokened => spent'[p] = req'[p].cost
    <2>1. CASE p = q BY <1>1, <1>4, <1>6, <2>1 DEF Good, Pays
    <2>2. CASE p # q BY <1>1, <1>2, <1>3, <1>6, <2>2 DEF PaidInv
    <2> QED BY <2>1, <2>2
  <1>7. ASSUME NEW p \in Requests, NEW r \in Requests, Paid(p)', Paid(r)',
               req'[r].session = req'[p].session
        PROVE  r = p
    <2>1. CASE p # q /\ r # q BY <1>1, <1>2, <1>7, <2>1 DEF PaidInv
    <2>2. CASE p = q /\ r # q BY <1>1, <1>2, <1>5, <1>7, <2>2
    <2>3. CASE p # q /\ r = q BY <1>1, <1>2, <1>5, <1>7, <2>3
    <2> QED BY <2>1, <2>2, <2>3
  <1> QED BY <1>6, <1>7 DEF PaidInv

LEMMA GoodOwners ==
  ASSUME StateType, StageInv, ReservationsHaveOwners,
         NEW q \in Requests, NEW c \in RequestType, Good(q, c)
  PROVE  ReservationsHaveOwners'
PROOF
  <1>1. /\ req'[q] = c
        /\ \A p \in Requests : p # q => req'[p] = req[p]
    BY Updated DEF Good, Step
  <1> SUFFICES ASSUME NEW s \in SessionIds, Open(s)'
               PROVE  \/ s \in stranded'
                      \/ \E p \in Requests : Holds(p, s)'
                      \/ \E t \in owed' : t[2] = "organization" /\ req'[t[1]].session = s
    BY DEF ReservationsHaveOwners
  <1>2. CASE s \in stranded' BY <1>2
  <1>3. CASE c.session = s /\ c.pc \notin {"arrive", "done", "dead"}
    BY <1>1, <1>3 DEF Holds, Running
  <1>4. CASE c.session = s /\ <<q, "organization">> \in owed'
    <2>1. <<q, "organization">>[2] = "organization" /\ req'[<<q,
      "organization">>[1]].session = s
      BY <1>1, <1>4
    <2> QED BY <1>4, <2>1
  <1>5. CASE Open(s) /\ req[q].session # s
    <2>1. CASE s \in stranded BY <2>1 DEF Good, Step
    <2>2. CASE \E p \in Requests : Holds(p, s)
      BY <1>1, <1>5, <2>2 DEF Holds, Running
    <2>3. CASE \E t \in owed : t[2] = "organization" /\ req[t[1]].session = s
      <3>1. PICK t \in owed : t[2] = "organization" /\ req[t[1]].session = s BY <2>3
      <3>2. t[1] \in Requests /\ t[1] # q
        BY <3>1, <1>5 DEF StateType
      <3> QED BY <1>1, <3>1, <3>2 DEF Good, Step
    <2> QED BY <1>5, <2>1, <2>2, <2>3 DEF ReservationsHaveOwners
  <1> QED BY <1>2, <1>3, <1>4, <1>5 DEF Good, Handed

-----------------------------------------------------------------------------
(* The rows the steps write                                                 *)

\* c stands at pc and holds what the rest says.
Looks(c, pc, slot, session, token, cost, status, result) ==
  /\ c \in RequestType
  /\ c.pc = pc /\ c.slot = slot /\ c.session = session /\ c.token = token
  /\ c.cost = cost /\ c.status = status /\ c.result = result

LEMMA InType ==
  ASSUME NEW c, NEW pc, NEW slot, NEW session, NEW token, NEW cost, NEW status, NEW result,
         Looks(c, pc, slot, session, token, cost, status, result)
  PROVE  c \in RequestType
PROOF BY DEF Looks

LEMMA Sessions ==
  ASSUME StateType, NEW q \in Requests
  PROVE  SessionOf(q) \in SessionIds
PROOF BY KeyAssumption DEF StateType, RequestType, SessionOf, SessionIds

LEMMA Moved ==
  ASSUME NEW r \in RequestType, NEW pc \in Stages
  PROVE  Looks([r EXCEPT !.pc = pc], pc, r.slot, r.session, r.token, r.cost, r.status, r.result)
PROOF BY DEF RequestType, Looks

LEMMA ReturnedLooks ==
  ASSUME StateType, NEW q \in Requests, NEW result \in {"answered", "cached", "failed"}
  PROVE  Looks(Returned(q, result), "done", FALSE, req[q].session, FALSE,
               req[q].cost, req[q].status, result)
PROOF
  <1>1. req[q] \in RequestType BY DEF StateType
  <1> QED BY <1>1 DEF RequestType, Looks, Returned, Stages

LEMMA RefundLooks ==
  ASSUME StateType, NEW q \in Requests, NEW again \in BOOLEAN,
         NEW row \in {"none", "insert", "replace"}
  PROVE  Looks(RefundBoth(q, again, row), "refundOrg", FALSE, req[q].session, req[q].token,
               req[q].cost, req[q].status, req[q].result)
PROOF
  <1>1. req[q] \in RequestType BY DEF StateType
  <1> QED BY <1>1, ZenonT(30) DEF RequestType, Looks, RefundBoth, Stages

LEMMA SlotTaken ==
  ASSUME NEW r \in RequestType
  PROVE  Looks([r EXCEPT !.pc = "allow", !.slot = TRUE],
               "allow", TRUE, r.session, r.token, r.cost, r.status, r.result)
PROOF BY LimitsAssumption DEF RequestType, Looks, Stages

LEMMA Reserving ==
  ASSUME NEW r \in RequestType, NEW s \in SessionIds
  PROVE  Looks([r EXCEPT !.pc = "prebill", !.session = s],
               "prebill", r.slot, s, r.token, r.cost, r.status, r.result)
PROOF BY LimitsAssumption DEF RequestType, Looks, Stages

LEMMA Holding ==
  ASSUME NEW r \in RequestType
  PROVE  Looks([r EXCEPT !.pc = "pending", !.token = TRUE],
               "pending", r.slot, r.session, TRUE, r.cost, r.status, r.result)
PROOF BY LimitsAssumption DEF RequestType, Looks, Stages

LEMMA Answered ==
  ASSUME NEW r \in RequestType, NEW cost \in Costs,
         NEW status \in {"success", "error"}
  PROVE  Looks([r EXCEPT !.pc = "record", !.slot = FALSE, !.cost = cost, !.status = status],
               "record", FALSE, r.session, r.token, cost, status, r.result)
PROOF BY LimitsAssumption DEF RequestType, Looks, Stages

LEMMA TokenOnly ==
  ASSUME NEW r \in RequestType
  PROVE  Looks([r EXCEPT !.pc = "refundToken", !.again = FALSE, !.row = "replace"],
               "refundToken", r.slot, r.session, r.token, r.cost, r.status, r.result)
PROOF BY LimitsAssumption DEF RequestType, Looks, Stages

LEMMA SessionOnly ==
  ASSUME NEW r \in RequestType
  PROVE  Looks([r EXCEPT !.pc = "refundOrg", !.token = FALSE, !.again = FALSE,
    !.row = "replace"],
               "refundOrg", r.slot, r.session, FALSE, r.cost, r.status, r.result)
PROOF BY LimitsAssumption DEF RequestType, Looks, Stages

LEMMA Again ==
  ASSUME NEW r \in RequestType, r.attempt < MaxAttempts
  PROVE  Looks([r EXCEPT !.pc = "select", !.attempt = @ + 1, !.session = NoSession,
    !.token = FALSE],
               "select", r.slot, NoSession, FALSE, r.cost, r.status, r.result)
PROOF
  <1>1. r.attempt + 1 \in 1 .. MaxAttempts BY LimitsAssumption DEF RequestType
  <1> QED BY <1>1 DEF RequestType, Looks, Stages

LEMMA Died ==
  ASSUME NEW r \in RequestType
  PROVE  Looks([r EXCEPT !.pc = "dead", !.slot = FALSE, !.token = FALSE],
               "dead", FALSE, r.session, FALSE, r.cost, r.status, r.result)
PROOF BY LimitsAssumption DEF RequestType, Looks, Stages

LEMMA KeepsAll ==
  ASSUME StateType, UNCHANGED sessions
  PROVE  Kept
PROOF BY DEF StateType, Kept

LEMMA KeepsReserved ==
  ASSUME StateType, NEW q \in Requests, sessions' = Reserved(q)
  PROVE  Kept
PROOF
  <1>1. [status |-> "preauthorized", reserved |-> Estimate[q], cost |-> 0] \in SessionType
    BY MoneyAssumption DEF SessionType
  <1> QED BY <1>1, Sessions DEF StateType, Kept, Reserved, Finished

LEMMA CostType ==
  ASSUME StateType, NEW q \in Requests
  PROVE  req[q].cost \in Nat
PROOF
  <1>1. req[q] \in RequestType BY DEF StateType
  <1>2. req[q].cost \in Costs \cup {0} BY <1>1 DEF RequestType
  <1>3. Costs \subseteq Nat BY MoneyAssumption
  <1>4. CASE req[q].cost \in Costs BY <1>3, <1>4
  <1>5. CASE req[q].cost = 0 BY <1>5
  <1> QED BY <1>2, <1>4, <1>5

LEMMA KeepsSettled ==
  ASSUME StateType, NEW q \in Requests, req[q].session \in SessionIds, Open(req[q].session),
         sessions' = Settled(q)
  PROVE  Kept /\ sessions'[req[q].session].status = "settled"
PROOF
  <1>1. sessions[req[q].session] \in SessionType /\ req[q].cost \in Nat
    BY CostType DEF StateType
  <1>2. [sessions[req[q].session] EXCEPT !.status = "settled",
    !.cost = req[q].cost] \in SessionType
    BY <1>1 DEF SessionType
  <1>3. sessions' = [sessions EXCEPT ![req[q].session] =
                       [sessions[req[q].session] EXCEPT !.status = "settled",
                         !.cost = req[q].cost]]
    BY DEF Settled, StateType
  <1>4. sessions'[req[q].session].status = "settled" BY <1>1, <1>3 DEF StateType, SessionType
  <1>5. Kept BY <1>2, <1>3, <1>4 DEF StateType, Kept, Finished, Open
  <1> QED BY <1>4, <1>5

LEMMA KeepsRefunded ==
  ASSUME StateType, NEW s \in SessionIds, sessions' = Refunded(s)
  PROVE  Kept /\ sessions'[s].status # "preauthorized" /\ (sessions[s].status # "absent" => Finished(s)')
PROOF
  <1>1. sessions[s] \in SessionType BY DEF StateType
  <1>2. [sessions[s] EXCEPT !.status = "refunded"] \in SessionType BY <1>1 DEF SessionType
  <1>3. CASE Open(s)
    <2>1. sessions' = [sessions EXCEPT ![s] = [sessions[s] EXCEPT !.status = "refunded"]]
      BY <1>3 DEF Refunded, StateType
    <2>2. sessions'[s].status = "refunded" BY <1>1, <2>1 DEF StateType, SessionType
    <2>3. Kept BY <1>2, <1>3, <2>1, <2>2 DEF StateType, Kept, Finished, Open
    <2> QED BY <2>2, <2>3 DEF Finished, Open
  <1>4. CASE ~Open(s)
    <2>1. sessions' = sessions BY <1>4 DEF Refunded
    <2>2. sessions[s].status # "absent" => Finished(s)
      BY <1>1, <1>4 DEF SessionType, Finished, Open
    <2> QED BY <1>4, <2>1, <2>2, KeepsAll DEF Finished, Open
  <1> QED BY <1>3, <1>4

LEMMA GivesUp ==
  ASSUME StateType, NEW s \in SessionIds, GiveUp(s)
  PROVE  /\ stranded \subseteq stranded' /\ stranded' \subseteq SessionIds
         /\ Open(s) => s \in stranded'
PROOF BY DEF StateType, GiveUp

-----------------------------------------------------------------------------
(* Each step of a request is good                                           *)

\* A step that touches neither sessions nor debts is good when its own request is.
LEMMA Quiet ==
  ASSUME StateType, NEW q \in Requests, NEW c \in RequestType, Go(q, c),
         UNCHANGED <<sessions, stranded, owed, spent>>,
         c.session = req[q].session,
         c.pc \notin {"arrive", "dead", "settleToken"}, c.result # "answered",
         c.pc = "done" => c.session = NoSession,
         RequestInv(q)'
  PROVE  \E d \in RequestType : Good(q, d)
PROOF
  <1>1. Step(q, c) BY KeepsAll DEF Step, StateType
  <1>2. Handed(q, c) BY SessionAssumption DEF Handed, Open
  <1>3. Pays(q, c) BY DEF Pays
  <1> QED BY <1>1, <1>2, <1>3 DEF Good

LEMMA ArriveGood ==
  ASSUME StateType, StageInv, NEW q \in Requests, Arrive(q)
  PROVE  \E c \in RequestType : Good(q, c)
PROOF
  <1> DEFINE r == req[q]
  <1>1. req[q] \in RequestType /\ RequestInv(q) BY DEF StateType, StageInv
  <1>2. PICK c \in RequestType : Go(q, c) /\
      \/ Looks(c, "select", r.slot, r.session, r.token, r.cost, r.status, r.result)
      \/ Looks(c, "done", FALSE, r.session, FALSE, r.cost, r.status, "failed")
      \/ Looks(c, "done", FALSE, r.session, FALSE, r.cost, r.status, "cached")
    <2>1. Looks([r EXCEPT !.pc = "select"],
               "select", r.slot, r.session, r.token, r.cost, r.status, r.result)
      BY <1>1, Moved DEF Stages
    <2>2. Looks(Returned(q, "failed"),
               "done", FALSE, r.session, FALSE, r.cost, r.status, "failed")
      BY ReturnedLooks
    <2>3. Looks(Returned(q, "cached"),
               "done", FALSE, r.session, FALSE, r.cost, r.status, "cached")
      BY ReturnedLooks
    <2> QED BY <2>1, <2>2, <2>3, InType DEF Arrive
  <1>3. req'[q] = c BY <1>2, Updated
  <1>4. RequestInv(q)'
    BY <1>1, <1>2, <1>3, SessionAssumption
    DEF StateType, RequestInv, Looks, Arrive, At
  <1> QED BY <1>1, <1>2, <1>4, Quiet DEF RequestInv, Looks, At, Arrive

LEMMA SelectChannelGood ==
  ASSUME StateType, StageInv, NEW q \in Requests, SelectChannel(q)
  PROVE  \E c \in RequestType : Good(q, c)
PROOF
  <1> DEFINE r == req[q]
  <1>1. req[q] \in RequestType /\ RequestInv(q) BY DEF StateType, StageInv
  <1>2. PICK c \in RequestType : Go(q, c) /\
      \/ Looks(c, "begin", r.slot, r.session, r.token, r.cost, r.status, r.result)
      \/ Looks(c, "done", FALSE, r.session, FALSE, r.cost, r.status, "failed")
    <2>1. Looks([r EXCEPT !.pc = "begin"],
               "begin", r.slot, r.session, r.token, r.cost, r.status, r.result)
      BY <1>1, Moved DEF Stages
    <2>2. Looks(Returned(q, "failed"),
               "done", FALSE, r.session, FALSE, r.cost, r.status, "failed")
      BY ReturnedLooks
    <2> QED BY <2>1, <2>2, InType DEF SelectChannel
  <1>3. req'[q] = c BY <1>2, Updated
  <1>4. RequestInv(q)'
    BY <1>1, <1>2, <1>3, SessionAssumption
    DEF StateType, RequestInv, Looks, SelectChannel, At
  <1> QED BY <1>1, <1>2, <1>4, Quiet DEF RequestInv, Looks, At, SelectChannel

LEMMA BeginGood ==
  ASSUME StateType, StageInv, NEW q \in Requests, Begin(q)
  PROVE  \E c \in RequestType : Good(q, c)
PROOF
  <1> DEFINE r == req[q]
  <1>1. req[q] \in RequestType /\ RequestInv(q) BY DEF StateType, StageInv
  <1>2. PICK c \in RequestType : Go(q, c) /\
      \/ Looks(c, "allow", TRUE, r.session, r.token, r.cost, r.status, r.result)
      \/ Looks(c, "done", FALSE, r.session, FALSE, r.cost, r.status, "failed")
    <2>1. Looks([r EXCEPT !.pc = "allow", !.slot = TRUE],
               "allow", TRUE, r.session, r.token, r.cost, r.status, r.result)
      BY <1>1, SlotTaken
    <2>2. Looks(Returned(q, "failed"),
               "done", FALSE, r.session, FALSE, r.cost, r.status, "failed")
      BY ReturnedLooks
    <2> QED BY <2>1, <2>2, InType DEF Begin
  <1>3. req'[q] = c BY <1>2, Updated
  <1>4. RequestInv(q)'
    BY <1>1, <1>2, <1>3, SessionAssumption
    DEF StateType, RequestInv, Looks, Begin, At
  <1> QED BY <1>1, <1>2, <1>4, Quiet DEF RequestInv, Looks, At, Begin

LEMMA AllowGood ==
  ASSUME StateType, StageInv, NEW q \in Requests, Allow(q)
  PROVE  \E c \in RequestType : Good(q, c)
PROOF
  <1> DEFINE r == req[q]
  <1>1. req[q] \in RequestType /\ RequestInv(q) BY DEF StateType, StageInv
  <1>2. PICK c \in RequestType : Go(q, c) /\
      \/ Looks(c, "reserve", r.slot, r.session, r.token, r.cost, r.status, r.result)
      \/ Looks(c, "done", FALSE, r.session, FALSE, r.cost, r.status, "failed")
    <2>1. Looks([r EXCEPT !.pc = "reserve"],
               "reserve", r.slot, r.session, r.token, r.cost, r.status, r.result)
      BY <1>1, Moved DEF Stages
    <2>2. Looks(Returned(q, "failed"),
               "done", FALSE, r.session, FALSE, r.cost, r.status, "failed")
      BY ReturnedLooks
    <2> QED BY <2>1, <2>2, InType DEF Allow
  <1>3. req'[q] = c BY <1>2, Updated
  <1>4. RequestInv(q)'
    BY <1>1, <1>2, <1>3, SessionAssumption
    DEF StateType, RequestInv, Looks, Allow, At
  <1> QED BY <1>1, <1>2, <1>4, Quiet DEF RequestInv, Looks, At, Allow

LEMMA PreConsumeGood ==
  ASSUME StateType, StageInv, PaidInv, NEW q \in Requests, PreConsume(q)
  PROVE  \E c \in RequestType : Good(q, c)
PROOF
  <1> DEFINE r == req[q]
  <1>1. req[q] \in RequestType /\ RequestInv(q) BY DEF StateType, StageInv
  <1>2. PICK c \in RequestType : Go(q, c) /\
      Looks(c, "prebill", r.slot, SessionOf(q), r.token, r.cost, r.status, r.result)
    <2>1. Looks([r EXCEPT !.pc = "prebill", !.session = SessionOf(q)],
               "prebill", r.slot, SessionOf(q), r.token, r.cost, r.status, r.result)
      BY <1>1, Sessions, Reserving
    <2> QED BY <2>1, InType DEF PreConsume
  <1>3. req'[q] = c BY <1>2, Updated
  <1>4. Step(q, c)
    <2>2. Kept BY KeepsAll, KeepsReserved DEF PreConsume
    <2>3. stranded \subseteq stranded' /\ stranded' \subseteq SessionIds BY
      DEF StateType, PreConsume
    <2>4. /\ owed \subseteq owed' /\ owed' \subseteq Requests \X {"organization", "api_token"}
          /\ \A t \in owed' : t \in owed \/ t[1] = q
      BY DEF StateType, PreConsume
    <2>5. spent' \in [Requests -> Nat] /\ \A p \in Requests : p # q => spent'[p] = spent[p]
      BY CostType DEF StateType, PreConsume
    <2> QED BY <1>2, <2>2, <2>3, <2>4, <2>5 DEF Step
  <1>5. Handed(q, c)
    BY <1>1, <1>2, Sessions, SessionAssumption, MoneyAssumption
    DEF StateType, SessionType, Handed, Looks, RequestInv, PreConsume, At, Open, Finished,
      Reserved
  <1>6. Pays(q, c)
    BY <1>1, <1>2 DEF StateType, SessionType, PaidInv, Paid, Pays, Looks, RequestInv,
      PreConsume, At, Open, Reserved
  <1>7. RequestInv(q)'
    BY <1>1, <1>2, <1>3, <1>4, Sessions, SessionAssumption, SMTT(30)
    DEF StateType, SessionType, Step, Kept, RequestInv, Looks, PreConsume, At, Open, Finished,
      Reserved
  <1> QED BY <1>4, <1>5, <1>6, <1>7 DEF Good

LEMMA PreConsumeFailsGood ==
  ASSUME StateType, StageInv, PaidInv, NEW q \in Requests, PreConsumeFails(q)
  PROVE  \E c \in RequestType : Good(q, c)
PROOF
  <1> DEFINE r == req[q]
  <1>1. req[q] \in RequestType /\ RequestInv(q) BY DEF StateType, StageInv
  <1>2. PICK c \in RequestType : Go(q, c) /\
      Looks(c, "done", FALSE, r.session, FALSE, r.cost, r.status, "failed")
    <2>1. Looks(Returned(q, "failed"),
               "done", FALSE, r.session, FALSE, r.cost, r.status, "failed")
      BY ReturnedLooks
    <2> QED BY <2>1, InType DEF PreConsumeFails
  <1>3. req'[q] = c BY <1>2, Updated
  <1>4. Step(q, c)
    <2>2. Kept BY KeepsAll, KeepsReserved DEF PreConsumeFails
    <2>3. stranded \subseteq stranded' /\ stranded' \subseteq SessionIds
      BY Sessions DEF StateType, PreConsumeFails
    <2>4. /\ owed \subseteq owed' /\ owed' \subseteq Requests \X {"organization", "api_token"}
          /\ \A t \in owed' : t \in owed \/ t[1] = q
      BY DEF StateType, PreConsumeFails
    <2>5. spent' \in [Requests -> Nat] /\ \A p \in Requests : p # q => spent'[p] = spent[p]
      BY CostType DEF StateType, PreConsumeFails
    <2> QED BY <1>2, <2>2, <2>3, <2>4, <2>5 DEF Step
  <1>5. Handed(q, c)
    BY <1>1, <1>2, Sessions, SessionAssumption, MoneyAssumption
    DEF StateType, SessionType, Handed, Looks, RequestInv, PreConsumeFails, At, Open, Finished,
      Reserved
  <1>6. Pays(q, c)
    BY <1>1, <1>2 DEF StateType, SessionType, PaidInv, Paid, Pays, Looks, RequestInv,
      PreConsumeFails, At, Open, Reserved
  <1>7. RequestInv(q)'
    BY <1>1, <1>2, <1>3, <1>4, Sessions, SessionAssumption, SMTT(30)
    DEF StateType, SessionType, Step, Kept, RequestInv, Looks, PreConsumeFails, At, Open,
      Finished, Reserved
  <1> QED BY <1>4, <1>5, <1>6, <1>7 DEF Good

LEMMA PreBillGood ==
  ASSUME StateType, StageInv, NEW q \in Requests, PreBill(q)
  PROVE  \E c \in RequestType : Good(q, c)
PROOF
  <1> DEFINE r == req[q]
  <1>1. req[q] \in RequestType /\ RequestInv(q) BY DEF StateType, StageInv
  <1>2. PICK c \in RequestType : Go(q, c) /\
      Looks(c, "token", r.slot, r.session, r.token, r.cost, r.status, r.result)
    <2>1. Looks([r EXCEPT !.pc = "token"],
               "token", r.slot, r.session, r.token, r.cost, r.status, r.result)
      BY <1>1, Moved DEF Stages
    <2> QED BY <2>1, InType DEF PreBill
  <1>3. req'[q] = c BY <1>2, Updated
  <1>4. RequestInv(q)'
    BY <1>1, <1>2, <1>3, SessionAssumption
    DEF StateType, RequestInv, Looks, PreBill, At
  <1> QED BY <1>1, <1>2, <1>4, Quiet DEF RequestInv, Looks, At, PreBill

LEMMA PreBillFailsGood ==
  ASSUME StateType, StageInv, PaidInv, NEW q \in Requests, PreBillFails(q)
  PROVE  \E c \in RequestType : Good(q, c)
PROOF
  <1> DEFINE r == req[q]
  <1>1. req[q] \in RequestType /\ RequestInv(q) BY DEF StateType, StageInv
  <1>2. PICK c \in RequestType : Go(q, c) /\
      Looks(c, "done", FALSE, r.session, FALSE, r.cost, r.status, "failed")
    <2>1. Looks(Returned(q, "failed"),
               "done", FALSE, r.session, FALSE, r.cost, r.status, "failed")
      BY ReturnedLooks
    <2> QED BY <2>1, InType DEF PreBillFails
  <1>3. req'[q] = c BY <1>2, Updated
  <1>4. Step(q, c)
    <2>1. r.session \in SessionIds BY <1>1 DEF RequestInv, At, PreBillFails
    <2>2. Kept BY KeepsAll DEF PreBillFails
    <2>3. stranded \subseteq stranded' /\ stranded' \subseteq SessionIds
      BY <2>1, GivesUp DEF StateType, PreBillFails
    <2>4. /\ owed \subseteq owed' /\ owed' \subseteq Requests \X {"organization", "api_token"}
          /\ \A t \in owed' : t \in owed \/ t[1] = q
      BY DEF StateType, PreBillFails
    <2>5. spent' \in [Requests -> Nat] /\ \A p \in Requests : p # q => spent'[p] = spent[p]
      BY CostType DEF StateType, PreBillFails
    <2> QED BY <1>2, <2>2, <2>3, <2>4, <2>5 DEF Step
  <1>5. Handed(q, c)
    BY <1>1, <1>2, Sessions, SessionAssumption, MoneyAssumption
    DEF StateType, SessionType, Handed, Looks, RequestInv, PreBillFails, At, Open, Finished,
      GiveUp
  <1>6. Pays(q, c)
    BY <1>1, <1>2 DEF StateType, SessionType, PaidInv, Paid, Pays, Looks, RequestInv,
      PreBillFails, At, Open, GiveUp
  <1>7. RequestInv(q)'
    BY <1>1, <1>2, <1>3, <1>4, Sessions, SessionAssumption
    DEF StateType, SessionType, Step, Kept, RequestInv, Looks, PreBillFails, At, Open,
      Finished, GiveUp
  <1> QED BY <1>4, <1>5, <1>6, <1>7 DEF Good

LEMMA HoldTokenGood ==
  ASSUME StateType, StageInv, NEW q \in Requests, HoldToken(q)
  PROVE  \E c \in RequestType : Good(q, c)
PROOF
  <1> DEFINE r == req[q]
  <1>1. req[q] \in RequestType /\ RequestInv(q) BY DEF StateType, StageInv
  <1>2. PICK c \in RequestType : Go(q, c) /\
      (IF q \in Tokened THEN Looks(c, "pending", r.slot, r.session, TRUE, r.cost, r.status,
        r.result) ELSE Looks(c, "pending", r.slot, r.session, r.token, r.cost, r.status,
          r.result))
    <2>1. Looks([r EXCEPT !.pc = "pending"],
               "pending", r.slot, r.session, r.token, r.cost, r.status, r.result)
      BY <1>1, Moved DEF Stages
    <2>2. Looks([r EXCEPT !.pc = "pending", !.token = TRUE],
               "pending", r.slot, r.session, TRUE, r.cost, r.status, r.result)
      BY <1>1, Holding
    <2> QED BY <2>1, <2>2, InType DEF HoldToken
  <1>3. req'[q] = c BY <1>2, Updated
  <1>4. RequestInv(q)'
    <2>1. CASE q \in Tokened
      BY <1>1, <1>2, <1>3, <2>1 DEF RequestInv, Looks, HoldToken, At
    <2>2. CASE q \notin Tokened
      <3>1. ~r.token BY <1>1, <2>2 DEF RequestInv, HoldToken, At
      <3>2. /\ c.pc = "pending" /\ c.token = r.token /\ c.session = r.session
            /\ c.slot = r.slot /\ c.result = r.result
        BY <1>2, <2>2, <3>1 DEF Looks
      <3>3. UNCHANGED <<sessions, owed>> BY DEF HoldToken
      <3> QED BY <1>1, <1>3, <2>2, <3>1, <3>2, <3>3 DEF RequestInv, Looks, HoldToken, At
    <2> QED BY <2>1, <2>2
  <1> QED BY <1>1, <1>2, <1>4, Quiet DEF RequestInv, Looks, At, HoldToken

LEMMA HoldTokenFailsGood ==
  ASSUME StateType, StageInv, NEW q \in Requests, HoldTokenFails(q)
  PROVE  \E c \in RequestType : Good(q, c)
PROOF
  <1> DEFINE r == req[q]
  <1>1. req[q] \in RequestType /\ RequestInv(q) BY DEF StateType, StageInv
  <1>2. PICK c \in RequestType : Go(q, c) /\
      Looks(c, "refundOrg", FALSE, r.session, r.token, r.cost, r.status, r.result)
    <2>1. Looks(RefundBoth(q, FALSE, "insert"),
               "refundOrg", FALSE, r.session, r.token, r.cost, r.status, r.result)
      BY RefundLooks
    <2> QED BY <2>1, InType DEF HoldTokenFails
  <1>3. req'[q] = c BY <1>2, Updated
  <1>4. RequestInv(q)'
    BY <1>1, <1>2, <1>3, SessionAssumption
    DEF StateType, RequestInv, Looks, HoldTokenFails, At
  <1> QED BY <1>1, <1>2, <1>4, Quiet DEF RequestInv, Looks, At, HoldTokenFails

LEMMA RecordPendingGood ==
  ASSUME StateType, StageInv, NEW q \in Requests, RecordPending(q)
  PROVE  \E c \in RequestType : Good(q, c)
PROOF
  <1> DEFINE r == req[q]
  <1>1. req[q] \in RequestType /\ RequestInv(q) BY DEF StateType, StageInv
  <1>2. PICK c \in RequestType : Go(q, c) /\
      Looks(c, "dispatch", r.slot, r.session, r.token, r.cost, r.status, r.result)
    <2>1. Looks([r EXCEPT !.pc = "dispatch"],
               "dispatch", r.slot, r.session, r.token, r.cost, r.status, r.result)
      BY <1>1, Moved DEF Stages
    <2> QED BY <2>1, InType DEF RecordPending
  <1>3. req'[q] = c BY <1>2, Updated
  <1>4. RequestInv(q)'
    BY <1>1, <1>2, <1>3, SessionAssumption
    DEF StateType, RequestInv, Looks, RecordPending, At
  <1> QED BY <1>1, <1>2, <1>4, Quiet DEF RequestInv, Looks, At, RecordPending

LEMMA RecordPendingFailsGood ==
  ASSUME StateType, StageInv, NEW q \in Requests, RecordPendingFails(q)
  PROVE  \E c \in RequestType : Good(q, c)
PROOF
  <1> DEFINE r == req[q]
  <1>1. req[q] \in RequestType /\ RequestInv(q) BY DEF StateType, StageInv
  <1>2. PICK c \in RequestType : Go(q, c) /\
      Looks(c, "refundOrg", FALSE, r.session, r.token, r.cost, r.status, r.result)
    <2>1. Looks(RefundBoth(q, FALSE, "none"),
               "refundOrg", FALSE, r.session, r.token, r.cost, r.status, r.result)
      BY RefundLooks
    <2> QED BY <2>1, InType DEF RecordPendingFails
  <1>3. req'[q] = c BY <1>2, Updated
  <1>4. RequestInv(q)'
    BY <1>1, <1>2, <1>3, SessionAssumption
    DEF StateType, RequestInv, Looks, RecordPendingFails, At
  <1> QED BY <1>1, <1>2, <1>4, Quiet DEF RequestInv, Looks, At, RecordPendingFails

LEMMA DispatchGood ==
  ASSUME StateType, StageInv, NEW q \in Requests, Dispatch(q)
  PROVE  \E c \in RequestType : Good(q, c)
PROOF
  <1> DEFINE r == req[q]
  <1>1. req[q] \in RequestType /\ RequestInv(q) BY DEF StateType, StageInv
  <1>2. PICK c \in RequestType : Go(q, c) /\
      Looks(c, "call", r.slot, r.session, r.token, r.cost, r.status, r.result)
    <2>1. Looks([r EXCEPT !.pc = "call"],
               "call", r.slot, r.session, r.token, r.cost, r.status, r.result)
      BY <1>1, Moved DEF Stages
    <2> QED BY <2>1, InType DEF Dispatch
  <1>3. req'[q] = c BY <1>2, Updated
  <1>4. RequestInv(q)'
    BY <1>1, <1>2, <1>3, SessionAssumption
    DEF StateType, RequestInv, Looks, Dispatch, At
  <1> QED BY <1>1, <1>2, <1>4, Quiet DEF RequestInv, Looks, At, Dispatch

LEMMA LateDenialGood ==
  ASSUME StateType, StageInv, PaidInv, NEW q \in Requests, LateDenial(q)
  PROVE  \E c \in RequestType : Good(q, c)
PROOF
  <1> DEFINE r == req[q]
  <1>1. req[q] \in RequestType /\ RequestInv(q) BY DEF StateType, StageInv
  <1>2. PICK c \in RequestType : Go(q, c) /\
      Looks(c, "done", FALSE, r.session, FALSE, r.cost, r.status, "failed")
    <2>1. Looks(Returned(q, "failed"),
               "done", FALSE, r.session, FALSE, r.cost, r.status, "failed")
      BY ReturnedLooks
    <2> QED BY <2>1, InType DEF LateDenial
  <1>3. req'[q] = c BY <1>2, Updated
  <1>4. Step(q, c)
    <2>1. r.session \in SessionIds BY <1>1 DEF RequestInv, At, LateDenial
    <2>2. Kept BY KeepsAll DEF LateDenial
    <2>3. stranded \subseteq stranded' /\ stranded' \subseteq SessionIds
      BY <2>1, GivesUp DEF StateType, LateDenial
    <2>4. /\ owed \subseteq owed' /\ owed' \subseteq Requests \X {"organization", "api_token"}
          /\ \A t \in owed' : t \in owed \/ t[1] = q
      BY DEF StateType, LateDenial
    <2>5. spent' \in [Requests -> Nat] /\ \A p \in Requests : p # q => spent'[p] = spent[p]
      BY CostType DEF StateType, LateDenial
    <2> QED BY <1>2, <2>2, <2>3, <2>4, <2>5 DEF Step
  <1>5. Handed(q, c)
    BY <1>1, <1>2, Sessions, SessionAssumption, MoneyAssumption
    DEF StateType, SessionType, Handed, Looks, RequestInv, LateDenial, At, Open, Finished,
      GiveUp
  <1>6. Pays(q, c)
    BY <1>1, <1>2 DEF StateType, SessionType, PaidInv, Paid, Pays, Looks, RequestInv,
      LateDenial, At, Open, GiveUp
  <1>7. RequestInv(q)'
    BY <1>1, <1>2, <1>3, <1>4, Sessions, SessionAssumption
    DEF StateType, SessionType, Step, Kept, RequestInv, Looks, LateDenial, At, Open, Finished,
      GiveUp
  <1> QED BY <1>4, <1>5, <1>6, <1>7 DEF Good

LEMMA ProviderAnswersGood ==
  ASSUME StateType, StageInv, NEW q \in Requests, NEW cost \in Costs,
         NEW status \in {"success", "error"}, ProviderAnswers(q, cost, status)
  PROVE  \E c \in RequestType : Good(q, c)
PROOF
  <1> DEFINE r == req[q]
  <1>1. req[q] \in RequestType /\ RequestInv(q) BY DEF StateType, StageInv
  <1>2. PICK c \in RequestType : Go(q, c) /\
      Looks(c, "record", FALSE, r.session, r.token, cost, status, r.result)
    <2>1. Looks([r EXCEPT !.pc = "record", !.slot = FALSE, !.cost = cost, !.status = status],
               "record", FALSE, r.session, r.token, cost, status, r.result)
      BY <1>1, Answered
    <2> QED BY <2>1, InType DEF ProviderAnswers
  <1>3. req'[q] = c BY <1>2, Updated
  <1>4. RequestInv(q)'
    BY <1>1, <1>2, <1>3, SessionAssumption
    DEF StateType, RequestInv, Looks, ProviderAnswers, At
  <1> QED BY <1>1, <1>2, <1>4, Quiet DEF RequestInv, Looks, At, ProviderAnswers

LEMMA ProviderErrorsGood ==
  ASSUME StateType, StageInv, NEW q \in Requests, ProviderErrors(q)
  PROVE  \E c \in RequestType : Good(q, c)
PROOF
  <1> DEFINE r == req[q]
  <1>1. req[q] \in RequestType /\ RequestInv(q) BY DEF StateType, StageInv
  <1>2. PICK c \in RequestType : Go(q, c) /\
      Looks(c, "refundOrg", FALSE, r.session, r.token, r.cost, r.status, r.result)
    <2>1. Looks(RefundBoth(q, FALSE, "replace"),
               "refundOrg", FALSE, r.session, r.token, r.cost, r.status, r.result)
      BY RefundLooks
    <2>2. Looks(RefundBoth(q, TRUE, "insert"),
               "refundOrg", FALSE, r.session, r.token, r.cost, r.status, r.result)
      BY RefundLooks
    <2> QED BY <2>1, <2>2, InType DEF ProviderErrors
  <1>3. req'[q] = c BY <1>2, Updated
  <1>4. RequestInv(q)'
    BY <1>1, <1>2, <1>3, SessionAssumption
    DEF StateType, RequestInv, Looks, ProviderErrors, At
  <1> QED BY <1>1, <1>2, <1>4, Quiet DEF RequestInv, Looks, At, ProviderErrors

LEMMA ProviderRefusesGood ==
  ASSUME StateType, StageInv, NEW q \in Requests, ProviderRefuses(q)
  PROVE  \E c \in RequestType : Good(q, c)
PROOF
  <1> DEFINE r == req[q]
  <1>1. req[q] \in RequestType /\ RequestInv(q) BY DEF StateType, StageInv
  <1>2. PICK c \in RequestType : Go(q, c) /\
      Looks(c, "refundOrg", FALSE, r.session, r.token, r.cost, r.status, r.result)
    <2>1. Looks(RefundBoth(q, TRUE, "none"),
               "refundOrg", FALSE, r.session, r.token, r.cost, r.status, r.result)
      BY RefundLooks
    <2> QED BY <2>1, InType DEF ProviderRefuses
  <1>3. req'[q] = c BY <1>2, Updated
  <1>4. RequestInv(q)'
    BY <1>1, <1>2, <1>3, SessionAssumption
    DEF StateType, RequestInv, Looks, ProviderRefuses, At
  <1> QED BY <1>1, <1>2, <1>4, Quiet DEF RequestInv, Looks, At, ProviderRefuses

LEMMA QuoteFailsGood ==
  ASSUME StateType, StageInv, NEW q \in Requests, QuoteFails(q)
  PROVE  \E c \in RequestType : Good(q, c)
PROOF
  <1> DEFINE r == req[q]
  <1>1. req[q] \in RequestType /\ RequestInv(q) BY DEF StateType, StageInv
  <1>2. PICK c \in RequestType : Go(q, c) /\
      Looks(c, "refundOrg", FALSE, r.session, r.token, r.cost, r.status, r.result)
    <2>1. Looks(RefundBoth(q, FALSE, "replace"),
               "refundOrg", FALSE, r.session, r.token, r.cost, r.status, r.result)
      BY RefundLooks
    <2> QED BY <2>1, InType DEF QuoteFails
  <1>3. req'[q] = c BY <1>2, Updated
  <1>4. RequestInv(q)'
    BY <1>1, <1>2, <1>3, SessionAssumption
    DEF StateType, RequestInv, Looks, QuoteFails, At
  <1> QED BY <1>1, <1>2, <1>4, Quiet DEF RequestInv, Looks, At, QuoteFails

LEMMA RecordUsageGood ==
  ASSUME StateType, StageInv, NEW q \in Requests, RecordUsage(q)
  PROVE  \E c \in RequestType : Good(q, c)
PROOF
  <1> DEFINE r == req[q]
  <1>1. req[q] \in RequestType /\ RequestInv(q) BY DEF StateType, StageInv
  <1>2. PICK c \in RequestType : Go(q, c) /\
      Looks(c, "settleOrg", r.slot, r.session, r.token, r.cost, r.status, r.result)
    <2>1. Looks([r EXCEPT !.pc = "settleOrg"],
               "settleOrg", r.slot, r.session, r.token, r.cost, r.status, r.result)
      BY <1>1, Moved DEF Stages
    <2> QED BY <2>1, InType DEF RecordUsage
  <1>3. req'[q] = c BY <1>2, Updated
  <1>4. RequestInv(q)'
    BY <1>1, <1>2, <1>3, SessionAssumption
    DEF StateType, RequestInv, Looks, RecordUsage, At
  <1> QED BY <1>1, <1>2, <1>4, Quiet DEF RequestInv, Looks, At, RecordUsage

LEMMA RecordUsageFailsGood ==
  ASSUME StateType, StageInv, NEW q \in Requests, RecordUsageFails(q)
  PROVE  \E c \in RequestType : Good(q, c)
PROOF
  <1> DEFINE r == req[q]
  <1>1. req[q] \in RequestType /\ RequestInv(q) BY DEF StateType, StageInv
  <1>2. PICK c \in RequestType : Go(q, c) /\
      \/ Looks(c, "settleOrg", r.slot, r.session, r.token, r.cost, r.status, r.result)
      \/ Looks(c, "refundOrg", FALSE, r.session, r.token, r.cost, r.status, r.result)
    <2>1. Looks([r EXCEPT !.pc = "settleOrg"],
               "settleOrg", r.slot, r.session, r.token, r.cost, r.status, r.result)
      BY <1>1, Moved DEF Stages
    <2>2. Looks(RefundBoth(q, FALSE, "none"),
               "refundOrg", FALSE, r.session, r.token, r.cost, r.status, r.result)
      BY RefundLooks
    <2> QED BY <2>1, <2>2, InType DEF RecordUsageFails, Unrecorded
  <1>3. req'[q] = c BY <1>2, Updated
  <1>4. RequestInv(q)'
    BY <1>1, <1>2, <1>3, SessionAssumption
    DEF StateType, RequestInv, Looks, RecordUsageFails, At, Unrecorded
  <1> QED BY <1>1, <1>2, <1>4, Quiet DEF RequestInv, Looks, At, RecordUsageFails

LEMMA SettleOrganizationGood ==
  ASSUME StateType, StageInv, PaidInv, NEW q \in Requests, SettleOrganization(q)
  PROVE  \E c \in RequestType : Good(q, c)
PROOF
  <1> DEFINE r == req[q]
  <1>1. req[q] \in RequestType /\ RequestInv(q) BY DEF StateType, StageInv
  <1>2. PICK c \in RequestType : Go(q, c) /\
      Looks(c, "settleToken", r.slot, r.session, r.token, r.cost, r.status, r.result)
    <2>1. Looks([r EXCEPT !.pc = "settleToken"],
               "settleToken", r.slot, r.session, r.token, r.cost, r.status, r.result)
      BY <1>1, Moved DEF Stages
    <2> QED BY <2>1, InType DEF SettleOrganization
  <1>3. req'[q] = c BY <1>2, Updated
  <1>4. Step(q, c)
    <2>1. r.session \in SessionIds BY <1>1 DEF RequestInv, At, SettleOrganization
    <2>2. Kept BY <2>1, KeepsAll, KeepsSettled DEF SettleOrganization, Settleable
    <2>3. stranded \subseteq stranded' /\ stranded' \subseteq SessionIds BY
      DEF StateType, SettleOrganization
    <2>4. /\ owed \subseteq owed' /\ owed' \subseteq Requests \X {"organization", "api_token"}
          /\ \A t \in owed' : t \in owed \/ t[1] = q
      BY DEF StateType, SettleOrganization
    <2>5. spent' \in [Requests -> Nat] /\ \A p \in Requests : p # q => spent'[p] = spent[p]
      BY CostType DEF StateType, SettleOrganization
    <2> QED BY <1>2, <2>2, <2>3, <2>4, <2>5 DEF Step
  <1>5. Handed(q, c)
    BY <1>1, <1>2, Sessions, SessionAssumption, MoneyAssumption
    DEF StateType, SessionType, Handed, Looks, RequestInv, SettleOrganization, At, Open,
      Finished, Settled, Settleable
  <1>6. Pays(q, c)
    BY <1>1, <1>2 DEF StateType, SessionType, PaidInv, Paid, Pays, Looks, RequestInv,
      SettleOrganization, At, Open, Settled, Settleable
  <1>7. RequestInv(q)'
    BY <1>1, <1>2, <1>3, <1>4, Sessions, SessionAssumption
    DEF StateType, SessionType, Step, Kept, RequestInv, Looks, SettleOrganization, At, Open,
      Finished, Settled, Settleable
  <1> QED BY <1>4, <1>5, <1>6, <1>7 DEF Good

LEMMA SettleOrganizationFailsGood ==
  ASSUME StateType, StageInv, PaidInv, NEW q \in Requests, SettleOrganizationFails(q)
  PROVE  \E c \in RequestType : Good(q, c)
PROOF
  <1> DEFINE r == req[q]
  <1>1. req[q] \in RequestType /\ RequestInv(q) BY DEF StateType, StageInv
  <1>2. PICK c \in RequestType : Go(q, c) /\
      Looks(c, "refundToken", r.slot, r.session, r.token, r.cost, r.status, r.result)
    <2>1. Looks([r EXCEPT !.pc = "refundToken", !.again = FALSE, !.row = "replace"],
               "refundToken", r.slot, r.session, r.token, r.cost, r.status, r.result)
      BY <1>1, TokenOnly
    <2> QED BY <2>1, InType DEF SettleOrganizationFails
  <1>3. req'[q] = c BY <1>2, Updated
  <1>4. Step(q, c)
    <2>1. r.session \in SessionIds BY <1>1 DEF RequestInv, At, SettleOrganizationFails
    <2>2. Kept BY <2>1, KeepsAll, KeepsSettled DEF SettleOrganizationFails, Settleable
    <2>3. stranded \subseteq stranded' /\ stranded' \subseteq SessionIds
      BY <2>1, GivesUp DEF StateType, SettleOrganizationFails
    <2>4. /\ owed \subseteq owed' /\ owed' \subseteq Requests \X {"organization", "api_token"}
          /\ \A t \in owed' : t \in owed \/ t[1] = q
      BY DEF StateType, SettleOrganizationFails
    <2>5. spent' \in [Requests -> Nat] /\ \A p \in Requests : p # q => spent'[p] = spent[p]
      BY CostType DEF StateType, SettleOrganizationFails
    <2> QED BY <1>2, <2>2, <2>3, <2>4, <2>5 DEF Step
  <1>5. Handed(q, c)
    BY <1>1, <1>2, Sessions, SessionAssumption, MoneyAssumption
    DEF StateType, SessionType, Handed, Looks, RequestInv, SettleOrganizationFails, At, Open,
      Finished, Settled, Settleable, GiveUp
  <1>6. Pays(q, c)
    BY <1>1, <1>2 DEF StateType, SessionType, PaidInv, Paid, Pays, Looks, RequestInv,
      SettleOrganizationFails, At, Open, Settled, Settleable, GiveUp
  <1>7. RequestInv(q)'
    <2>1. /\ c.pc = "refundToken" /\ c.session = r.session /\ c.slot = r.slot
          /\ c.result = r.result
      BY <1>2 DEF Looks
    <2>2. r.session \in SessionIds BY <1>1 DEF RequestInv, At, SettleOrganizationFails
    <2>3. sessions'[r.session].status # "absent" BY <1>1, <1>4, <2>2 DEF RequestInv, Step, Kept
    <2>4. sessions'[r.session].status \in {"settled", "refunded"} \/ r.session \in stranded'
      <3> DEFINE s == r.session
      <3>1. sessions[s] \in SessionType /\ sessions[s].status # "absent"
        BY <1>1, <2>2 DEF StateType, RequestInv
      <3>2. CASE GiveUp(s) /\ UNCHANGED sessions
        BY <2>2, <3>1, <3>2, GivesUp DEF SessionType, Finished, Open
      <3>3. CASE Settleable(s, r.cost) /\ sessions' = Settled(q)
        BY <2>2, <3>3, KeepsSettled DEF Settleable, Finished
      <3> QED BY <3>2, <3>3 DEF SettleOrganizationFails
    <2> QED BY <1>1, <1>3, <2>1, <2>2, <2>3, <2>4
      DEF RequestInv, SettleOrganizationFails, At, Finished
  <1> QED BY <1>4, <1>5, <1>6, <1>7 DEF Good

LEMMA SettleTokenGood ==
  ASSUME StateType, StageInv, PaidInv, NEW q \in Requests, SettleToken(q)
  PROVE  \E c \in RequestType : Good(q, c)
PROOF
  <1> DEFINE r == req[q]
  <1>1. req[q] \in RequestType /\ RequestInv(q) BY DEF StateType, StageInv
  <1>2. PICK c \in RequestType : Go(q, c) /\
      Looks(c, "done", FALSE, r.session, FALSE, r.cost, r.status, "answered")
    <2>1. Looks(Returned(q, "answered"),
               "done", FALSE, r.session, FALSE, r.cost, r.status, "answered")
      BY ReturnedLooks
    <2> QED BY <2>1, InType DEF SettleToken
  <1>3. req'[q] = c BY <1>2, Updated
  <1>4. Step(q, c)
    <2>2. Kept BY KeepsAll DEF SettleToken
    <2>3. stranded \subseteq stranded' /\ stranded' \subseteq SessionIds BY
      DEF StateType, SettleToken
    <2>4. /\ owed \subseteq owed' /\ owed' \subseteq Requests \X {"organization", "api_token"}
          /\ \A t \in owed' : t \in owed \/ t[1] = q
      BY DEF StateType, SettleToken
    <2>5. spent' \in [Requests -> Nat] /\ \A p \in Requests : p # q => spent'[p] = spent[p]
      BY CostType DEF StateType, SettleToken
    <2> QED BY <1>2, <2>2, <2>3, <2>4, <2>5 DEF Step
  <1>5. Handed(q, c)
    <2>1. ~Open(r.session) BY <1>1, <1>2 DEF SettleToken, At, PaidInv, Paid, Open
    <2> QED BY <2>1 DEF Handed, SettleToken, Open
  <1>6. Pays(q, c)
    BY <1>1, <1>2 DEF StateType, SessionType, PaidInv, Paid, Pays, Looks, RequestInv,
      SettleToken, At, Open
  <1>7. RequestInv(q)'
    BY <1>1, <1>2, <1>3, <1>4, Sessions, SessionAssumption
    DEF StateType, SessionType, Step, Kept, RequestInv, Looks, SettleToken, At, Open, Finished
  <1> QED BY <1>4, <1>5, <1>6, <1>7 DEF Good

LEMMA SettleTokenFailsGood ==
  ASSUME StateType, StageInv, PaidInv, NEW q \in Requests, SettleTokenFails(q)
  PROVE  \E c \in RequestType : Good(q, c)
PROOF
  <1> DEFINE r == req[q]
  <1>1. req[q] \in RequestType /\ RequestInv(q) BY DEF StateType, StageInv
  <1>2. PICK c \in RequestType : Go(q, c) /\
      Looks(c, "refundOrg", r.slot, r.session, FALSE, r.cost, r.status, r.result)
    <2>1. Looks([r EXCEPT !.pc = "refundOrg", !.token = FALSE, !.again = FALSE,
      !.row = "replace"],
               "refundOrg", r.slot, r.session, FALSE, r.cost, r.status, r.result)
      BY <1>1, SessionOnly
    <2> QED BY <2>1, InType DEF SettleTokenFails
  <1>3. req'[q] = c BY <1>2, Updated
  <1>4. Step(q, c)
    <2>2. Kept BY KeepsAll DEF SettleTokenFails
    <2>3. stranded \subseteq stranded' /\ stranded' \subseteq SessionIds BY
      DEF StateType, SettleTokenFails
    <2>4. /\ owed \subseteq owed' /\ owed' \subseteq Requests \X {"organization", "api_token"}
          /\ \A t \in owed' : t \in owed \/ t[1] = q
      BY DEF StateType, SettleTokenFails
    <2>5. spent' \in [Requests -> Nat] /\ \A p \in Requests : p # q => spent'[p] = spent[p]
      BY CostType DEF StateType, SettleTokenFails
    <2> QED BY <1>2, <2>2, <2>3, <2>4, <2>5 DEF Step
  <1>5. Handed(q, c)
    BY <1>1, <1>2, Sessions, SessionAssumption, MoneyAssumption
    DEF StateType, SessionType, Handed, Looks, RequestInv, SettleTokenFails, At, Open, Finished
  <1>6. Pays(q, c)
    BY <1>1, <1>2 DEF StateType, SessionType, PaidInv, Paid, Pays, Looks, RequestInv,
      SettleTokenFails, At, Open
  <1>7. RequestInv(q)'
    BY <1>1, <1>2, <1>3, <1>4, Sessions, SessionAssumption
    DEF StateType, SessionType, Step, Kept, RequestInv, Looks, SettleTokenFails, At, Open,
      Finished
  <1> QED BY <1>4, <1>5, <1>6, <1>7 DEF Good

LEMMA RefundOrganizationGood ==
  ASSUME StateType, StageInv, PaidInv, NEW q \in Requests, RefundOrganization(q)
  PROVE  \E c \in RequestType : Good(q, c)
PROOF
  <1> DEFINE r == req[q]
  <1>1. req[q] \in RequestType /\ RequestInv(q) BY DEF StateType, StageInv
  <1>2. PICK c \in RequestType : Go(q, c) /\
      \/ Looks(c, "refundToken", r.slot, r.session, r.token, r.cost, r.status, r.result)
      \/ Looks(c, "select", r.slot, NoSession, FALSE, r.cost, r.status, r.result)
      \/ Looks(c, "done", FALSE, r.session, FALSE, r.cost, r.status, "failed")
    <2>1. Looks([r EXCEPT !.pc = "refundToken"],
               "refundToken", r.slot, r.session, r.token, r.cost, r.status, r.result)
      BY <1>1, Moved DEF Stages
    <2>2. req[q].attempt < MaxAttempts => Looks([r EXCEPT !.pc = "select", !.attempt = @ + 1,
      !.session = NoSession, !.token = FALSE], "select", r.slot, NoSession, FALSE, r.cost,
        r.status, r.result)
      BY <1>1, Again
    <2>3. Looks(Returned(q, "failed"),
               "done", FALSE, r.session, FALSE, r.cost, r.status, "failed")
      BY ReturnedLooks
    <2> QED BY <2>1, <2>2, <2>3, InType DEF RefundOrganization, AfterOrganization, Continue,
      MayRetry
  <1>3. req'[q] = c BY <1>2, Updated
  <1>4. Step(q, c)
    <2>1. r.session \in SessionIds BY <1>1 DEF RequestInv, At, RefundOrganization
    <2>2. Kept BY <2>1, KeepsAll, KeepsRefunded DEF RefundOrganization
    <2>3. stranded \subseteq stranded' /\ stranded' \subseteq SessionIds
      BY <2>1, GivesUp DEF StateType, RefundOrganization
    <2>4. /\ owed \subseteq owed' /\ owed' \subseteq Requests \X {"organization", "api_token"}
          /\ \A t \in owed' : t \in owed \/ t[1] = q
      BY DEF StateType, RefundOrganization
    <2>5. spent' \in [Requests -> Nat] /\ \A p \in Requests : p # q => spent'[p] = spent[p]
      BY CostType DEF StateType, RefundOrganization
    <2> QED BY <1>2, <2>2, <2>3, <2>4, <2>5 DEF Step
  <1>5. Handed(q, c)
    <2>1. r.session \in SessionIds BY <1>1 DEF RequestInv, At, RefundOrganization
    <2>2. sessions'[r.session].status # "preauthorized" \/ r.session \in stranded'
      <3>1. CASE GiveUp(r.session) /\ UNCHANGED sessions
        BY <2>1, <3>1, GivesUp DEF Open
      <3>2. CASE sessions' = Refunded(r.session)
        BY <2>1, <3>2, KeepsRefunded DEF Open
      <3> QED BY <3>1, <3>2 DEF RefundOrganization
    <2>3. \A s \in SessionIds : s # r.session => sessions'[s] = sessions[s]
      BY <2>1 DEF RefundOrganization, Refunded, StateType
    <2> QED BY <2>2, <2>3 DEF Handed, Open
  <1>6. Pays(q, c)
    BY <1>1, <1>2 DEF StateType, SessionType, PaidInv, Paid, Pays, Looks, RequestInv,
      RefundOrganization, At, Open, Refunded, GiveUp, AfterOrganization, Continue, MayRetry
  <1>7. RequestInv(q)'
    <2>1. r.session \in SessionIds BY <1>1 DEF RequestInv, At, RefundOrganization
    <2>2. sessions'[r.session].status # "absent" BY <1>1, <1>4, <2>1 DEF RequestInv, Step, Kept
    <2>3. sessions'[r.session].status \in {"settled", "refunded"} \/ r.session \in stranded'
      <3> DEFINE s == r.session
      <3>1. sessions[s] \in SessionType /\ sessions[s].status # "absent"
        BY <1>1, <2>1 DEF StateType, RequestInv
      <3>2. CASE GiveUp(s) /\ UNCHANGED sessions
        BY <2>1, <3>1, <3>2, GivesUp DEF SessionType, Open
      <3>3. CASE sessions' = Refunded(s)
        BY <2>1, <3>1, <3>3, KeepsRefunded DEF Finished
      <3> QED BY <3>2, <3>3 DEF RefundOrganization
    <2> QED BY <1>1, <1>2, <1>3, <2>1, <2>2, <2>3, SessionAssumption
      DEF RequestInv, RefundOrganization, At, Looks, Finished
  <1> QED BY <1>4, <1>5, <1>6, <1>7 DEF Good

LEMMA RefundTokenGood ==
  ASSUME StateType, StageInv, PaidInv, NEW q \in Requests, RefundToken(q)
  PROVE  \E c \in RequestType : Good(q, c)
PROOF
  <1> DEFINE r == req[q]
  <1>1. req[q] \in RequestType /\ RequestInv(q) BY DEF StateType, StageInv
  <1>2. PICK c \in RequestType : Go(q, c) /\
      \/ Looks(c, "select", r.slot, NoSession, FALSE, r.cost, r.status, r.result)
      \/ Looks(c, "done", FALSE, r.session, FALSE, r.cost, r.status, "failed")
    <2>1. req[q].attempt < MaxAttempts => Looks([r EXCEPT !.pc = "select", !.attempt = @ + 1,
      !.session = NoSession, !.token = FALSE], "select", r.slot, NoSession, FALSE, r.cost,
        r.status, r.result)
      BY <1>1, Again
    <2>2. Looks(Returned(q, "failed"),
               "done", FALSE, r.session, FALSE, r.cost, r.status, "failed")
      BY ReturnedLooks
    <2> QED BY <2>1, <2>2, InType DEF RefundToken, Continue, MayRetry
  <1>3. req'[q] = c BY <1>2, Updated
  <1>4. Step(q, c)
    <2>2. Kept BY KeepsAll DEF RefundToken
    <2>3. stranded \subseteq stranded' /\ stranded' \subseteq SessionIds BY
      DEF StateType, RefundToken
    <2>4. /\ owed \subseteq owed' /\ owed' \subseteq Requests \X {"organization", "api_token"}
          /\ \A t \in owed' : t \in owed \/ t[1] = q
      BY DEF StateType, RefundToken
    <2>5. spent' \in [Requests -> Nat] /\ \A p \in Requests : p # q => spent'[p] = spent[p]
      BY CostType DEF StateType, RefundToken
    <2> QED BY <1>2, <2>2, <2>3, <2>4, <2>5 DEF Step
  <1>5. Handed(q, c)
    BY <1>1, <1>2, Sessions, SessionAssumption, MoneyAssumption
    DEF StateType, SessionType, Handed, Looks, RequestInv, RefundToken, At, Open, Finished,
      Continue, MayRetry
  <1>6. Pays(q, c)
    BY <1>1, <1>2 DEF StateType, SessionType, PaidInv, Paid, Pays, Looks, RequestInv,
      RefundToken, At, Open, Continue, MayRetry
  <1>7. RequestInv(q)'
    BY <1>1, <1>2, <1>3, <1>4, Sessions, SessionAssumption
    DEF StateType, SessionType, Step, Kept, RequestInv, Looks, RefundToken, At, Open, Finished,
      Continue, MayRetry
  <1> QED BY <1>4, <1>5, <1>6, <1>7 DEF Good

-----------------------------------------------------------------------------
(* The other variables                                                      *)

LEMMA Rows ==
  ASSUME StateType, NEW q \in Requests, NEW status \in RowStatus
  PROVE  /\ Inserted(q, status) \in [Requests -> Seq(RowStatus)]
         /\ Replaced(q, status) \in [Requests -> Seq(RowStatus)]
PROOF
  <1>1. usage[q] \in Seq(RowStatus) BY DEF StateType, RowStatus
  <1>2. Append(usage[q], status) \in Seq(RowStatus) BY <1>1
  <1>3. [i \in DOMAIN usage[q] |-> status] \in Seq(RowStatus)
    <2>1. /\ DOMAIN usage[q] = 1 .. Len(usage[q])
          /\ Len(usage[q]) \in Nat
      BY <1>1
    <2> QED BY <2>1, IsASeq
  <1> QED BY <1>2, <1>3 DEF StateType, RowStatus, Inserted, Replaced

LEMMA Clamped ==
  ASSUME NEW n \in Int
  PROVE  AtLeastZero(n) \in Nat
PROOF BY DEF AtLeastZero

Others ==
  /\ gone \subseteq Requests
  /\ slots \in Nat
  /\ tokenUsed \in Nat
  /\ usage \in [Requests -> Seq(RowStatus)]
  /\ faults \in 0 .. FaultBound

\* The steps of RouteWithBilling.
RequestStep(q) ==
  \/ Arrive(q) \/ SelectChannel(q) \/ Begin(q) \/ Allow(q)
  \/ PreConsume(q) \/ PreConsumeFails(q) \/ PreBill(q) \/ PreBillFails(q)
  \/ HoldToken(q) \/ HoldTokenFails(q) \/ RecordPending(q) \/ RecordPendingFails(q)
  \/ Dispatch(q) \/ LateDenial(q)
  \/ \E cost \in Costs, status \in {"success", "error"} : ProviderAnswers(q, cost, status)
  \/ ProviderErrors(q) \/ ProviderRefuses(q) \/ QuoteFails(q) \/ RecordUsage(q) \/ RecordUsageFails(q)
  \/ SettleOrganization(q) \/ SettleOrganizationFails(q)
  \/ SettleToken(q) \/ SettleTokenFails(q)
  \/ RefundOrganization(q) \/ RefundToken(q)

LEMMA Faults ==
  ASSUME StateType, NEW q \in Requests,
         Succeeds(q) \/ Misreported(q) \/ Rejected(q) \/ UNCHANGED faults
  PROVE  faults' \in 0 .. FaultBound
PROOF BY BoundAssumption DEF StateType, Succeeds, Misreported, Rejected

LEMMA ErrorRows ==
  ASSUME StateType, NEW q \in Requests, ErrorRow(q) \/ UNCHANGED usage
  PROVE  usage' \in [Requests -> Seq(RowStatus)]
PROOF
  <1>1. /\ Inserted(q, "error") \in [Requests -> Seq(RowStatus)]
        /\ Replaced(q, "error") \in [Requests -> Seq(RowStatus)]
    BY Rows DEF RowStatus
  <1> QED BY <1>1 DEF ErrorRow, Attempted, StateType, RowStatus

LEMMA StepOthers ==
  ASSUME StateType, StageInv, NEW q \in Requests, RequestStep(q)
  PROVE  Others'
PROOF
  <1>1. Others BY DEF StateType, Others, RowStatus
  <1>2. /\ Inserted(q, "pending") \in [Requests -> Seq(RowStatus)]
        /\ Inserted(q, "success") \in [Requests -> Seq(RowStatus)]
        /\ Inserted(q, "error") \in [Requests -> Seq(RowStatus)]
        /\ Replaced(q, "success") \in [Requests -> Seq(RowStatus)]
        /\ Replaced(q, "error") \in [Requests -> Seq(RowStatus)]
    BY Rows DEF RowStatus
  <1>3. slots - 1 \in Int BY <1>1 DEF Others
  <1>4. AtLeastZero(slots - 1) \in Nat BY <1>3, Clamped
  <1>5. Estimate[q] \in Nat BY MoneyAssumption
  <1>6. AtLeastZero(tokenUsed - Estimate[q]) \in Nat
    <2>1. tokenUsed - Estimate[q] \in Int BY <1>1, <1>5 DEF Others
    <2> QED BY <2>1, Clamped
  <1>7. AtLeastZero(tokenUsed + req[q].cost - Estimate[q]) \in Nat
    <2>1. tokenUsed + req[q].cost - Estimate[q] \in Int BY <1>1, <1>5, CostType DEF Others
    <2> QED BY <2>1, Clamped
  <1>8. At(q, "record") => req[q].status \in {"success", "error"}
    <2>1. req[q] \in RequestType /\ RequestInv(q) BY DEF StateType, StageInv
    <2> QED BY <2>1 DEF RequestType, RequestInv, At
  <1>9. CASE Arrive(q)
    BY <1>1, <1>2, <1>9, BoundAssumption DEF Others, Arrive, Attempted
  <1>10. CASE SelectChannel(q)
    BY <1>1, <1>2, <1>10, BoundAssumption DEF Others, SelectChannel, Attempted
  <1>11. CASE Begin(q)
    BY <1>1, <1>2, <1>11, BoundAssumption DEF Others, Begin, Attempted
  <1>12. CASE Allow(q)
    BY <1>1, <1>2, <1>4, <1>12, BoundAssumption DEF Others, Allow, Attempted, EndSlot
  <1>13. CASE PreConsume(q)
    BY <1>1, <1>13, BoundAssumption DEF Others, PreConsume, Succeeds
  <1>14. CASE PreConsumeFails(q)
    <2>1. faults' \in 0 .. FaultBound BY <1>14, Faults DEF PreConsumeFails
    <2>2. /\ gone' \subseteq Requests /\ slots' \in Nat /\ tokenUsed' \in Nat
          /\ usage' \in [Requests -> Seq(RowStatus)]
      BY <1>1, <1>2, <1>4, <1>14 DEF Others, PreConsumeFails, Attempted, EndSlot
    <2> QED BY <2>1, <2>2 DEF Others
  <1>15. CASE PreBill(q)
    BY <1>1, <1>15, BoundAssumption DEF Others, PreBill
  <1>16. CASE PreBillFails(q)
    BY <1>1, <1>2, <1>4, <1>16, BoundAssumption, SMTT(30) DEF Others, PreBillFails, Attempted, EndSlot
  <1>17. CASE HoldToken(q)
    BY <1>1, <1>5, <1>17, BoundAssumption DEF Others, HoldToken, Succeeds
  <1>18. CASE HoldTokenFails(q)
    BY <1>1, <1>4, <1>5, <1>18, BoundAssumption DEF Others, HoldTokenFails, EndSlot, Misreported
  <1>19. CASE RecordPending(q)
    BY <1>1, <1>2, <1>19, BoundAssumption DEF Others, RecordPending, Succeeds
  <1>20. CASE RecordPendingFails(q)
    <2>1. faults' \in 0 .. FaultBound BY <1>20, Faults DEF RecordPendingFails
    <2>2. /\ gone' \subseteq Requests /\ slots' \in Nat /\ tokenUsed' \in Nat
          /\ usage' \in [Requests -> Seq(RowStatus)]
      BY <1>1, <1>2, <1>4, <1>20 DEF Others, RecordPendingFails, EndSlot
    <2> QED BY <2>1, <2>2 DEF Others
  <1>21. CASE Dispatch(q)
    BY <1>1, <1>21, BoundAssumption DEF Others, Dispatch
  <1>22. CASE LateDenial(q)
    BY <1>1, <1>4, <1>22, BoundAssumption DEF Others, LateDenial, EndSlot, Succeeds, Rejected
  <1>23. CASE \E cost \in Costs, status \in {"success", "error"} : ProviderAnswers(q, cost,
    status)
    BY <1>1, <1>4, <1>23 DEF Others, ProviderAnswers, EndSlot
  <1>24. CASE ProviderErrors(q)
    BY <1>1, <1>4, <1>24, BoundAssumption DEF Others, ProviderErrors, EndSlot
  <1>25. CASE ProviderRefuses(q)
    BY <1>1, <1>4, <1>25, BoundAssumption DEF Others, ProviderRefuses, EndSlot
  <1>26. CASE QuoteFails(q)
    BY <1>1, <1>26, BoundAssumption DEF Others, QuoteFails
  <1>27. CASE RecordUsage(q)
    BY <1>1, <1>2, <1>8, <1>27, BoundAssumption DEF Others, RecordUsage, Succeeds, AnswerRow
  <1>28. CASE RecordUsageFails(q)
    <2>1. faults' \in 0 .. FaultBound BY <1>28, Faults DEF RecordUsageFails
    <2>2. usage' = usage \/ usage' = AnswerRow(q) BY <1>28 DEF RecordUsageFails
    <2>3. usage' \in [Requests -> Seq(RowStatus)]
      BY <1>1, <1>2, <1>8, <1>28, <2>2 DEF Others, AnswerRow, RecordUsageFails
    <2>4. gone' \subseteq Requests /\ slots' \in Nat /\ tokenUsed' \in Nat
      BY <1>1, <1>28 DEF Others, RecordUsageFails
    <2> QED BY <2>1, <2>3, <2>4 DEF Others
  <1>29. CASE SettleOrganization(q)
    BY <1>1, <1>29, BoundAssumption DEF Others, SettleOrganization, Succeeds
  <1>30. CASE SettleOrganizationFails(q)
    BY <1>1, <1>30, BoundAssumption DEF Others, SettleOrganizationFails, Rejected, Misreported
  <1>31. CASE SettleToken(q)
    BY <1>1, <1>7, <1>31, BoundAssumption DEF Others, SettleToken, Succeeds, Charged
  <1>32. CASE SettleTokenFails(q)
    BY <1>1, <1>7, <1>32, BoundAssumption
      DEF Others, SettleTokenFails, Rejected, Misreported, Charged
  <1>33. CASE RefundOrganization(q)
    <2>1. faults' \in 0 .. FaultBound BY <1>33, Faults DEF RefundOrganization
    <2>2. /\ gone' \subseteq Requests /\ slots' \in Nat /\ tokenUsed' \in Nat
          /\ usage' \in [Requests -> Seq(RowStatus)]
      BY <1>1, <1>33, ErrorRows DEF Others, RefundOrganization, AfterOrganization, Continue,
        MayRetry
    <2> QED BY <2>1, <2>2 DEF Others
  <1>34. CASE RefundToken(q)
    <2>1. faults' \in 0 .. FaultBound BY <1>34, Faults DEF RefundToken
    <2>2. /\ gone' \subseteq Requests /\ slots' \in Nat /\ tokenUsed' \in Nat
          /\ usage' \in [Requests -> Seq(RowStatus)]
      BY <1>1, <1>6, <1>34, ErrorRows DEF Others, RefundToken, Continue, MayRetry
    <2> QED BY <2>1, <2>2 DEF Others
  <1> QED BY <1>9, <1>10, <1>11, <1>12, <1>13, <1>14, <1>15, <1>16, <1>17, <1>18, <1>19, <1>20,
    <1>21,
    <1>22, <1>23, <1>24, <1>25, <1>26, <1>27, <1>28, <1>29, <1>30, <1>31, <1>32, <1>33,
      <1>34 DEF RequestStep

-----------------------------------------------------------------------------
(* Every step                                                               *)

LEMMA StepGood ==
  ASSUME StateType, StageInv, PaidInv, NEW q \in Requests, RequestStep(q)
  PROVE  \E c \in RequestType : Good(q, c)
PROOF
  <1> QED BY ArriveGood,
    SelectChannelGood,
    BeginGood,
    AllowGood,
    PreConsumeGood,
    PreConsumeFailsGood,
    PreBillGood,
    PreBillFailsGood,
    HoldTokenGood,
    HoldTokenFailsGood,
    RecordPendingGood,
    RecordPendingFailsGood,
    DispatchGood,
    LateDenialGood,
    ProviderAnswersGood,
    ProviderErrorsGood,
    ProviderRefusesGood,
    QuoteFailsGood,
    RecordUsageGood,
    RecordUsageFailsGood,
    SettleOrganizationGood,
    SettleOrganizationFailsGood,
    SettleTokenGood,
    SettleTokenFailsGood,
    RefundOrganizationGood,
    RefundTokenGood
    DEF RequestStep

\* A step that leaves the requests where they are and lets tasks be done.
LEMMA Unmoved ==
  ASSUME StateType, StageInv, PaidInv, Kept, UNCHANGED <<req, stranded, spent>>,
    owed' \subseteq owed
  PROVE  StageInv' /\ PaidInv'
PROOF
  <1>1. \A s \in SessionIds : Finished(s) => Finished(s)' BY DEF Kept, Finished
  <1>2. StageInv'
    <2> SUFFICES ASSUME NEW p \in Requests PROVE RequestInv(p)' BY DEF StageInv
    <2>1. RequestInv(p) BY DEF StageInv
    <2> QED BY <1>1, <2>1 DEF RequestInv, Kept
  <1>3. PaidInv'
    <2>1. \A p \in Requests : Paid(p) => sessions'[req[p].session] = sessions[req[p].session]
      BY DEF PaidInv, Kept, Finished
    <2>2. \A p \in Requests : Paid(p)' <=> Paid(p) BY DEF Paid, At
    <2> QED BY <2>1, <2>2 DEF PaidInv
  <1> QED BY <1>2, <1>3

LEMMA Compensated ==
  ASSUME StateType, StageInv, PaidInv, ReservationsHaveOwners,
         NEW q \in Requests, NEW scope \in {"organization", "api_token"}, Compensate(q, scope)
  PROVE  StateType' /\ StageInv' /\ PaidInv' /\ ReservationsHaveOwners'
PROOF
  <1> DEFINE t0 == <<q, scope>>
             s0 == req[q].session
  <1>1. s0 \in SessionIds
    <2>1. t0 \in owed /\ t0[1] = q BY DEF Compensate
    <2> QED BY <2>1 DEF StageInv, RequestInv
  <1>2. sessions' = Refunded(s0) \/ UNCHANGED sessions BY DEF Compensate
  <1>3. Kept BY <1>1, <1>2, KeepsAll, KeepsRefunded
  <1>4. StateType'
    <2>1. Estimate[q] \in Nat BY MoneyAssumption
    <2>2. AtLeastZero(tokenUsed - Estimate[q]) \in Nat
      <3>1. tokenUsed - Estimate[q] \in Int BY <2>1 DEF StateType
      <3> QED BY <3>1, Clamped
    <2>3. tokenUsed' \in Nat BY <2>2 DEF Compensate, StateType
    <2> QED BY <1>3, <2>3 DEF Compensate, StateType, Kept
  <1>5. StageInv' /\ PaidInv' BY <1>3, Unmoved DEF Compensate
  <1>6. ReservationsHaveOwners'
    <2> SUFFICES ASSUME NEW s \in SessionIds, Open(s)'
                 PROVE  \/ s \in stranded'
                        \/ \E p \in Requests : Holds(p, s)'
                        \/ \E t \in owed' : t[2] = "organization" /\ req'[t[1]].session = s
      BY DEF ReservationsHaveOwners
    <2>1. Open(s) /\ (sessions' = Refunded(s0) => s # s0)
      <3>1. CASE UNCHANGED sessions /\ sessions' # Refunded(s0) BY <3>1 DEF Open
      <3>2. CASE sessions' = Refunded(s0)
        <4>1. s # s0 BY <1>1, <3>2, KeepsRefunded DEF Open
        <4>2. sessions'[s] = sessions[s] BY <1>1, <3>2, <4>1 DEF Refunded, StateType
        <4> QED BY <4>1, <4>2 DEF Open
      <3> QED BY <1>2, <3>1, <3>2
    <2>2. CASE s \in stranded BY <2>2 DEF Compensate
    <2>3. CASE \E p \in Requests : Holds(p, s) BY <2>3 DEF Compensate, Holds, Running
    <2>4. CASE \E t \in owed : t[2] = "organization" /\ req[t[1]].session = s
      <3>1. PICK t \in owed : t[2] = "organization" /\ req[t[1]].session = s BY <2>4
      <3>2. t # t0
        <4> SUFFICES ASSUME t = t0 PROVE FALSE OBVIOUS
        <4>1. scope = "organization" /\ s = s0 BY <3>1
        <4> QED BY <2>1, <4>1 DEF Compensate
      <3>3. t \in owed' BY <3>1, <3>2 DEF Compensate
      <3> QED BY <3>1, <3>3 DEF Compensate
    <2> QED BY <2>1, <2>2, <2>3, <2>4 DEF ReservationsHaveOwners
  <1> QED BY <1>4, <1>5, <1>6

LEMMA Crashed ==
  ASSUME StateType, StageInv, PaidInv, ReservationsHaveOwners, Crash
  PROVE  StateType' /\ StageInv' /\ PaidInv' /\ ReservationsHaveOwners'
PROOF
  <1>1. ASSUME NEW p \in Requests
        PROVE  \/ Running(p) /\ Looks(req'[p], "dead", FALSE, req[p].session, FALSE,
                                      req[p].cost, req[p].status, req[p].result)
               \/ ~Running(p) /\ req'[p] = req[p]
    <2>1. req[p] \in RequestType BY DEF StateType
    <2>2. req'[p] = IF Running(p) THEN [req[p] EXCEPT !.pc = "dead", !.slot = FALSE,
      !.token = FALSE]
                    ELSE req[p]
      BY DEF Crash
    <2> QED BY <2>1, <2>2, Died
  <1>2. req' \in [Requests -> RequestType]
    <2>1. \A p \in Requests : req'[p] \in RequestType BY <1>1, InType DEF StateType
    <2>2. req' = [p \in Requests |-> req'[p]] BY DEF Crash
    <2> QED BY <2>1, <2>2
  <1>3. UNCHANGED <<gone, sessions, tokenUsed, usage, owed, spent>> BY DEF Crash
  <1>4. stranded' = stranded \cup {s \in SessionIds : Open(s) /\ \E q \in Requests :
                                      Running(q) /\ req[q].session = s}
    BY DEF Crash
  <1>5. StateType'
    <2>1. slots' \in Nat BY DEF Crash
    <2>2. faults' \in 0 .. FaultBound
      <3>1. faults \in 0 .. FaultBound BY DEF StateType
      <3>2. faults < FaultBound /\ faults' = faults + 1 BY DEF Crash
      <3> QED BY <3>1, <3>2, BoundAssumption
    <2>3. stranded' \subseteq SessionIds BY <1>4 DEF StateType
    <2> QED BY <1>2, <1>3, <2>1, <2>2, <2>3 DEF StateType
  <1>6. StageInv'
    <2> SUFFICES ASSUME NEW p \in Requests PROVE RequestInv(p)' BY DEF StageInv
    <2>1. RequestInv(p) BY DEF StageInv
    <2>2. CASE Running(p)
      BY <1>1, <1>3, <2>1, <2>2 DEF RequestInv, Looks, Running
    <2>3. CASE ~Running(p)
      BY <1>1, <1>3, <1>4, <2>1, <2>3 DEF RequestInv, Finished
    <2> QED BY <2>2, <2>3
  <1>7. PaidInv'
    <2>1. ASSUME NEW p \in Requests, Paid(p)'
          PROVE  /\ Paid(p) /\ req'[p].session = req[p].session /\ req'[p].cost = req[p].cost
                 /\ req'[p].result = req[p].result
      BY <1>1, <2>1 DEF Paid, At, Looks
    <2> QED BY <1>3, <2>1 DEF PaidInv
  <1>8. ReservationsHaveOwners'
    <2> SUFFICES ASSUME NEW s \in SessionIds, Open(s)'
                 PROVE  \/ s \in stranded'
                        \/ \E t \in owed' : t[2] = "organization" /\ req'[t[1]].session = s
      BY DEF ReservationsHaveOwners
    <2>1. Open(s) BY <1>3 DEF Open
    <2>2. CASE s \in stranded BY <1>4, <2>2
    <2>3. CASE \E p \in Requests : Holds(p, s) BY <1>4, <2>1, <2>3 DEF Holds
    <2>4. CASE \E t \in owed : t[2] = "organization" /\ req[t[1]].session = s
      <3>1. PICK t \in owed : t[2] = "organization" /\ req[t[1]].session = s BY <2>4
      <3>2. t[1] \in Requests BY <3>1 DEF StateType
      <3>3. req'[t[1]].session = req[t[1]].session BY <1>1, <3>2 DEF Looks
      <3> QED BY <1>3, <3>1, <3>3
    <2> QED BY <2>1, <2>2, <2>3, <2>4 DEF ReservationsHaveOwners
  <1> QED BY <1>5, <1>6, <1>7, <1>8

LEMMA InitInv == Init => StateType /\ RouterInv
PROOF
  <1> SUFFICES ASSUME Init PROVE StateType /\ RouterInv OBVIOUS
  <1>1. NewRequest \in RequestType
    BY LimitsAssumption DEF NewRequest, RequestType, Stages
  <1>2. AbsentSession \in SessionType BY DEF AbsentSession, SessionType
  <1>3. <<>> \in Seq({"pending", "success", "error"}) BY EmptySeq
  <1>4. StateType BY <1>1, <1>2, <1>3, BoundAssumption DEF Init, StateType
  <1>5. \A q \in Requests : /\ req[q].pc = "arrive" /\ ~req[q].slot /\ req[q].session = NoSession
                            /\ ~req[q].token /\ req[q].result = "none"
    BY DEF Init, NewRequest
  <1>6. \A s \in SessionIds : sessions[s].status = "absent" BY DEF Init, AbsentSession
  <1>7. StageInv BY <1>5, SessionAssumption DEF StageInv, RequestInv, Init
  <1>8. PaidInv BY <1>5 DEF PaidInv, Paid, At
  <1>9. ReservationsHaveOwners BY <1>6 DEF ReservationsHaveOwners, Open
  <1> QED BY <1>4, <1>7, <1>8, <1>9 DEF RouterInv

LEMMA StepInv == StateType /\ RouterInv /\ [Next]_vars => StateType' /\ RouterInv'
PROOF
  <1> SUFFICES ASSUME StateType, RouterInv, [Next]_vars PROVE StateType' /\ RouterInv' OBVIOUS
  <1>0. StageInv /\ PaidInv /\ ReservationsHaveOwners BY DEF RouterInv
  <1>1. ASSUME NEW q \in Requests, RequestStep(q) PROVE StateType' /\ RouterInv'
    <2>1. PICK c \in RequestType : Good(q, c) BY <1>0, <1>1, StepGood
    <2>2. StageInv' /\ PaidInv' /\ ReservationsHaveOwners'
      BY <1>0, <2>1, GoodStage, GoodPaid, GoodOwners
    <2>3. req' \in [Requests -> RequestType] BY <2>1, Updated DEF Good, Step
    <2>4. Others' BY <1>0, <1>1, StepOthers
    <2>5. StateType' BY <2>1, <2>3, <2>4 DEF StateType, Others, RowStatus, Good, Step, Kept
    <2> QED BY <2>2, <2>5 DEF RouterInv
  <1>2. ASSUME NEW q \in Requests, Disconnect(q) PROVE StateType' /\ RouterInv'
    <2>1. UNCHANGED <<req, sessions, stranded, spent, owed>> /\ Kept
      BY <1>2, KeepsAll DEF Disconnect
    <2>2. StageInv' /\ PaidInv' BY <1>0, <2>1, Unmoved
    <2>3. ReservationsHaveOwners' BY <1>0, <2>1 DEF ReservationsHaveOwners, Holds, Running, Open
    <2>4. StateType' BY <1>2 DEF Disconnect, StateType
    <2> QED BY <2>2, <2>3, <2>4 DEF RouterInv
  <1>3. ASSUME NEW q \in Requests, NEW scope \in {"organization", "api_token"}, Compensate(q,
    scope)
        PROVE  StateType' /\ RouterInv'
    BY <1>0, <1>3, Compensated DEF RouterInv
  <1>4. CASE Crash BY <1>0, <1>4, Crashed DEF RouterInv
  <1>5. CASE UNCHANGED vars
    <2>1. UNCHANGED <<req, sessions, stranded, spent, owed>> /\ Kept BY <1>5, KeepsAll DEF vars
    <2>2. StageInv' /\ PaidInv' BY <1>0, <2>1, Unmoved
    <2>3. ReservationsHaveOwners' BY <1>0, <2>1 DEF ReservationsHaveOwners, Holds, Running, Open
    <2>4. StateType' BY <1>5 DEF vars, StateType
    <2> QED BY <2>2, <2>3, <2>4 DEF RouterInv
  <1> QED BY <1>1, <1>2, <1>3, <1>4, <1>5 DEF Next, RequestStep

-----------------------------------------------------------------------------
(* Theorems                                                                 *)

\* Every variable but the history adrift has its type in every state; adrift is a sum
\* and is in AllTypesCorrect.
THEOREM TypeCorrect == Spec => []StateType
PROOF
  <1>1. Spec => [](StateType /\ RouterInv) BY InitInv, StepInv, PTL DEF Spec
  <1> QED BY <1>1, PTL

\* The inductive invariant: what each stage holds, that a session is settled by one
\* request at the cost of its answer, and that open reservations have owners.
THEOREM RouterInvariant == Spec => []RouterInv
PROOF
  <1>1. Spec => [](StateType /\ RouterInv) BY InitInv, StepInv, PTL DEF Spec
  <1> QED BY <1>1, PTL

\* No reservation is forgotten: RouteWithBilling closes what it opened, hands it to
\* compensation, or could not close it and is known to have given it up.
THEOREM ReservationsOwned == Spec => []ReservationsHaveOwners
PROOF
  <1>1. RouterInv => ReservationsHaveOwners BY DEF RouterInv
  <1> QED BY <1>1, RouterInvariant, PTL

\* However many requests share a key, one of their answers goes out per session.
THEOREM OneAnswer == Spec => []OneAnswerPerSession
PROOF
  <1>1. RouterInv => OneAnswerPerSession BY DEF RouterInv, PaidInv, Paid, OneAnswerPerSession
  <1> QED BY <1>1, RouterInvariant, PTL

\* What goes out has been charged to the organization and to the token.
THEOREM AnswersCharged == Spec => []AnswersAreCharged
PROOF
  <1>1. RouterInv => AnswersAreCharged BY DEF RouterInv, PaidInv, Paid, AnswersAreCharged
  <1> QED BY <1>1, RouterInvariant, PTL

-----------------------------------------------------------------------------
(* The slots of the rate limiter                                            *)

Holders == {q \in Requests : req[q].slot}

SlotsInv == slots = Cardinality(Holders) /\ slots <= MaxConcurrent

\* What a step of q does to its slot and to the limiter's count.
KeepsSlot(q) == req'[q].slot = req[q].slot /\ UNCHANGED slots
TakesSlot(q) == ~req[q].slot /\ req'[q].slot /\ slots < MaxConcurrent /\ slots' = slots + 1
FreesSlot(q) == req[q].slot /\ ~req'[q].slot /\ EndSlot

SlotStep(q) ==
  /\ \A p \in Requests : p # q => req'[p] = req[p]
  /\ KeepsSlot(q) \/ TakesSlot(q) \/ FreesSlot(q)

LEMMA OthersStay ==
  ASSUME StateType, StageInv, PaidInv, NEW q \in Requests, RequestStep(q)
  PROVE  \A p \in Requests : p # q => req'[p] = req[p]
PROOF
  <1>1. PICK c \in RequestType : Good(q, c) BY StepGood
  <1> QED BY <1>1, Updated DEF Good, Step

LEMMA RequestSlots ==
  ASSUME StateType, StageInv, StageInv', PaidInv, NEW q \in Requests, RequestStep(q)
  PROVE  SlotStep(q)
PROOF
  <1> USE DEF SlotStep, At, RequestInv
  <1>1. \A p \in Requests : p # q => req'[p] = req[p] BY OthersStay
  <1>2. RequestInv(q) /\ RequestInv(q)' /\ req \in [Requests -> RequestType]
    BY DEF StageInv, StateType
  <1>3. req[q] \in RequestType BY <1>2
  <1>4. \A c : Go(q, c) => req'[q] = c BY <1>2 DEF Go
  <1>5. CASE Arrive(q)
    BY <1>1, <1>2, <1>3, <1>4, <1>5, ZenonT(30) DEF Arrive, KeepsSlot, Returned, RequestType
  <1>6. CASE SelectChannel(q)
    BY <1>1, <1>2, <1>3, <1>4, <1>6 DEF SelectChannel, KeepsSlot, Returned, RequestType
  <1>7. CASE Begin(q)
    BY <1>1, <1>2, <1>3, <1>4, <1>7 DEF Begin, KeepsSlot, TakesSlot, Returned, RequestType
  <1>8. CASE Allow(q)
    BY <1>1, <1>2, <1>3, <1>4, <1>8 DEF Allow, KeepsSlot, FreesSlot, Returned, RequestType
  <1>9. CASE PreConsume(q)
    BY <1>1, <1>2, <1>3, <1>4, <1>9 DEF PreConsume, KeepsSlot, RequestType
  <1>10. CASE PreConsumeFails(q)
    BY <1>1, <1>2, <1>3, <1>4, <1>10 DEF PreConsumeFails, FreesSlot, Returned, RequestType
  <1>11. CASE PreBill(q)
    BY <1>1, <1>2, <1>3, <1>4, <1>11 DEF PreBill, KeepsSlot, RequestType
  <1>12. CASE PreBillFails(q)
    BY <1>1, <1>2, <1>3, <1>4, <1>12 DEF PreBillFails, FreesSlot, Returned, RequestType
  <1>13. CASE HoldToken(q)
    BY <1>1, <1>2, <1>3, <1>4, <1>13 DEF HoldToken, KeepsSlot, RequestType
  <1>14. CASE HoldTokenFails(q)
    BY <1>1, <1>2, <1>3, <1>4, <1>14, ZenonT(30) DEF HoldTokenFails, FreesSlot, RefundBoth, RequestType
  <1>15. CASE RecordPending(q)
    BY <1>1, <1>2, <1>3, <1>4, <1>15 DEF RecordPending, KeepsSlot, RequestType
  <1>16. CASE RecordPendingFails(q)
    BY <1>1, <1>2, <1>3, <1>4, <1>16 DEF RecordPendingFails, FreesSlot, RefundBoth, RequestType
  <1>17. CASE Dispatch(q)
    BY <1>1, <1>2, <1>3, <1>4, <1>17 DEF Dispatch, KeepsSlot, RequestType
  <1>18. CASE LateDenial(q)
    BY <1>1, <1>2, <1>3, <1>4, <1>18 DEF LateDenial, FreesSlot, Returned, RequestType
  <1>19. CASE \E cost \in Costs, status \in {"success", "error"} : ProviderAnswers(q, cost, status)
    BY <1>1, <1>2, <1>3, <1>4, <1>19, ZenonT(30) DEF ProviderAnswers, FreesSlot, RequestType
  <1>20. CASE ProviderErrors(q)
    BY <1>1, <1>2, <1>3, <1>4, <1>20, ZenonT(30) DEF ProviderErrors, FreesSlot, RefundBoth, RequestType
  <1>21. CASE ProviderRefuses(q)
    BY <1>1, <1>2, <1>3, <1>4, <1>21 DEF ProviderRefuses, FreesSlot, RefundBoth, RequestType
  <1>22. CASE QuoteFails(q)
    BY <1>1, <1>2, <1>3, <1>4, <1>22 DEF QuoteFails, KeepsSlot, RefundBoth, RequestType
  <1>23. CASE RecordUsage(q)
    BY <1>1, <1>2, <1>3, <1>4, <1>23 DEF RecordUsage, KeepsSlot, RequestType
  <1>24. CASE RecordUsageFails(q)
    BY <1>1, <1>2, <1>3, <1>4, <1>24
    DEF RecordUsageFails, Unrecorded, KeepsSlot, RefundBoth, RequestType
  <1>25. CASE SettleOrganization(q)
    BY <1>1, <1>2, <1>3, <1>4, <1>25 DEF SettleOrganization, KeepsSlot, RequestType
  <1>26. CASE SettleOrganizationFails(q)
    BY <1>1, <1>2, <1>3, <1>4, <1>26 DEF SettleOrganizationFails, KeepsSlot, RequestType
  <1>27. CASE SettleToken(q)
    BY <1>1, <1>2, <1>3, <1>4, <1>27 DEF SettleToken, KeepsSlot, Returned, RequestType
  <1>28. CASE SettleTokenFails(q)
    BY <1>1, <1>2, <1>3, <1>4, <1>28, ZenonT(30) DEF SettleTokenFails, KeepsSlot, RequestType
  <1>29. CASE RefundOrganization(q)
    BY <1>1, <1>2, <1>3, <1>4, <1>29, ZenonT(30)
    DEF RefundOrganization, AfterOrganization, Continue, KeepsSlot, Returned, RequestType
  <1>30. CASE RefundToken(q)
    BY <1>1, <1>2, <1>3, <1>4, <1>30, ZenonT(30) DEF RefundToken, Continue, KeepsSlot, Returned, RequestType
  <1> QED BY <1>5, <1>6, <1>7, <1>8, <1>9, <1>10, <1>11, <1>12, <1>13, <1>14, <1>15, <1>16,
    <1>17, <1>18, <1>19, <1>20, <1>21, <1>22, <1>23, <1>24, <1>25, <1>26, <1>27, <1>28, <1>29,
    <1>30 DEF RequestStep

LEMMA HoldersFinite == IsFiniteSet(Holders) /\ Cardinality(Holders) \in Nat
PROOF
  <1>1. Holders \in SUBSET Requests BY DEF Holders
  <1> QED BY <1>1, RequestsAssumption, FS_Subset, FS_CardinalityType

LEMMA SlotsCounted ==
  ASSUME StateType, req' \in [Requests -> RequestType], SlotsInv, NEW q \in Requests, SlotStep(q)
  PROVE  SlotsInv'
PROOF
  <1>1. IsFiniteSet(Holders) /\ Cardinality(Holders) \in Nat BY HoldersFinite
  <1>2. \A p \in Requests : p # q => (req'[p].slot <=> req[p].slot) BY DEF SlotStep
  <1>3. CASE KeepsSlot(q)
    <2>1. Holders' = Holders BY <1>2, <1>3 DEF Holders, KeepsSlot
    <2> QED BY <1>3, <2>1 DEF SlotsInv, KeepsSlot
  <1>4. CASE TakesSlot(q)
    <2>1. Holders' = Holders \cup {q} /\ q \notin Holders BY <1>2, <1>4 DEF Holders, TakesSlot
    <2>2. Cardinality(Holders') = Cardinality(Holders) + 1 BY <1>1, <2>1, FS_AddElement
    <2>3. slots' <= MaxConcurrent BY <1>1, <1>4, LimitsAssumption DEF SlotsInv, TakesSlot
    <2> QED BY <1>4, <2>2, <2>3 DEF SlotsInv, TakesSlot
  <1>5. CASE FreesSlot(q)
    <2>1. Holders' = Holders \ {q} /\ q \in Holders BY <1>2, <1>5 DEF Holders, FreesSlot
    <2>2. Cardinality(Holders') = Cardinality(Holders) - 1 BY <1>1, <2>1, FS_RemoveElement
    <2>3. Cardinality(Holders') \in Nat BY <1>1, <2>1, FS_RemoveElement, FS_CardinalityType
    <2>4. slots' = slots - 1
      BY <1>1, <1>5, <2>2, <2>3 DEF SlotsInv, FreesSlot, EndSlot, AtLeastZero
    <2> QED BY <1>1, <2>2, <2>4, LimitsAssumption DEF SlotsInv
  <1> QED BY <1>3, <1>4, <1>5 DEF SlotStep

LEMMA SlotsInit == Init => SlotsInv
PROOF
  <1> SUFFICES ASSUME Init PROVE SlotsInv OBVIOUS
  <1>1. Holders = {} BY DEF Init, NewRequest, Holders
  <1> QED BY <1>1, FS_EmptySet, LimitsAssumption DEF Init, SlotsInv

LEMMA SlotsStep ==
  StateType /\ RouterInv /\ SlotsInv /\ [Next]_vars /\ StateType' /\ RouterInv' => SlotsInv'
PROOF
  <1> SUFFICES ASSUME StateType, RouterInv, SlotsInv, [Next]_vars, StateType', RouterInv'
               PROVE  SlotsInv'
    OBVIOUS
  <1>0. StageInv /\ PaidInv /\ StageInv' /\ req' \in [Requests -> RequestType]
    BY DEF RouterInv, StateType
  <1>1. ASSUME NEW q \in Requests, RequestStep(q) PROVE SlotsInv'
    BY <1>0, <1>1, RequestSlots, SlotsCounted
  <1>2. ASSUME UNCHANGED <<req, slots>> PROVE SlotsInv' BY <1>2 DEF SlotsInv, Holders
  <1>3. ASSUME NEW q \in Requests, Disconnect(q) PROVE SlotsInv' BY <1>2, <1>3 DEF Disconnect
  <1>4. ASSUME NEW q \in Requests, NEW scope \in {"organization", "api_token"},
               Compensate(q, scope)
        PROVE  SlotsInv'
    BY <1>2, <1>4 DEF Compensate
  <1>5. CASE Crash
    <2>1. ASSUME NEW p \in Requests PROVE ~req'[p].slot
      <3>1. req[p] \in RequestType /\ RequestInv(p) BY <1>0 DEF StateType, StageInv
      <3>2. req'[p] = IF Running(p)
                      THEN [req[p] EXCEPT !.pc = "dead", !.slot = FALSE, !.token = FALSE]
                      ELSE req[p]
        BY <1>5 DEF Crash
      <3> QED BY <3>1, <3>2 DEF RequestType, RequestInv, Running
    <2>2. Holders' = {} BY <2>1 DEF Holders
    <2>3. Cardinality(Holders') = 0 BY <2>2, FS_EmptySet
    <2>4. slots' = 0 BY <1>5 DEF Crash
    <2>5. 0 <= MaxConcurrent BY LimitsAssumption
    <2> QED BY <2>3, <2>4, <2>5 DEF SlotsInv
  <1>6. CASE UNCHANGED vars BY <1>2, <1>6 DEF vars
  <1> QED BY <1>1, <1>3, <1>4, <1>5, <1>6 DEF Next, RequestStep

\* Every path out of an attempt frees its slot once: the limiter's count is the number
\* of attempts that hold one, never above the limit.
THEOREM SlotsHeld == Spec => []SlotsAreHeld
PROOF
  <1>1. Spec => []SlotsInv
    BY TypeCorrect, RouterInvariant, SlotsInit, SlotsStep, PTL DEF Spec
  <1>2. RouterInv /\ SlotsInv => SlotsAreHeld
    BY DEF RouterInv, StageInv, RequestInv, SlotsInv, SlotsAreHeld, Holders, At
  <1> QED BY <1>1, <1>2, RouterInvariant, PTL

-----------------------------------------------------------------------------
(* The rows of the answers                                                  *)

\* q has a row for its answer, or the pending row of its stream.
Rowed(q) ==
  \/ RowsOf(q, req[q].status) # {}
  \/ q \in Streaming /\ RowsOf(q, "pending") # {}

RowsInv(q) ==
  /\ q \in Streaming /\ req[q].pc \in {"dispatch", "call", "record"} => RowsOf(q, "pending") # {}
  /\ req[q].pc \in {"settleOrg", "settleToken"} \/ req[q].result = "answered" => Rowed(q)

RecordedInv == \A q \in Requests : RowsInv(q)

LEMMA InsertedRow ==
  ASSUME StateType, NEW q \in Requests, NEW status \in RowStatus, usage' = Inserted(q, status)
  PROVE  RowsOf(q, status)' # {}
PROOF
  <1>1. usage[q] \in Seq(RowStatus) BY DEF StateType, RowStatus
  <1>2. usage'[q] = Append(usage[q], status) BY DEF Inserted, StateType
  <1>3. /\ Len(usage[q]) + 1 \in DOMAIN usage'[q]
        /\ usage'[q][Len(usage[q]) + 1] = status
    BY <1>1, <1>2
  <1> QED BY <1>3 DEF RowsOf

LEMMA ReplacedRow ==
  ASSUME StateType, NEW q \in Requests, NEW status \in RowStatus, usage' = Replaced(q, status)
  PROVE  RowsOf(q, status)' # {}
PROOF
  <1>1. usage[q] \in Seq(RowStatus) BY DEF StateType, RowStatus
  <1>2. CASE usage[q] = <<>> BY <1>2, InsertedRow DEF Replaced
  <1>3. CASE usage[q] # <<>>
    <2>1. usage'[q] = [i \in DOMAIN usage[q] |-> status] BY <1>3 DEF Replaced, StateType
    <2>2. 1 \in DOMAIN usage[q] BY <1>1, <1>3
    <2>3. 1 \in DOMAIN usage'[q] /\ usage'[q][1] = status BY <2>1, <2>2
    <2> QED BY <2>3 DEF RowsOf
  <1> QED BY <1>2, <1>3

\* No step of q writes the rows of another request.
LEMMA OwnRows ==
  ASSUME StateType, NEW q \in Requests, RequestStep(q)
  PROVE  \A p \in Requests : p # q => usage'[p] = usage[p]
PROOF
  <1> DEFINE Own(u) == \A p \in Requests : p # q => u[p] = usage[p]
  <1>1. \A x : Own(Inserted(q, x)) BY DEF Inserted, StateType
  <1>2. \A x : Own(Replaced(q, x)) BY <1>1 DEF Replaced, StateType
  <1>3. Own(usage) OBVIOUS
  <1>4. ErrorRow(q) => Own(usage') BY <1>1, <1>2, <1>3 DEF ErrorRow, Attempted
  <1>5. Own(AnswerRow(q)) BY <1>1, <1>2 DEF AnswerRow
  <1> HIDE DEF Own
  <1> SUFFICES Own(usage') BY DEF Own
  <1>6. CASE Arrive(q) \/ SelectChannel(q) \/ Begin(q) \/ Allow(q) \/ PreConsumeFails(q)
             \/ PreBillFails(q)
    BY <1>1, <1>3, <1>6
    DEF Arrive, SelectChannel, Begin, Allow, PreConsumeFails, PreBillFails, Attempted
  <1>7. CASE PreConsume(q) \/ PreBill(q) \/ HoldToken(q) \/ HoldTokenFails(q) \/ Dispatch(q)
             \/ LateDenial(q)
    BY <1>3, <1>7 DEF PreConsume, PreBill, HoldToken, HoldTokenFails, Dispatch, LateDenial
  <1>8. CASE RecordPending(q) \/ RecordPendingFails(q)
    BY <1>1, <1>3, <1>8 DEF RecordPending, RecordPendingFails
  <1>9. CASE \/ \E cost \in Costs, status \in {"success", "error"} : ProviderAnswers(q, cost, status)
             \/ ProviderErrors(q) \/ ProviderRefuses(q) \/ QuoteFails(q)
    BY <1>3, <1>9 DEF ProviderAnswers, ProviderErrors, ProviderRefuses, QuoteFails
  <1>10. CASE RecordUsage(q) \/ RecordUsageFails(q)
    BY <1>3, <1>5, <1>10 DEF RecordUsage, RecordUsageFails
  <1>11. CASE SettleOrganization(q) \/ SettleOrganizationFails(q) \/ SettleToken(q)
              \/ SettleTokenFails(q)
    BY <1>3, <1>11 DEF SettleOrganization, SettleOrganizationFails, SettleToken, SettleTokenFails
  <1>12. CASE RefundOrganization(q) \/ RefundToken(q)
    BY <1>3, <1>4, <1>12 DEF RefundOrganization, AfterOrganization, RefundToken, Continue
  <1> QED BY <1>6, <1>7, <1>8, <1>9, <1>10, <1>11, <1>12 DEF RequestStep

\* q's step leaves it where no row is owed, or the row is there.
LEMMA RowsStep ==
  ASSUME StateType, StageInv, RecordedInv, NEW q \in Requests, RequestStep(q)
  PROVE  RowsInv(q)'
PROOF
  <1> USE DEF At
  <1>1. /\ RequestInv(q) /\ RowsInv(q)
        /\ req \in [Requests -> RequestType] /\ req[q] \in RequestType
    BY DEF StageInv, StateType, RecordedInv
  <1>2. \A c : Go(q, c) => req'[q] = c BY <1>1 DEF Go
  <1>3. ASSUME req'[q].pc \notin {"dispatch", "call", "record", "settleOrg", "settleToken"},
               req'[q].result # "answered"
        PROVE  RowsInv(q)'
    BY <1>3 DEF RowsInv
  <1>4. ASSUME UNCHANGED usage PROVE \A x : RowsOf(q, x)' = RowsOf(q, x) BY <1>4 DEF RowsOf
  <1>0. req[q].pc # "done" => req[q].result # "answered" BY <1>1 DEF RequestInv
  <1>5. CASE Arrive(q)
    BY <1>1, <1>2, <1>3, <1>5, ZenonT(30) DEF Arrive, Returned, RequestType, RequestInv
  <1>6. CASE SelectChannel(q)
    BY <1>1, <1>2, <1>3, <1>6 DEF SelectChannel, Returned, RequestType, RequestInv
  <1>7. CASE Begin(q)
    BY <1>1, <1>2, <1>3, <1>7 DEF Begin, Returned, RequestType, RequestInv
  <1>8. CASE Allow(q)
    BY <1>1, <1>2, <1>3, <1>8, ZenonT(30) DEF Allow, Returned, RequestType, RequestInv
  <1>9. CASE PreConsume(q)
    BY <1>1, <1>2, <1>3, <1>9 DEF PreConsume, RequestType, RequestInv
  <1>10. CASE PreConsumeFails(q)
    BY <1>1, <1>2, <1>3, <1>10, ZenonT(30) DEF PreConsumeFails, Returned, RequestType, RequestInv
  <1>11. CASE PreBill(q)
    BY <1>1, <1>2, <1>3, <1>11 DEF PreBill, RequestType, RequestInv
  <1>12. CASE PreBillFails(q)
    BY <1>1, <1>2, <1>3, <1>12, ZenonT(30) DEF PreBillFails, Returned, RequestType, RequestInv
  <1>13. CASE HoldToken(q)
    BY <1>1, <1>2, <1>3, <1>13, ZenonT(30) DEF HoldToken, RequestType, RequestInv
  <1>14. CASE HoldTokenFails(q)
    BY <1>1, <1>2, <1>3, <1>14, ZenonT(30) DEF HoldTokenFails, RefundBoth, RequestType, RequestInv
  <1>15. CASE RecordPending(q)
    <2>1. q \in Streaming => RowsOf(q, "pending")' # {}
      BY <1>15, InsertedRow DEF RecordPending, RowStatus
    <2> QED BY <1>1, <1>2, <1>15, <2>1 DEF RecordPending, RequestType, RequestInv, RowsInv
  <1>16. CASE RecordPendingFails(q)
    BY <1>1, <1>2, <1>3, <1>16, ZenonT(30) DEF RecordPendingFails, RefundBoth, RequestType, RequestInv
  <1>17. CASE Dispatch(q)
    BY <1>1, <1>2, <1>4, <1>17 DEF Dispatch, RequestType, RequestInv, RowsInv
  <1>18. CASE LateDenial(q)
    <2>1. req'[q] = Returned(q, "failed") BY <1>2, <1>18 DEF LateDenial
    <2> QED BY <1>3, <2>1, ReturnedLooks DEF Looks
  <1>19. CASE \E cost \in Costs, status \in {"success", "error"} : ProviderAnswers(q, cost, status)
    BY <1>1, <1>2, <1>4, <1>19, ZenonT(30) DEF ProviderAnswers, RequestType, RequestInv, RowsInv
  <1>20. CASE ProviderErrors(q)
    <2>1. req'[q] = RefundBoth(q, FALSE, "replace") \/ req'[q] = RefundBoth(q, TRUE, "insert")
      BY <1>2, <1>20 DEF ProviderErrors
    <2> QED BY <1>3, <1>20, <1>0, <2>1, RefundLooks DEF Looks, ProviderErrors
  <1>21. CASE ProviderRefuses(q)
    <2>1. req'[q] = RefundBoth(q, TRUE, "none") BY <1>2, <1>21 DEF ProviderRefuses
    <2> QED BY <1>3, <1>21, <1>0, <2>1, RefundLooks DEF Looks, ProviderRefuses
  <1>22. CASE QuoteFails(q)
    BY <1>1, <1>2, <1>3, <1>22 DEF QuoteFails, RefundBoth, RequestType, RequestInv
  <1>23. ASSUME At(q, "record"), usage' = AnswerRow(q), NEW x, x = req[q].status
         PROVE  RowsOf(q, x)' # {}
    <2>1. x \in RowStatus BY <1>1, <1>23 DEF RequestType, RequestInv, RowStatus
    <2>2. usage' = Inserted(q, x) \/ usage' = Replaced(q, x) BY <1>23 DEF AnswerRow
    <2> QED BY <2>1, <2>2, InsertedRow, ReplacedRow
  <1>24. CASE RecordUsage(q)
    BY <1>1, <1>2, <1>23, <1>24 DEF RecordUsage, RequestType, RequestInv, RowsInv, Rowed
  <1>25. CASE RecordUsageFails(q)
    BY <1>1, <1>2, <1>3, <1>4, <1>23, <1>25, ZenonT(30)
    DEF RecordUsageFails, Unrecorded, RefundBoth, RequestType, RequestInv, RowsInv, Rowed
  <1>26. CASE SettleOrganization(q)
    BY <1>1, <1>2, <1>4, <1>26 DEF SettleOrganization, RequestType, RequestInv, RowsInv, Rowed
  <1>27. CASE SettleOrganizationFails(q)
    BY <1>1, <1>2, <1>3, <1>27 DEF SettleOrganizationFails, RequestType, RequestInv
  <1>28. CASE SettleToken(q)
    <2>1. req'[q] = Returned(q, "answered") /\ usage' = usage BY <1>2, <1>28 DEF SettleToken
    <2>2. req'[q].pc = "done" /\ req'[q].status = req[q].status
      BY <2>1, ReturnedLooks DEF Looks
    <2>3. Rowed(q) BY <1>1, <1>28 DEF SettleToken, RowsInv
    <2>4. Rowed(q)' BY <2>1, <2>2, <2>3 DEF Rowed, RowsOf
    <2> QED BY <2>2, <2>4 DEF RowsInv
  <1>29. CASE SettleTokenFails(q)
    <2>1. req'[q] = [req[q] EXCEPT !.pc = "refundOrg", !.token = FALSE, !.again = FALSE,
                                   !.row = "replace"]
      BY <1>2, <1>29 DEF SettleTokenFails
    <2> QED BY <1>1, <1>3, <1>29, <1>0, <2>1, SessionOnly DEF Looks, SettleTokenFails
  <1>30. CASE RefundOrganization(q)
    BY <1>1, <1>2, <1>3, <1>30, ZenonT(30)
    DEF RefundOrganization, AfterOrganization, Continue, Returned, RequestType, RequestInv
  <1>31. CASE RefundToken(q)
    BY <1>1, <1>2, <1>3, <1>31 DEF RefundToken, Continue, Returned, RequestType, RequestInv
  <1> QED BY <1>5, <1>6, <1>7, <1>8, <1>9, <1>10, <1>11, <1>12, <1>13, <1>14, <1>15, <1>16,
    <1>17, <1>18, <1>19, <1>20, <1>21, <1>22, <1>24, <1>25, <1>26, <1>27, <1>28, <1>29, <1>30,
    <1>31 DEF RequestStep

LEMMA RecordedStep ==
  StateType /\ RouterInv /\ RecordedInv /\ [Next]_vars => RecordedInv'
PROOF
  <1> SUFFICES ASSUME StateType, RouterInv, RecordedInv, [Next]_vars,
                      NEW p \in Requests
               PROVE  RowsInv(p)'
    BY DEF RecordedInv
  <1>0. StageInv /\ PaidInv /\ RowsInv(p) BY DEF RouterInv, RecordedInv
  <1>1. ASSUME req'[p] = req[p], usage'[p] = usage[p] PROVE RowsInv(p)'
    BY <1>0, <1>1 DEF RowsInv, Rowed, RowsOf
  <1>2. ASSUME NEW q \in Requests, RequestStep(q) PROVE RowsInv(p)'
    <2>1. CASE p = q BY <1>0, <1>2, <2>1, RowsStep
    <2>2. CASE p # q BY <1>0, <1>1, <1>2, <2>2, OthersStay, OwnRows
    <2> QED BY <2>1, <2>2
  <1>3. ASSUME NEW q \in Requests, Disconnect(q) PROVE RowsInv(p)'
    BY <1>1, <1>3 DEF Disconnect
  <1>4. ASSUME NEW q \in Requests, NEW scope \in {"organization", "api_token"},
               Compensate(q, scope)
        PROVE  RowsInv(p)'
    BY <1>1, <1>4 DEF Compensate
  <1>5. CASE Crash
    <2>1. usage' = usage BY <1>5 DEF Crash
    <2>2. req[p] \in RequestType /\ RequestInv(p) BY <1>0 DEF StateType, StageInv
    <2>3. req'[p] = IF Running(p)
                    THEN [req[p] EXCEPT !.pc = "dead", !.slot = FALSE, !.token = FALSE]
                    ELSE req[p]
      BY <1>5 DEF Crash
    <2>4. CASE Running(p) BY <2>2, <2>3, <2>4 DEF RequestType, RequestInv, RowsInv, Running
    <2>5. CASE ~Running(p) BY <1>1, <2>1, <2>3, <2>5
    <2> QED BY <2>4, <2>5
  <1>6. CASE UNCHANGED vars BY <1>1, <1>6 DEF vars
  <1> QED BY <1>2, <1>3, <1>4, <1>5, <1>6 DEF Next, RequestStep

\* No answer goes out unrecorded: it has its row, or the pending row of its stream.
THEOREM AnswersRecorded == Spec => []AnswersAreRecorded
PROOF
  <1>1. Init => RecordedInv BY DEF Init, NewRequest, RecordedInv, RowsInv
  <1>2. Spec => []RecordedInv
    BY <1>1, TypeCorrect, RouterInvariant, RecordedStep, PTL DEF Spec
  <1>3. RecordedInv => AnswersAreRecorded
    BY DEF RecordedInv, RowsInv, Rowed, AnswersAreRecorded
  <1> QED BY <1>2, <1>3, PTL

-----------------------------------------------------------------------------
(* The sessions a request uses, and what was reserved in them               *)

\* The sessions after a step of q, and the one q uses then.
ReservedStep(q) ==
  /\ \/ UNCHANGED sessions
     \/ sessions' = Reserved(q)
     \/ Settleable(req[q].session, req[q].cost) /\ sessions' = Settled(q)
     \/ sessions' = Refunded(req[q].session)
  /\ req'[q].session \in {req[q].session, SessionOf(q), NoSession}

LEMMA RequestReserved ==
  ASSUME StateType, StageInv, NEW q \in Requests, RequestStep(q)
  PROVE  ReservedStep(q)
PROOF
  <1> USE DEF ReservedStep, At
  <1>1. req \in [Requests -> RequestType] /\ req[q] \in RequestType BY DEF StateType
  <1>2. \A c : Go(q, c) => req'[q] = c BY <1>1 DEF Go
  <1>5. Continue(q) => req'[q].session \in {req[q].session, NoSession}
    BY <1>1, <1>2 DEF Continue, Returned, RequestType
  <1>6. CASE Arrive(q) \/ SelectChannel(q) \/ Begin(q) \/ Allow(q) \/ PreBill(q) \/ PreBillFails(q)
    BY <1>1, <1>2, <1>6
    DEF Arrive, SelectChannel, Begin, Allow, PreBill, PreBillFails, Returned, RequestType
  <1>7. CASE PreConsume(q) BY <1>1, <1>2, <1>7 DEF PreConsume, RequestType
  <1>8. CASE PreConsumeFails(q) BY <1>1, <1>2, <1>8 DEF PreConsumeFails, Returned, RequestType
  <1>9. CASE HoldToken(q) \/ HoldTokenFails(q) \/ RecordPending(q) \/ RecordPendingFails(q)
             \/ Dispatch(q) \/ LateDenial(q)
    BY <1>1, <1>2, <1>9
    DEF HoldToken, HoldTokenFails, RecordPending, RecordPendingFails, Dispatch, LateDenial,
        Returned, RefundBoth, RequestType
  <1>10. CASE \/ \E cost \in Costs, status \in {"success", "error"} : ProviderAnswers(q, cost, status)
              \/ ProviderErrors(q) \/ ProviderRefuses(q) \/ QuoteFails(q)
    BY <1>1, <1>2, <1>10
    DEF ProviderAnswers, ProviderErrors, ProviderRefuses, QuoteFails, RefundBoth, RequestType
  <1>11. CASE RecordUsage(q) \/ RecordUsageFails(q)
    BY <1>1, <1>2, <1>11 DEF RecordUsage, RecordUsageFails, Unrecorded, RefundBoth, RequestType
  <1>12. CASE SettleOrganization(q) BY <1>1, <1>2, <1>12 DEF SettleOrganization, RequestType
  <1>13. CASE SettleOrganizationFails(q)
    BY <1>1, <1>2, <1>13 DEF SettleOrganizationFails, RequestType
  <1>14. CASE SettleToken(q) \/ SettleTokenFails(q)
    BY <1>1, <1>2, <1>14 DEF SettleToken, SettleTokenFails, Returned, RequestType
  <1>15. CASE RefundOrganization(q)
    <2>1. req'[q].session \in {req[q].session, NoSession}
      BY <1>1, <1>2, <1>5, <1>15 DEF RefundOrganization, AfterOrganization, RequestType
    <2> QED BY <1>15, <2>1 DEF RefundOrganization
  <1>16. CASE RefundToken(q) BY <1>5, <1>16 DEF RefundToken
  <1> QED BY <1>6, <1>7, <1>8, <1>9, <1>10, <1>11, <1>12, <1>13, <1>14, <1>15, <1>16 DEF RequestStep

\* Some request of the key of s expected to cost what was reserved in it.
Backed(ss, s) ==
  ss[s].status # "absent" =>
    /\ ss[s].cost <= ss[s].reserved
    /\ \E r \in Requests : Key[r] = s[1] /\ ss[s].reserved = Estimate[r]

LEMMA BackedReserved ==
  ASSUME StateType, NEW q \in Requests, NEW s \in SessionIds, Backed(sessions, s)
  PROVE  Backed(Reserved(q), s)
PROOF
  <1>1. SessionOf(q) \in SessionIds /\ SessionOf(q)[1] = Key[q] BY Sessions DEF SessionOf
  <1>2. 0 <= Estimate[q] BY MoneyAssumption
  <1> QED BY <1>1, <1>2 DEF StateType, Reserved, Backed

LEMMA BackedSettled ==
  ASSUME StateType, NEW q \in Requests, NEW s \in SessionIds, Backed(sessions, s),
         req[q].session \in SessionIds, Settleable(req[q].session, req[q].cost)
  PROVE  Backed(Settled(q), s)
PROOF
  <1>1. sessions[s] \in SessionType BY DEF StateType
  <1> QED BY <1>1 DEF StateType, SessionType, Settled, Settleable, Backed, Open

LEMMA BackedRefunded ==
  ASSUME StateType, NEW t, NEW s \in SessionIds, Backed(sessions, s)
  PROVE  Backed(Refunded(t), s)
PROOF
  <1>1. sessions[s] \in SessionType BY DEF StateType
  <1>2. CASE t = s BY <1>1, <1>2 DEF StateType, SessionType, Refunded, Backed, Open
  <1>3. CASE t # s BY <1>3 DEF StateType, Refunded, Backed
  <1> QED BY <1>2, <1>3

LEMMA ReservedParts ==
  ReservedInv <=> /\ \A s \in SessionIds : Backed(sessions, s)
                  /\ \A q \in Requests : req[q].session \in SessionIds => req[q].session[1] = Key[q]
PROOF BY DEF ReservedInv, Backed

LEMMA StepReserved ==
  StateType /\ RouterInv /\ ReservedInv /\ [Next]_vars => ReservedInv'
PROOF
  <1> SUFFICES ASSUME StateType, RouterInv, ReservedInv, [Next]_vars PROVE ReservedInv' OBVIOUS
  <1>0. /\ StageInv /\ PaidInv
        /\ \A s \in SessionIds : Backed(sessions, s)
        /\ \A q \in Requests : req[q].session \in SessionIds => req[q].session[1] = Key[q]
    BY ReservedParts DEF RouterInv
  <1>1. ASSUME \A s \in SessionIds : Backed(sessions', s),
               \A q \in Requests : req'[q].session \in SessionIds => req'[q].session[1] = Key[q]
        PROVE  ReservedInv'
    BY <1>1 DEF ReservedInv, Backed
  <1>2. ASSUME NEW q \in Requests, RequestStep(q) PROVE ReservedInv'
    <2>1. ReservedStep(q) BY <1>0, <1>2, RequestReserved
    <2>2. \A s \in SessionIds : Backed(sessions', s)
      <3> SUFFICES ASSUME NEW s \in SessionIds PROVE Backed(sessions', s) OBVIOUS
      <3>1. CASE UNCHANGED sessions BY <1>0, <3>1
      <3>2. CASE sessions' = Reserved(q) BY <1>0, <3>2, BackedReserved
      <3>3. CASE Settleable(req[q].session, req[q].cost) /\ sessions' = Settled(q)
        <4>1. CASE req[q].session \in SessionIds BY <1>0, <3>3, <4>1, BackedSettled
        <4>2. CASE req[q].session \notin SessionIds
          <5>1. sessions' = sessions BY <3>3, <4>2 DEF Settled, StateType
          <5> QED BY <1>0, <5>1
        <4> QED BY <4>1, <4>2
      <3>4. CASE sessions' = Refunded(req[q].session) BY <1>0, <3>4, BackedRefunded
      <3> QED BY <2>1, <3>1, <3>2, <3>3, <3>4 DEF ReservedStep
    <2>3. ASSUME NEW p \in Requests, req'[p].session \in SessionIds
          PROVE  req'[p].session[1] = Key[p]
      <3>1. CASE p # q BY <1>0, <1>2, <2>3, <3>1, OthersStay
      <3>2. CASE p = q
        <4>1. SessionOf(q)[1] = Key[q] BY DEF SessionOf
        <4> QED BY <1>0, <2>1, <2>3, <3>2, <4>1, SessionAssumption DEF ReservedStep
      <3> QED BY <3>1, <3>2
    <2> QED BY <1>1, <2>2, <2>3
  <1>3. ASSUME UNCHANGED <<sessions, req>> PROVE ReservedInv' BY <1>0, <1>1, <1>3
  <1>4. ASSUME NEW q \in Requests, Disconnect(q) PROVE ReservedInv' BY <1>3, <1>4 DEF Disconnect
  <1>5. ASSUME NEW q \in Requests, NEW scope \in {"organization", "api_token"}, Compensate(q, scope)
        PROVE  ReservedInv'
    <2>1. UNCHANGED req /\ (sessions' = Refunded(req[q].session) \/ UNCHANGED sessions)
      BY <1>5 DEF Compensate
    <2>2. \A s \in SessionIds : Backed(sessions', s) BY <1>0, <2>1, BackedRefunded
    <2> QED BY <1>0, <1>1, <2>1, <2>2
  <1>6. CASE Crash
    <2>1. UNCHANGED sessions BY <1>6 DEF Crash
    <2>2. \A p \in Requests : req'[p].session = req[p].session
      <3> SUFFICES ASSUME NEW p \in Requests PROVE req'[p].session = req[p].session OBVIOUS
      <3>1. req[p] \in RequestType BY DEF StateType
      <3>2. req'[p] = IF Running(p)
                      THEN [req[p] EXCEPT !.pc = "dead", !.slot = FALSE, !.token = FALSE]
                      ELSE req[p]
        BY <1>6 DEF Crash
      <3> QED BY <3>1, <3>2 DEF RequestType
    <2> QED BY <1>0, <1>1, <2>1, <2>2
  <1>7. CASE UNCHANGED vars BY <1>3, <1>7 DEF vars
  <1> QED BY <1>2, <1>4, <1>5, <1>6, <1>7 DEF Next, RequestStep

-----------------------------------------------------------------------------
(* What was charged on the token                                            *)

ChargedRow(q) ==
  spent[q] # 0 =>
    /\ ~req[q].token
    /\ req[q].pc \in {"refundOrg", "done", "dead"}
    /\ req[q].pc = "refundOrg" => ~req[q].again

\* A step of q that is no settlement of the token charges nothing on it; a refund
\* after a charge is the end of the request.
LEMMA ChargedStep ==
  ASSUME StateType, StageInv, NEW q \in Requests, ChargedRow(q), RequestStep(q)
  PROVE  ChargedRow(q)'
PROOF
  <1> USE DEF At
  <1>1. /\ req \in [Requests -> RequestType] /\ req[q] \in RequestType
        /\ spent \in [Requests -> Nat] /\ RequestInv(q)
    BY DEF StateType, StageInv
  <1>2. \A c : Go(q, c) => req'[q] = c BY <1>1 DEF Go
  <1>3. \A x : Returned(q, x).pc = "done" /\ ~Returned(q, x).token
    BY <1>1 DEF Returned, RequestType
  <1>4. CASE SettleToken(q)
    <2>1. req'[q] = Returned(q, "answered") BY <1>2, <1>4 DEF SettleToken
    <2> QED BY <1>3, <2>1 DEF ChargedRow
  <1>5. CASE SettleTokenFails(q)
    <2>1. req'[q] = [req[q] EXCEPT !.pc = "refundOrg", !.token = FALSE, !.again = FALSE, !.row = "replace"]
      BY <1>2, <1>5 DEF SettleTokenFails
    <2>2. req'[q].pc = "refundOrg" /\ ~req'[q].token /\ ~req'[q].again
      BY <1>1, <2>1 DEF RequestType
    <2> QED BY <2>2 DEF ChargedRow
  <1>6. CASE RefundOrganization(q)
    <2>1. UNCHANGED spent /\ req[q].pc = "refundOrg" BY <1>6 DEF RefundOrganization
    <2>2. CASE spent[q] # 0
      <3>1. Continue(q) /\ ~MayRetry(q)
        BY <1>6, <2>1, <2>2 DEF RefundOrganization, AfterOrganization, ChargedRow, MayRetry
      <3>2. req'[q] = Returned(q, "failed") BY <1>2, <3>1 DEF Continue
      <3> QED BY <1>3, <3>2 DEF ChargedRow
    <2>3. CASE spent[q] = 0 BY <2>1, <2>3 DEF ChargedRow
    <2> QED BY <2>2, <2>3
  <1>7. ASSUME UNCHANGED spent, req[q].pc \notin {"refundOrg", "done", "dead"}
        PROVE  ChargedRow(q)'
    BY <1>7 DEF ChargedRow
  <1>8. CASE Arrive(q) \/ SelectChannel(q) \/ Begin(q) \/ Allow(q) \/ PreConsume(q)
             \/ PreConsumeFails(q) \/ PreBill(q) \/ PreBillFails(q)
    BY <1>7, <1>8
    DEF Arrive, SelectChannel, Begin, Allow, PreConsume, PreConsumeFails, PreBill, PreBillFails
  <1>9. CASE HoldToken(q) \/ HoldTokenFails(q) \/ RecordPending(q) \/ RecordPendingFails(q)
             \/ Dispatch(q) \/ LateDenial(q)
    BY <1>7, <1>9
    DEF HoldToken, HoldTokenFails, RecordPending, RecordPendingFails, Dispatch, LateDenial
  <1>10. CASE \/ \E cost \in Costs, status \in {"success", "error"} : ProviderAnswers(q, cost, status)
              \/ ProviderErrors(q) \/ ProviderRefuses(q) \/ QuoteFails(q)
    BY <1>7, <1>10 DEF ProviderAnswers, ProviderErrors, ProviderRefuses, QuoteFails
  <1>11. CASE RecordUsage(q) \/ RecordUsageFails(q) \/ SettleOrganization(q)
              \/ SettleOrganizationFails(q) \/ RefundToken(q)
    BY <1>7, <1>11
    DEF RecordUsage, RecordUsageFails, SettleOrganization, SettleOrganizationFails, RefundToken
  <1> QED BY <1>4, <1>5, <1>6, <1>8, <1>9, <1>10, <1>11 DEF RequestStep

LEMMA StepCharged ==
  StateType /\ RouterInv /\ ChargedInv /\ [Next]_vars => ChargedInv'
PROOF
  <1> SUFFICES ASSUME StateType, RouterInv, ChargedInv, [Next]_vars, NEW p \in Requests
               PROVE  ChargedRow(p)'
    BY DEF ChargedInv, ChargedRow
  <1>0. StageInv /\ PaidInv /\ ChargedRow(p) BY DEF RouterInv, ChargedInv, ChargedRow
  <1>1. ASSUME req'[p] = req[p], spent'[p] = spent[p] PROVE ChargedRow(p)'
    BY <1>0, <1>1 DEF ChargedRow
  <1>2. ASSUME NEW q \in Requests, RequestStep(q) PROVE ChargedRow(p)'
    <2>1. CASE p = q BY <1>0, <1>2, <2>1, ChargedStep
    <2>2. CASE p # q
      <3>1. PICK c \in RequestType : Good(q, c) BY <1>0, <1>2, StepGood
      <3>2. spent'[p] = spent[p] BY <2>2, <3>1 DEF Good, Step
      <3> QED BY <1>0, <1>1, <1>2, <2>2, <3>2, OthersStay
    <2> QED BY <2>1, <2>2
  <1>3. ASSUME NEW q \in Requests, Disconnect(q) PROVE ChargedRow(p)'
    BY <1>1, <1>3 DEF Disconnect
  <1>4. ASSUME NEW q \in Requests, NEW scope \in {"organization", "api_token"}, Compensate(q, scope)
        PROVE  ChargedRow(p)'
    BY <1>1, <1>4 DEF Compensate
  <1>5. CASE Crash
    <2>1. req[p] \in RequestType /\ UNCHANGED spent BY <1>5 DEF StateType, Crash
    <2>2. req'[p] = IF Running(p)
                    THEN [req[p] EXCEPT !.pc = "dead", !.slot = FALSE, !.token = FALSE]
                    ELSE req[p]
      BY <1>5 DEF Crash
    <2> QED BY <1>0, <2>1, <2>2 DEF ChargedRow, RequestType
  <1>6. CASE UNCHANGED vars BY <1>1, <1>6 DEF vars
  <1> QED BY <1>2, <1>3, <1>4, <1>5, <1>6 DEF Next, RequestStep

-----------------------------------------------------------------------------
(* The token's used quota                                                   *)

LEMMA ShareType ==
  ASSUME StateType, NEW q \in Requests
  PROVE  Share(q) \in Nat /\ spent[q] \in Nat /\ Estimate[q] \in Nat /\ Excess(q) \in Nat
PROOF
  <1>1. spent[q] \in Nat /\ Estimate[q] \in Nat BY MoneyAssumption DEF StateType
  <1>2. spent[q] - Estimate[q] \in Int BY <1>1
  <1> QED BY <1>1, <1>2, Clamped DEF Share, Excess

\* No request's share is more than what is used.
LEMMA ShareCovered ==
  ASSUME StateType, adrift \in Nat, TokenBalance, NEW q \in Requests
  PROVE  Share(q) <= tokenUsed
PROOF
  <1> DEFINE f == [p \in Requests |-> Share(p)]
  <1>1. \A p \in Requests : f[p] \in Nat BY ShareType
  <1>2. f[q] = Share(q) /\ tokenUsed = SumOf(f, Requests) + adrift BY DEF TokenBalance
  <1> HIDE DEF f
  <1>3. f[q] \in Nat /\ f[q] <= SumOf(f, Requests) /\ SumOf(f, Requests) \in Nat
    BY <1>1, RequestsAssumption, SumBounds
  <1> QED BY <1>2, <1>3

\* A step of q changes what is used by the change of q's share and of what is adrift;
\* it takes more only under the limit, or to settle.
TokenStep(q) ==
  /\ adrift' \in Nat
  /\ tokenUsed' = tokenUsed + Share(q)' - Share(q) + adrift' - adrift
  /\ \/ spent'[q] = spent[q] /\ (tokenUsed' <= tokenUsed \/ tokenUsed' <= TokenLimit)
     \/ /\ At(q, "settleToken")
        /\ spent[q] = 0 /\ spent'[q] = req[q].cost
        /\ tokenUsed' = tokenUsed + req[q].cost - Estimate[q]

LEMMA TokenQuiet ==
  ASSUME StateType, adrift \in Nat, NEW q \in Requests,
         UNCHANGED <<tokenUsed, adrift, spent, owed>>, req'[q].token = req[q].token
  PROVE  TokenStep(q)
PROOF
  <1>1. Share(q)' = Share(q) BY DEF Share
  <1>2. Share(q) \in Nat /\ tokenUsed \in Nat BY ShareType DEF StateType
  <1> QED BY <1>1, <1>2 DEF TokenStep

\* What q holds moves to where its owner left it, or is given back.
LEMMA TokenMoves ==
  ASSUME StateType, adrift \in Nat, NEW q \in Requests, req[q].token, ~req'[q].token,
         UNCHANGED spent,
         \/ /\ UNCHANGED <<tokenUsed, owed>> /\ adrift' = adrift + Estimate[q]
         \/ /\ UNCHANGED <<tokenUsed, adrift>>
            /\ <<q, "api_token">> \notin owed /\ <<q, "api_token">> \in owed'
         \/ /\ UNCHANGED <<adrift, owed>> /\ tokenUsed' = tokenUsed - Estimate[q]
  PROVE  TokenStep(q)
PROOF
  <1> DEFINE e == Estimate[q]
             n == spent[q]
             o == IF <<q, "api_token">> \in owed THEN e ELSE 0
             o1 == IF <<q, "api_token">> \in owed' THEN e ELSE 0
  <1>1. e \in Nat /\ n \in Nat /\ tokenUsed \in Nat BY ShareType DEF StateType
  <1>2. o \in Nat /\ o1 \in Nat BY <1>1
  <1>3. Share(q) = e + n + o /\ Share(q)' = 0 + n + o1 BY DEF Share
  <1>4. \/ o1 = o /\ tokenUsed' = tokenUsed /\ adrift' = adrift + e
        \/ o = 0 /\ o1 = e /\ tokenUsed' = tokenUsed /\ adrift' = adrift
        \/ o1 = o /\ tokenUsed' = tokenUsed - e /\ adrift' = adrift
    OBVIOUS
  <1>5. spent'[q] = spent[q] OBVIOUS
  <1> HIDE DEF e, n, o, o1
  <1>6. adrift' \in Nat /\ tokenUsed' <= tokenUsed BY <1>1, <1>4
  <1>7. tokenUsed' = tokenUsed + Share(q)' - Share(q) + adrift' - adrift
    BY <1>1, <1>2, <1>3, <1>4
  <1> QED BY <1>5, <1>6, <1>7 DEF TokenStep

\* The cost takes the place of the hold.
LEMMA TokenSettles ==
  ASSUME StateType, adrift \in Nat, TokenBalance, NEW q \in Requests,
         At(q, "settleToken"), req[q].token, spent[q] = 0,
         ~req'[q].token, spent' = [spent EXCEPT ![q] = req[q].cost],
         tokenUsed' = Charged(q), UNCHANGED <<adrift, owed>>
  PROVE  TokenStep(q)
PROOF
  <1> DEFINE e == Estimate[q]
             c == req[q].cost
             o == IF <<q, "api_token">> \in owed THEN e ELSE 0
  <1>1. e \in Nat /\ c \in Nat /\ tokenUsed \in Nat BY ShareType, CostType DEF StateType
  <1>2. o \in Nat BY <1>1
  <1>3. spent'[q] = c BY DEF StateType
  <1>4. Share(q) = e + 0 + o /\ Share(q)' = 0 + c + o BY <1>3 DEF Share
  <1>5. Share(q) <= tokenUsed BY ShareCovered
  <1>6. tokenUsed' = AtLeastZero(tokenUsed + c - e) BY DEF Charged
  <1> HIDE DEF e, c, o
  <1>7. tokenUsed' = tokenUsed + c - e BY <1>1, <1>2, <1>4, <1>5, <1>6 DEF AtLeastZero
  <1>8. tokenUsed' = tokenUsed + Share(q)' - Share(q) + adrift' - adrift
    BY <1>1, <1>2, <1>4, <1>7
  <1> QED BY <1>3, <1>7, <1>8 DEF TokenStep, c, e

\* Before q's denial nothing is owed for it.
LEMMA NotOwed ==
  ASSUME StageInv, NEW q \in Requests, req[q].pc # "done", NEW scope
  PROVE  <<q, scope>> \notin owed
PROOF
  <1> SUFFICES ASSUME <<q, scope>> \in owed PROVE FALSE OBVIOUS
  <1> DEFINE t == <<q, scope>>
  <1>1. t[1] = q /\ t \in owed OBVIOUS
  <1> HIDE DEF t
  <1> QED BY <1>1 DEF StageInv, RequestInv

LEMMA RequestTokens ==
  ASSUME StateType, StageInv, StageInv', ChargedInv, TokenBalance, adrift \in Nat,
         NEW q \in Requests, RequestStep(q)
  PROVE  TokenStep(q)
PROOF
  <1>1. /\ req \in [Requests -> RequestType] /\ req[q] \in RequestType
        /\ spent \in [Requests -> Nat] /\ RequestInv(q)
    BY DEF StateType, StageInv
  <1>2. \A c : Go(q, c) => req'[q] = c BY <1>1 DEF Go
  <1>3. Estimate[q] \in Nat /\ tokenUsed \in Nat BY ShareType DEF StateType
  <1>4. ASSUME UNCHANGED <<tokenUsed, adrift, spent, owed>>, ~req[q].token, ~req'[q].token
        PROVE  TokenStep(q)
    <2>1. Share(q) \in Nat BY ShareType
    <2>2. Share(q)' = Share(q) BY <1>4 DEF Share
    <2> QED BY <1>3, <1>4, <2>1, <2>2 DEF TokenStep
  <1>6. CASE Arrive(q) \/ SelectChannel(q) \/ Begin(q) \/ Allow(q) \/ PreConsume(q)
             \/ PreConsumeFails(q) \/ PreBill(q) \/ PreBillFails(q)
    <2>1. UNCHANGED <<tokenUsed, adrift, spent, owed>>
      BY <1>6
      DEF Arrive, SelectChannel, Begin, Allow, PreConsume, PreConsumeFails, PreBill, PreBillFails
    <2>2. ~req[q].token
      BY <1>1, <1>6
      DEF RequestInv, At, Arrive, SelectChannel, Begin, Allow, PreConsume, PreConsumeFails,
          PreBill, PreBillFails
    <2>3. ~req'[q].token
      BY <1>1, <1>2, <1>6, <2>2
      DEF Arrive, SelectChannel, Begin, Allow, PreConsume, PreConsumeFails, PreBill, PreBillFails,
          Returned, RequestType
    <2> QED BY <1>4, <2>1, <2>2, <2>3
  <1>7. CASE HoldToken(q)
    <2>1. ~req[q].token BY <1>1, <1>7 DEF HoldToken, RequestInv, At
    <2>2. CASE q \in Tokened
      <3>1. /\ tokenUsed' = tokenUsed + Estimate[q] /\ tokenUsed' <= TokenLimit
            /\ UNCHANGED <<adrift, spent, owed>>
        BY <1>7, <2>2 DEF HoldToken, TokenAffords
      <3>2. req'[q].token BY <1>1, <1>2, <1>7, <2>2 DEF HoldToken, RequestType
      <3> DEFINE o == IF <<q, "api_token">> \in owed THEN Estimate[q] ELSE 0
      <3>3. o \in Nat /\ spent[q] \in Nat BY <1>1, <1>3
      <3>4. Share(q) = 0 + spent[q] + o /\ Share(q)' = Estimate[q] + spent[q] + o
        BY <2>1, <3>1, <3>2 DEF Share
      <3> HIDE DEF o
      <3>5. tokenUsed' = tokenUsed + Share(q)' - Share(q) + adrift' - adrift
        BY <1>3, <3>1, <3>3, <3>4
      <3> QED BY <3>1, <3>5 DEF TokenStep
    <2>3. CASE q \notin Tokened
      <3>1. UNCHANGED <<tokenUsed, adrift, spent, owed>> BY <1>7, <2>3 DEF HoldToken
      <3>2. ~req'[q].token BY <1>1, <1>2, <1>7, <2>1, <2>3 DEF HoldToken, RequestType
      <3> QED BY <1>4, <2>1, <3>1, <3>2
    <2> QED BY <2>2, <2>3
  <1>8. CASE HoldTokenFails(q)
    <2>1. ~req[q].token BY <1>1, <1>8 DEF HoldTokenFails, RequestInv, At
    <2>2. ~req'[q].token /\ UNCHANGED <<spent, owed>>
      BY <1>1, <1>2, <1>8, <2>1 DEF HoldTokenFails, RefundBoth, RequestType
    <2>3. CASE UNCHANGED <<tokenUsed, adrift>> BY <1>4, <2>1, <2>2, <2>3
    <2>4. CASE /\ TokenAffords(q) /\ tokenUsed' = tokenUsed + Estimate[q]
               /\ adrift' = adrift + Estimate[q]
      <3>1. Share(q)' = Share(q) /\ Share(q) \in Nat BY <2>1, <2>2, ShareType DEF Share
      <3>2. tokenUsed' <= TokenLimit BY <2>4 DEF TokenAffords
      <3>3. tokenUsed' = tokenUsed + Share(q)' - Share(q) + adrift' - adrift
        BY <1>3, <2>4, <3>1
      <3> QED BY <1>3, <2>2, <2>4, <3>2, <3>3 DEF TokenStep
    <2> QED BY <1>8, <2>3, <2>4 DEF HoldTokenFails
  <1>9. CASE RecordPending(q) \/ RecordPendingFails(q) \/ Dispatch(q) \/ RecordUsage(q)
             \/ RecordUsageFails(q) \/ SettleOrganization(q) \/ SettleOrganizationFails(q)
    <2>1. UNCHANGED <<tokenUsed, adrift, spent, owed>>
      BY <1>9
      DEF RecordPending, RecordPendingFails, Dispatch, RecordUsage, RecordUsageFails,
          SettleOrganization, SettleOrganizationFails
    <2>2. req'[q].token = req[q].token
      BY <1>1, <1>2, <1>9
      DEF RecordPending, RecordPendingFails, Dispatch, RecordUsage, RecordUsageFails, Unrecorded,
          SettleOrganization, SettleOrganizationFails, RefundBoth, RequestType
    <2> QED BY <2>1, <2>2, TokenQuiet
  <1>10. CASE \/ \E cost \in Costs, status \in {"success", "error"} : ProviderAnswers(q, cost, status)
              \/ ProviderErrors(q) \/ ProviderRefuses(q) \/ QuoteFails(q)
    <2>1. UNCHANGED <<tokenUsed, adrift, spent, owed>>
      BY <1>10 DEF ProviderAnswers, ProviderErrors, ProviderRefuses, QuoteFails
    <2>2. req'[q].token = req[q].token
      BY <1>1, <1>2, <1>10
      DEF ProviderAnswers, ProviderErrors, ProviderRefuses, QuoteFails, RefundBoth, RequestType
    <2> QED BY <2>1, <2>2, TokenQuiet
  <1>11. CASE LateDenial(q)
    <2>1. ~req'[q].token /\ UNCHANGED <<tokenUsed, spent>>
      BY <1>1, <1>2, <1>11 DEF LateDenial, Returned, RequestType
    <2>2. <<q, "api_token">> \notin owed BY <1>11, NotOwed DEF LateDenial, At
    <2>3. <<q, "organization">> # <<q, "api_token">> OBVIOUS
    <2>4. \/ /\ UNCHANGED adrift
             /\ owed' = owed \cup {<<q, "organization">>}
                             \cup IF req[q].token THEN {<<q, "api_token">>} ELSE {}
          \/ UNCHANGED owed /\ adrift' = IF req[q].token THEN adrift + Estimate[q] ELSE adrift
      BY <1>11 DEF LateDenial
    <2>5. CASE req[q].token BY <2>1, <2>2, <2>4, <2>5, TokenMoves
    <2>6. CASE ~req[q].token
      <3>1. UNCHANGED adrift /\ <<q, "api_token">> \notin owed' BY <2>2, <2>3, <2>4, <2>6
      <3>2. Share(q)' = Share(q) /\ Share(q) \in Nat BY <2>1, <2>2, <2>6, <3>1, ShareType DEF Share
      <3> QED BY <1>3, <2>1, <3>1, <3>2 DEF TokenStep
    <2> QED BY <2>5, <2>6
  <1>12. CASE SettleToken(q)
    <2>1. ~req'[q].token /\ At(q, "settleToken") /\ UNCHANGED <<adrift, owed>>
      BY <1>1, <1>2, <1>12 DEF SettleToken, Returned, RequestType
    <2>2. CASE req[q].token
      <3>1. spent[q] = 0 BY <2>2 DEF ChargedInv
      <3>2. tokenUsed' = Charged(q) /\ spent' = [spent EXCEPT ![q] = req[q].cost]
        BY <1>12, <2>2 DEF SettleToken
      <3> QED BY <2>1, <2>2, <3>1, <3>2, TokenSettles
    <2>3. CASE ~req[q].token
      <3>1. UNCHANGED <<tokenUsed, spent>> BY <1>12, <2>3 DEF SettleToken
      <3> QED BY <1>4, <2>1, <2>3, <3>1
    <2> QED BY <2>2, <2>3
  <1>13. CASE SettleTokenFails(q)
    <2>1. ~req'[q].token /\ req[q].token /\ At(q, "settleToken") /\ UNCHANGED owed
      BY <1>1, <1>2, <1>13 DEF SettleTokenFails, RequestType
    <2>2. spent[q] = 0 BY <2>1 DEF ChargedInv
    <2>3. \/ adrift' = adrift + Estimate[q] /\ UNCHANGED <<tokenUsed, spent>>
          \/ /\ tokenUsed' = Charged(q) /\ spent' = [spent EXCEPT ![q] = req[q].cost]
             /\ UNCHANGED adrift
      BY <1>13 DEF SettleTokenFails
    <2> QED BY <2>1, <2>2, <2>3, TokenMoves, TokenSettles
  <1>14. CASE RefundOrganization(q)
    <2>1. UNCHANGED <<tokenUsed, adrift, spent, owed>> BY <1>14 DEF RefundOrganization
    <2>2. req'[q].token = req[q].token
      BY <1>1, <1>2, <1>14
      DEF RefundOrganization, AfterOrganization, Continue, Returned, RequestType
    <2> QED BY <2>1, <2>2, TokenQuiet
  <1>15. CASE RefundToken(q)
    <2>1. ~req'[q].token /\ UNCHANGED <<spent, owed>>
      BY <1>1, <1>2, <1>15 DEF RefundToken, Continue, Returned, RequestType
    <2>2. CASE ~req[q].token
      <3>1. UNCHANGED <<tokenUsed, adrift>> BY <1>15, <2>2 DEF RefundToken
      <3> QED BY <1>4, <2>1, <2>2, <3>1
    <2>3. CASE req[q].token
      <3>1. Estimate[q] <= tokenUsed
        <4>1. Share(q) <= tokenUsed /\ spent[q] \in Nat BY <1>1, ShareCovered
        <4>2. Share(q) = Estimate[q] + spent[q] \/ Share(q) = Estimate[q] + spent[q] + Estimate[q]
          BY <1>1, <1>3, <2>3 DEF Share
        <4> QED BY <1>3, <4>1, <4>2
      <3>2. AtLeastZero(tokenUsed - Estimate[q]) = tokenUsed - Estimate[q]
        BY <1>3, <3>1 DEF AtLeastZero
      <3>3. \/ tokenUsed' = tokenUsed - Estimate[q] /\ UNCHANGED adrift
            \/ adrift' = adrift + Estimate[q] /\ UNCHANGED tokenUsed
        BY <1>15, <2>3, <3>2 DEF RefundToken
      <3> QED BY <2>1, <2>3, <3>3, TokenMoves
    <2> QED BY <2>2, <2>3
  <1> QED BY <1>6, <1>7, <1>8, <1>9, <1>10, <1>11, <1>12, <1>13, <1>14, <1>15 DEF RequestStep

-----------------------------------------------------------------------------
(* The sums                                                                 *)

LEMMA SharesStay ==
  ASSUME \A p \in Requests : Share(p)' = Share(p), UNCHANGED <<tokenUsed, adrift>>, TokenBalance
  PROVE  TokenBalance'
PROOF
  <1> DEFINE old == [p \in Requests |-> Share(p)]
             new == [p \in Requests |-> Share(p)']
  <1>1. \A p \in Requests : old[p] = new[p] OBVIOUS
  <1>2. tokenUsed = SumOf(old, Requests) + adrift BY DEF TokenBalance
  <1>3. TokenBalance' <=> tokenUsed' = SumOf(new, Requests) + adrift' BY DEF TokenBalance
  <1> HIDE DEF old, new
  <1> QED BY <1>1, <1>2, <1>3, RequestsAssumption, SumAgrees

LEMMA ShareChanges ==
  ASSUME StateType, StateType', adrift \in Nat, TokenBalance, NEW q \in Requests,
         adrift' \in Nat,
         tokenUsed' = tokenUsed + Share(q)' - Share(q) + adrift' - adrift,
         \A p \in Requests : p # q => Share(p)' = Share(p)
  PROVE  TokenBalance'
PROOF
  <1> DEFINE old == [p \in Requests |-> Share(p)]
             new == [p \in Requests |-> Share(p)']
  <1>1. \A p \in Requests : old[p] \in Int /\ new[p] \in Int
    <2>1. \A p \in Requests : Share(p) \in Nat BY ShareType
    <2>2. \A p \in Requests : Share(p)' \in Nat
      <3> SUFFICES ASSUME NEW p \in Requests PROVE Share(p)' \in Nat OBVIOUS
      <3>1. spent'[p] \in Nat /\ Estimate[p] \in Nat BY MoneyAssumption DEF StateType
      <3> QED BY <3>1 DEF Share
    <2> QED BY <2>1, <2>2
  <1>2. \A p \in Requests \ {q} : old[p] = new[p] OBVIOUS
  <1>3. old[q] = Share(q) /\ new[q] = Share(q)' OBVIOUS
  <1>4. tokenUsed = SumOf(old, Requests) + adrift BY DEF TokenBalance
  <1>5. TokenBalance' <=> tokenUsed' = SumOf(new, Requests) + adrift' BY DEF TokenBalance
  <1> HIDE DEF old, new
  <1>6. SumOf(new, Requests) = SumOf(old, Requests) - old[q] + new[q]
    BY <1>1, <1>2, RequestsAssumption, SumChange
  <1>7. SumOf(old, Requests) \in Int /\ old[q] \in Int /\ new[q] \in Int
    BY <1>1, RequestsAssumption, SumType
  <1> QED BY <1>3, <1>4, <1>5, <1>6, <1>7

\* A crash takes what running requests held on the token.
LEMMA CrashBalance ==
  ASSUME StateType, StateType', adrift \in Nat, TokenBalance, Crash
  PROVE  TokenBalance' /\ adrift' \in Nat
PROOF
  <1> DEFINE old == [p \in Requests |-> Share(p)]
             new == [p \in Requests |-> Share(p)']
             lost == [p \in Requests |-> IF p \in {r \in Requests : Running(r)} /\ req[p].token
                                         THEN Estimate[p] ELSE 0]
  <1>1. \A p \in Requests : lost[p] \in Nat /\ new[p] \in Int /\ old[p] = new[p] + lost[p]
    <2> SUFFICES ASSUME NEW p \in Requests
                 PROVE  lost[p] \in Nat /\ Share(p)' \in Int /\ Share(p) = Share(p)' + lost[p]
      OBVIOUS
    <2>1. req[p] \in RequestType /\ spent[p] \in Nat /\ Estimate[p] \in Nat
      BY ShareType DEF StateType
    <2>2. UNCHANGED <<spent, owed>> BY DEF Crash
    <2>3. req'[p] = IF Running(p)
                    THEN [req[p] EXCEPT !.pc = "dead", !.slot = FALSE, !.token = FALSE]
                    ELSE req[p]
      BY DEF Crash
    <2>4. lost[p] = IF Running(p) /\ req[p].token THEN Estimate[p] ELSE 0 OBVIOUS
    <2>5. req[p].token \in BOOLEAN BY <2>1 DEF RequestType
    <2>51. Running(p) => req'[p].token = FALSE BY <2>1, <2>3 DEF RequestType
    <2>52. ~Running(p) => req'[p].token = req[p].token BY <2>3
    <2> DEFINE o == IF <<p, "api_token">> \in owed THEN Estimate[p] ELSE 0
    <2>6. o \in Nat BY <2>1
    <2>7. /\ Share(p) = (IF req[p].token THEN Estimate[p] ELSE 0) + spent[p] + o
          /\ Share(p)' = (IF req'[p].token THEN Estimate[p] ELSE 0) + spent[p] + o
      BY <2>2 DEF Share
    <2> HIDE DEF o, lost
    <2>8. CASE Running(p) /\ req[p].token
      <3>1. lost[p] = Estimate[p] BY <2>4, <2>8
      <3>2. Share(p) = Estimate[p] + spent[p] + o BY <2>7, <2>8
      <3>3. Share(p)' = 0 + spent[p] + o BY <2>51, <2>7, <2>8
      <3> QED BY <3>1, <3>2, <3>3, <2>1, <2>6
    <2>9. CASE ~(Running(p) /\ req[p].token)
      <3>1. lost[p] = 0 BY <2>4, <2>9
      <3>2. ~Running(p) => Share(p)' = Share(p) BY <2>52, <2>7
      <3>3. Running(p) => Share(p)' = Share(p) BY <2>51, <2>7, <2>9
      <3>4. Share(p)' \in Int
        <4>1. CASE req'[p].token BY <4>1, <2>1, <2>6, <2>7
        <4>2. CASE ~req'[p].token BY <4>2, <2>1, <2>6, <2>7
        <4> QED BY <4>1, <4>2
      <3>5. Share(p)' = Share(p) BY <3>2, <3>3
      <3> QED BY <3>1, <3>4, <3>5
    <2> QED BY <2>8, <2>9
  <1>2. tokenUsed = SumOf(old, Requests) + adrift BY DEF TokenBalance
  <1>3. TokenBalance' <=> tokenUsed' = SumOf(new, Requests) + adrift' BY DEF TokenBalance
  <1>4. tokenUsed' = tokenUsed /\ adrift' = adrift + SumOf(lost, Requests) BY DEF Crash
  <1> HIDE DEF old, new, lost
  <1>5. SumOf(lost, Requests) \in Nat BY <1>1, RequestsAssumption, SumBounds
  <1>6. SumOf(new, Requests) \in Int BY <1>1, RequestsAssumption, SumType
  <1>7. \A p \in Requests : lost[p] \in Int BY <1>1
  <1>8. SumOf(old, Requests) = SumOf(new, Requests) + SumOf(lost, Requests)
    BY <1>1, <1>7, RequestsAssumption, SumAdd
  <1> QED BY <1>2, <1>3, <1>4, <1>5, <1>6, <1>8

\* What answers cost beyond their holds.
Excesses == SumOf([q \in Requests |-> Excess(q)], Requests)

LEMMA ExcessesType == StateType => Excesses \in Nat
PROOF
  <1> SUFFICES ASSUME StateType PROVE Excesses \in Nat OBVIOUS
  <1> DEFINE f == [q \in Requests |-> Excess(q)]
  <1>1. \A q \in Requests : f[q] \in Nat BY ShareType
  <1>2. Excesses = SumOf(f, Requests) BY DEF Excesses
  <1> HIDE DEF f
  <1> QED BY <1>1, <1>2, RequestsAssumption, SumBounds

LEMMA ExcessesStay ==
  ASSUME \A p \in Requests : spent'[p] = spent[p]
  PROVE  Excesses' = Excesses
PROOF
  <1> DEFINE old == [p \in Requests |-> Excess(p)]
             new == [p \in Requests |-> Excess(p)']
  <1>1. \A p \in Requests : old[p] = new[p] BY DEF Excess
  <1>2. Excesses = SumOf(old, Requests) /\ Excesses' = SumOf(new, Requests) BY DEF Excesses
  <1> HIDE DEF old, new
  <1> QED BY <1>1, <1>2, RequestsAssumption, SumAgrees

\* A settlement above the hold is an excess.
LEMMA ExcessesGrow ==
  ASSUME StateType, NEW q \in Requests, spent[q] = 0, spent'[q] \in Nat,
         \A p \in Requests : p # q => spent'[p] = spent[p]
  PROVE  Excesses' >= Excesses + spent'[q] - Estimate[q] /\ Excesses' >= Excesses
PROOF
  <1> DEFINE old == [p \in Requests |-> Excess(p)]
             new == [p \in Requests |-> Excess(p)']
             e == Estimate[q]
             c == spent'[q]
  <1>1. e \in Nat /\ c \in Nat BY ShareType
  <1>2. old[q] = 0
    <2>1. 0 - e <= 0 /\ 0 - e \in Int BY <1>1
    <2>2. Excess(q) = AtLeastZero(0 - e) BY DEF Excess
    <2> HIDE DEF e
    <2>3. Excess(q) = 0 BY <2>1, <2>2 DEF AtLeastZero
    <2> QED BY <2>3
  <1>3. new[q] \in Nat /\ new[q] >= c - e
    <2>1. Excess(q)' = AtLeastZero(c - e) BY DEF Excess
    <2> HIDE DEF c, e
    <2>2. AtLeastZero(c - e) \in Nat /\ AtLeastZero(c - e) >= c - e BY <1>1 DEF AtLeastZero
    <2> QED BY <2>1, <2>2
  <1>4. \A p \in Requests \ {q} : old[p] = new[p] BY DEF Excess
  <1>5. \A p \in Requests : old[p] \in Nat BY ShareType
  <1>6. Excesses = SumOf(old, Requests) /\ Excesses' = SumOf(new, Requests) BY DEF Excesses
  <1> HIDE DEF old, new, c, e
  <1>7. \A p \in Requests : old[p] \in Int /\ new[p] \in Int
    <2> SUFFICES ASSUME NEW p \in Requests PROVE old[p] \in Int /\ new[p] \in Int OBVIOUS
    <2>1. CASE p = q BY <1>3, <1>5, <2>1
    <2>2. CASE p # q BY <1>4, <1>5, <2>2
    <2> QED BY <2>1, <2>2
  <1>8. SumOf(new, Requests) = SumOf(old, Requests) - old[q] + new[q]
    BY <1>4, <1>7, RequestsAssumption, SumChange
  <1>9. SumOf(old, Requests) \in Int BY <1>7, RequestsAssumption, SumType
  <1>10. Excesses' >= Excesses + c - e /\ Excesses' >= Excesses
    BY <1>1, <1>2, <1>3, <1>6, <1>8, <1>9
  <1> QED BY <1>10 DEF c, e

\* An answer that costs more than its hold was settled in a session that holds what
\* another request of the key expected to cost.
LEMMA SettledWithin ==
  ASSUME StateType, PaidInv, ReservedInv, NEW q \in Requests, At(q, "settleToken"),
         req[q].cost > Estimate[q]
  PROVE  \E r \in Requests \ {q} : Key[r] = Key[q] /\ req[q].cost <= Estimate[r]
PROOF
  <1> DEFINE s == req[q].session
  <1>1. s \in SessionIds /\ sessions[s].status = "settled" /\ sessions[s].cost = req[q].cost
    BY DEF PaidInv, Paid
  <1>2. sessions[s].cost <= sessions[s].reserved /\ s[1] = Key[q] BY <1>1 DEF ReservedInv
  <1>3. PICK r \in Requests : Key[r] = s[1] /\ sessions[s].reserved = Estimate[r]
    BY <1>1 DEF ReservedInv
  <1>4. req[q].cost <= Estimate[r] BY <1>1, <1>2, <1>3
  <1>5. req[q].cost \in Nat /\ Estimate[q] \in Nat BY CostType, ShareType
  <1>6. r # q BY <1>4, <1>5
  <1> QED BY <1>2, <1>3, <1>4, <1>6

WithinParts ==
  /\ tokenUsed <= TokenLimit + Excesses
  /\ \A q \in Requests : Excess(q) > 0 =>
       \E r \in Requests \ {q} : Key[r] = Key[q] /\ spent[q] <= Estimate[r]

LEMMA WithinStays ==
  ASSUME StateType, StateType', WithinLimit, \A p \in Requests : spent'[p] = spent[p],
         tokenUsed' <= tokenUsed \/ tokenUsed' <= TokenLimit
  PROVE  WithinLimit'
PROOF
  <1>1. WithinParts BY DEF WithinLimit, WithinParts, Excesses
  <1>2. tokenUsed \in Nat /\ tokenUsed' \in Nat /\ TokenLimit \in Nat /\ Excesses \in Nat
    BY MoneyAssumption, ExcessesType DEF StateType
  <1>3. Excesses' = Excesses BY ExcessesStay
  <1>4. tokenUsed' <= TokenLimit + Excesses' BY <1>1, <1>2, <1>3 DEF WithinParts
  <1>5. \A p \in Requests : Excess(p)' = Excess(p) BY DEF Excess
  <1>6. WithinParts' BY <1>1, <1>4, <1>5 DEF WithinParts
  <1> QED BY <1>6 DEF WithinLimit, WithinParts, Excesses

LEMMA WithinSettles ==
  ASSUME StateType, StateType', PaidInv, ReservedInv, WithinLimit, NEW q \in Requests,
         At(q, "settleToken"), spent[q] = 0, spent'[q] = req[q].cost,
         \A p \in Requests : p # q => spent'[p] = spent[p],
         tokenUsed' = tokenUsed + req[q].cost - Estimate[q]
  PROVE  WithinLimit'
PROOF
  <1> DEFINE c == req[q].cost
             e == Estimate[q]
  <1>1. WithinParts BY DEF WithinLimit, WithinParts, Excesses
  <1>2. /\ tokenUsed \in Nat /\ tokenUsed' \in Nat /\ TokenLimit \in Nat /\ Excesses \in Nat
        /\ c \in Nat /\ e \in Nat
    BY MoneyAssumption, ExcessesType, CostType, ShareType DEF StateType
  <1>3. Excesses' >= Excesses + c - e BY <1>2, ExcessesGrow
  <1>4. Excesses' \in Nat
    <2>1. \A p \in Requests : Excess(p)' \in Nat
      <3> SUFFICES ASSUME NEW p \in Requests PROVE Excess(p)' \in Nat OBVIOUS
      <3>1. spent'[p] \in Nat /\ Estimate[p] \in Nat BY MoneyAssumption DEF StateType
      <3>2. spent'[p] - Estimate[p] \in Int BY <3>1
      <3> QED BY <3>2, Clamped DEF Excess
    <2> DEFINE f == [p \in Requests |-> Excess(p)']
    <2>2. \A p \in Requests : f[p] \in Nat BY <2>1
    <2>3. Excesses' = SumOf(f, Requests) BY DEF Excesses
    <2> HIDE DEF f
    <2> QED BY <2>2, <2>3, RequestsAssumption, SumBounds
  <1>5. tokenUsed' <= TokenLimit + Excesses'
    <2>1. tokenUsed <= TokenLimit + Excesses /\ tokenUsed' = tokenUsed + c - e
      BY <1>1 DEF WithinParts
    <2> HIDE DEF c, e
    <2> QED BY <1>2, <1>3, <1>4, <2>1
  <1>6. ASSUME NEW p \in Requests, Excess(p)' > 0
        PROVE  \E r \in Requests \ {p} : Key[r] = Key[p] /\ spent'[p] <= Estimate[r]
    <2>1. CASE p # q
      <3>1. Excess(p) > 0 BY <1>6, <2>1 DEF Excess
      <3> QED BY <1>1, <2>1, <3>1 DEF WithinParts
    <2>2. CASE p = q
      <3>1. Excess(q)' = AtLeastZero(c - e) BY DEF Excess
      <3> HIDE DEF c, e
      <3>2. c > e BY <1>2, <1>6, <2>2, <3>1 DEF AtLeastZero
      <3> USE DEF c, e
      <3> QED BY <2>2, <3>2, SettledWithin
    <2> QED BY <2>1, <2>2
  <1>7. WithinParts' BY <1>5, <1>6 DEF WithinParts
  <1> QED BY <1>7 DEF WithinLimit, WithinParts, Excesses

-----------------------------------------------------------------------------
(* The theorems about the token                                             *)

BalanceInv == adrift \in Nat /\ TokenInv

LEMMA InitBalance == Init => BalanceInv
PROOF
  <1> SUFFICES ASSUME Init PROVE BalanceInv OBVIOUS
  <1>1. /\ \A q \in Requests : /\ spent[q] = 0 /\ ~req[q].token /\ req[q].session = NoSession
        /\ \A s \in SessionIds : sessions[s].status = "absent"
        /\ owed = {} /\ adrift = 0 /\ tokenUsed = 0
    BY DEF Init, NewRequest, AbsentSession
  <1>2. ReservedInv /\ ChargedInv BY <1>1, SessionAssumption DEF ReservedInv, ChargedInv
  <1> DEFINE none == [q \in Requests |-> 0]
  <1>3. SumOf(none, Requests) = 0 BY RequestsAssumption, SumZero
  <1>4. TokenBalance
    <2> DEFINE f == [q \in Requests |-> Share(q)]
    <2>1. \A q \in Requests : f[q] = none[q] BY <1>1 DEF Share
    <2>2. TokenBalance <=> tokenUsed = SumOf(f, Requests) + adrift BY DEF TokenBalance
    <2> HIDE DEF f, none
    <2> QED BY <1>1, <1>3, <2>1, <2>2, RequestsAssumption, SumAgrees
  <1>5. \A q \in Requests : Excess(q) = 0
    <2> SUFFICES ASSUME NEW q \in Requests PROVE Excess(q) = 0 OBVIOUS
    <2>1. Estimate[q] \in Nat /\ Excess(q) = AtLeastZero(0 - Estimate[q])
      BY <1>1, MoneyAssumption DEF Excess
    <2> QED BY <2>1 DEF AtLeastZero
  <1>6. Excesses = 0
    <2> DEFINE f == [q \in Requests |-> Excess(q)]
    <2>1. \A q \in Requests : f[q] = none[q] BY <1>5
    <2>2. Excesses = SumOf(f, Requests) BY DEF Excesses
    <2> HIDE DEF f, none
    <2> QED BY <1>3, <2>1, <2>2, RequestsAssumption, SumAgrees
  <1>7. WithinParts BY <1>1, <1>5, <1>6, MoneyAssumption DEF WithinParts
  <1>8. WithinLimit BY <1>7 DEF WithinLimit, WithinParts, Excesses
  <1> QED BY <1>1, <1>2, <1>4, <1>8 DEF BalanceInv, TokenInv

LEMMA OthersShare ==
  ASSUME StateType, StageInv, PaidInv, NEW q \in Requests, RequestStep(q),
         NEW p \in Requests, p # q
  PROVE  Share(p)' = Share(p) /\ spent'[p] = spent[p]
PROOF
  <1>1. PICK c \in RequestType : Good(q, c) BY StepGood
  <1>2. spent'[p] = spent[p] /\ owed \subseteq owed' /\ \A t \in owed' : t \in owed \/ t[1] = q
    BY <1>1 DEF Good, Step
  <1>3. <<p, "api_token">> \in owed' <=> <<p, "api_token">> \in owed
    <2> DEFINE t == <<p, "api_token">>
    <2>1. t[1] # q OBVIOUS
    <2> HIDE DEF t
    <2>2. t \in owed' <=> t \in owed BY <1>2, <2>1
    <2> QED BY <2>2 DEF t
  <1>4. req'[p] = req[p] BY OthersStay
  <1> QED BY <1>2, <1>3, <1>4 DEF Share

LEMMA CompensatedShare ==
  ASSUME StateType, StateType', adrift \in Nat, TokenBalance, WithinLimit,
         NEW q \in Requests, NEW scope \in {"organization", "api_token"}, Compensate(q, scope)
  PROVE  adrift' \in Nat /\ TokenBalance' /\ WithinLimit'
PROOF
  <1>1. UNCHANGED <<req, spent, adrift>> /\ <<q, scope>> \in owed /\ owed' = owed \ {<<q, scope>>}
    BY DEF Compensate
  <1>2. \A p \in Requests : \A x : <<p, x>> \in owed' <=> <<p, x>> \in owed /\ (p # q \/ x # scope)
    BY <1>1
  <1>3. \A p \in Requests : p # q => Share(p)' = Share(p) BY <1>1, <1>2 DEF Share
  <1>4. /\ Share(q) \in Nat /\ Estimate[q] \in Nat /\ spent[q] \in Nat /\ tokenUsed \in Nat
        /\ Share(q) <= tokenUsed
    BY ShareType, ShareCovered DEF StateType
  <1>5. CASE scope = "organization"
    <2>1. UNCHANGED tokenUsed BY <1>5 DEF Compensate
    <2>2. Share(q)' = Share(q) BY <1>1, <1>2, <1>5 DEF Share
    <2>3. TokenBalance' BY <1>1, <1>3, <2>1, <2>2, SharesStay
    <2> QED BY <1>1, <1>4, <2>1, <2>3, WithinStays
  <1>6. CASE scope = "api_token"
    <2> DEFINE h == IF req[q].token THEN Estimate[q] ELSE 0
    <2>1. h \in Nat BY <1>4
    <2>2. Share(q) = h + spent[q] + Estimate[q] BY <1>1, <1>6 DEF Share
    <2>3. Share(q)' = h + spent[q] + 0 BY <1>1, <1>2, <1>6 DEF Share
    <2>4. tokenUsed' = AtLeastZero(tokenUsed - Estimate[q]) BY <1>6 DEF Compensate
    <2> HIDE DEF h
    <2>5. tokenUsed' = tokenUsed - Estimate[q] BY <1>4, <2>1, <2>2, <2>4 DEF AtLeastZero
    <2>6. tokenUsed' = tokenUsed + Share(q)' - Share(q) + adrift' - adrift
      BY <1>1, <1>4, <2>1, <2>2, <2>3, <2>5
    <2>7. TokenBalance' BY <1>1, <1>3, <2>6, ShareChanges
    <2>8. tokenUsed' <= tokenUsed BY <1>4, <2>5
    <2> QED BY <1>1, <2>7, <2>8, WithinStays
  <1> QED BY <1>5, <1>6

LEMMA StepBalance ==
  StateType /\ StateType' /\ RouterInv /\ RouterInv' /\ BalanceInv /\ [Next]_vars => BalanceInv'
PROOF
  <1> SUFFICES ASSUME StateType, StateType', RouterInv, RouterInv', BalanceInv, [Next]_vars
               PROVE  BalanceInv'
    OBVIOUS
  <1>0. /\ StageInv /\ StageInv' /\ PaidInv
        /\ adrift \in Nat /\ ReservedInv /\ ChargedInv /\ TokenBalance /\ WithinLimit
    BY DEF RouterInv, BalanceInv, TokenInv
  <1>1. ReservedInv' /\ ChargedInv' BY <1>0, StepReserved, StepCharged
  <1> SUFFICES adrift' \in Nat /\ TokenBalance' /\ WithinLimit' BY <1>1 DEF BalanceInv, TokenInv
  <1>2. tokenUsed \in Nat /\ spent \in [Requests -> Nat] BY DEF StateType
  <1>3. ASSUME UNCHANGED <<req, spent, owed, tokenUsed, adrift>>
        PROVE  adrift' \in Nat /\ TokenBalance' /\ WithinLimit'
    <2>1. \A p \in Requests : Share(p)' = Share(p) BY <1>3 DEF Share
    <2>2. TokenBalance' BY <1>0, <1>3, <2>1, SharesStay
    <2>3. tokenUsed' <= tokenUsed BY <1>2, <1>3
    <2> QED BY <1>0, <1>3, <2>2, <2>3, WithinStays
  <1>4. ASSUME NEW q \in Requests, RequestStep(q)
        PROVE  adrift' \in Nat /\ TokenBalance' /\ WithinLimit'
    <2>1. TokenStep(q) BY <1>0, <1>4, RequestTokens
    <2>2. \A p \in Requests : p # q => Share(p)' = Share(p) /\ spent'[p] = spent[p]
      BY <1>0, <1>4, OthersShare
    <2>3. TokenBalance' BY <1>0, <2>1, <2>2, ShareChanges DEF TokenStep
    <2>4. CASE spent'[q] = spent[q] /\ (tokenUsed' <= tokenUsed \/ tokenUsed' <= TokenLimit)
      <3>1. \A p \in Requests : spent'[p] = spent[p] BY <2>2, <2>4
      <3> QED BY <1>0, <2>1, <2>3, <2>4, <3>1, WithinStays DEF TokenStep
    <2>5. CASE /\ At(q, "settleToken")
               /\ spent[q] = 0 /\ spent'[q] = req[q].cost
               /\ tokenUsed' = tokenUsed + req[q].cost - Estimate[q]
      BY <1>0, <2>1, <2>2, <2>3, <2>5, WithinSettles DEF TokenStep
    <2> QED BY <2>1, <2>4, <2>5 DEF TokenStep
  <1>5. ASSUME NEW q \in Requests, Disconnect(q)
        PROVE  adrift' \in Nat /\ TokenBalance' /\ WithinLimit'
    BY <1>3, <1>5 DEF Disconnect
  <1>6. ASSUME NEW q \in Requests, NEW scope \in {"organization", "api_token"}, Compensate(q, scope)
        PROVE  adrift' \in Nat /\ TokenBalance' /\ WithinLimit'
    BY <1>0, <1>6, CompensatedShare
  <1>7. CASE Crash
    <2>1. TokenBalance' /\ adrift' \in Nat BY <1>0, <1>7, CrashBalance
    <2>2. UNCHANGED <<spent, tokenUsed>> BY <1>7 DEF Crash
    <2> QED BY <1>0, <1>2, <2>1, <2>2, WithinStays
  <1>8. CASE UNCHANGED vars BY <1>3, <1>8 DEF vars
  <1> QED BY <1>4, <1>5, <1>6, <1>7, <1>8 DEF Next, RequestStep

\* With RouterInv, what is reserved and charged where, and what the token's used
\* quota is made of: the inductive invariant of the token.
THEOREM TokenInvariant == Spec => [](adrift \in Nat /\ TokenInv)
PROOF
  <1>1. Spec => []BalanceInv
    BY InitBalance, StepBalance, TypeCorrect, RouterInvariant, PTL DEF Spec
  <1>2. BalanceInv => adrift \in Nat /\ TokenInv BY DEF BalanceInv
  <1> QED BY <1>1, <1>2, PTL

\* Every variable has its type, the history adrift among them.
THEOREM AllTypesCorrect == Spec => []TypeOK
PROOF
  <1>1. StateType /\ adrift \in Nat /\ TokenInv => TypeOK BY DEF TypeOK
  <1> QED BY <1>1, TypeCorrect, TokenInvariant, PTL

\* On every path, retries, errors and crashes included, the token's used quota is
\* accounted for, and no refund of it clamps at zero.
THEOREM TokenAccounted == Spec => []TokenBalance
PROOF
  <1>1. adrift \in Nat /\ TokenInv => TokenBalance BY DEF TokenInv
  <1> QED BY <1>1, TokenInvariant, PTL

\* The token goes over its limit only by what answers cost beyond their holds under
\* keys that other requests reserved more for.
THEOREM LimitKept == Spec => []WithinLimit
PROOF
  <1>1. adrift \in Nat /\ TokenInv => WithinLimit BY DEF TokenInv
  <1> QED BY <1>1, TokenInvariant, PTL

-----------------------------------------------------------------------------
(* BatchPolling: what the steps do                                          *)

\* A mark writes the row of its batch, if the worker still holds it.
LEMMA MarkEffect ==
  ASSUME PollingTypeOK, NEW w \in Workers, NEW b \in Batches, NEW status \in Final \cup {"failed"},
         Mark(w, b, status)
  PROVE  /\ \A x \in Batches : x # b => job'[x] = job[x]
         /\ \/ job'[b] = job[b]
            \/ /\ job[b].lockedBy = w
               /\ job'[b] = [job[b] EXCEPT !.status = status, !.lockedBy = NoWorker,
                                           !.due = FALSE]
         /\ job' \in [Batches -> JobType]
         /\ proc' = [proc EXCEPT ![w] = [@ EXCEPT !.pc = "idle", !.batch = {}]]
         /\ proc' \in [Workers -> ProcType]
         /\ UNCHANGED <<provider, usageStatus, corrected>>
PROOF
  <1>1. proc' \in [Workers -> ProcType] BY ZenonT(30) DEF Mark, PollingTypeOK, ProcType
  <1>2. CASE UNCHANGED job BY <1>1, <1>2 DEF Mark, PollingTypeOK
  <1>3. CASE /\ Matches(b, w)
             /\ job' = [job EXCEPT ![b] = [@ EXCEPT !.status = status, !.lockedBy = NoWorker,
                                                    !.due = FALSE]]
    <2>1. job[b] \in JobType BY DEF PollingTypeOK
    <2>2. [job[b] EXCEPT !.status = status, !.lockedBy = NoWorker, !.due = FALSE]
            \in JobType
      BY <2>1 DEF JobType, Final
    <2> QED BY <1>1, <1>3, <2>2 DEF Mark, PollingTypeOK, Matches
  <1> QED BY <1>2, <1>3 DEF Mark

\* Every mark is one of the three calls, on a copy the worker works on.
LEMMA MarkSteps ==
  ASSUME NEW w \in Workers, MarkEnded(w) \/ RecordFailedJob(w) \/ RecordReadinessDeniedJob(w)
  PROVE  \E b \in Batches, n \in Attempts, status \in Final \cup {"failed"} :
           /\ proc[w].batch = {<<b, n>>} /\ Mark(w, b, status)
           /\ status = "succeeded" => proc[w].pc = "mark" /\ provider[b] = "completed"
           /\ status = "dead_letter" => \/ n >= MaxJobAttempts
                                        \/ proc[w].pc = "mark" /\ provider[b] # "completed"
PROOF BY DEF MarkEnded, RecordFailedJob, RecordReadinessDeniedJob, JobAt, Final

LEMMA ClaimEffect ==
  ASSUME PollingTypeOK, NEW w \in Workers, ClaimBatchPollingJobs(w)
  PROVE  \E taken \in SUBSET Batches :
           /\ \A b \in taken : Claimable(b)
           /\ \A b \in Batches : job'[b] = IF b \in taken THEN Claimed(b, w) ELSE job[b]
           /\ job' \in [Batches -> JobType]
           /\ proc[w] = Idle
           /\ \A v \in Workers : v # w => proc'[v] = proc[v]
           /\ proc'[w] = [Idle EXCEPT !.todo = {<<b, job[b].attempts + 1>> : b \in taken}]
           /\ proc' \in [Workers -> ProcType]
           /\ UNCHANGED <<provider, usageStatus, corrected>>
PROOF
  <1>1. PICK taken \in SUBSET {b \in Batches : Claimable(b)} :
          /\ job' = [b \in Batches |-> IF b \in taken THEN Claimed(b, w) ELSE job[b]]
          /\ proc' = [proc EXCEPT ![w].todo = {<<b, Claimed(b, w).attempts>> : b \in taken}]
    BY DEF ClaimBatchPollingJobs
  <1>2. \A b \in taken : job[b].attempts + 1 \in Attempts
    BY BoundsAssumption DEF Claimable, PollingTypeOK, JobType, Attempts
  <1>3. \A b \in Batches : Claimed(b, w).attempts = job[b].attempts + 1
    BY DEF PollingTypeOK, JobType, Claimed, Leased
  <1>4. \A b \in taken : Claimed(b, w) \in JobType
    <2> TAKE b \in taken
    <2>1. job[b] \in JobType /\ job[b].attempts + 1 \in 0..(MaxJobAttempts + 1)
      BY <1>2, BoundsAssumption DEF PollingTypeOK, Attempts
    <2> QED BY <2>1 DEF Claimed, Leased, JobType
  <1>5. proc[w] = Idle /\ UNCHANGED <<provider, usageStatus, corrected>>
    BY DEF ClaimBatchPollingJobs
  <1>6. {<<b, Claimed(b, w).attempts>> : b \in taken} = {<<b, job[b].attempts + 1>> : b \in taken}
    BY <1>3
  <1>7. {<<b, job[b].attempts + 1>> : b \in taken} \in SUBSET (Batches \X Attempts)
    BY <1>2
  <1>8. proc' \in [Workers -> ProcType] BY <1>1, <1>6, <1>7 DEF PollingTypeOK, ProcType
  <1>9. proc'[w] = [Idle EXCEPT !.todo = {<<b, job[b].attempts + 1>> : b \in taken}]
    BY <1>1, <1>5, <1>6 DEF PollingTypeOK
  <1> QED BY <1>1, <1>4, <1>5, <1>8, <1>9 DEF PollingTypeOK

-----------------------------------------------------------------------------
(* Type correctness                                                         *)

LEMMA InitType == PollingInit => PollingTypeOK
PROOF BY BoundsAssumption DEF PollingInit, PollingTypeOK, JobType, ProcType, Absent, Idle

LEMMA StepType == PollingTypeOK /\ [PollingNext]_pollingVars => PollingTypeOK'
PROOF
  <1> SUFFICES ASSUME PollingTypeOK, [PollingNext]_pollingVars PROVE PollingTypeOK' OBVIOUS
  <1>1. ASSUME NEW b \in Batches, ProviderEnds(b) PROVE PollingTypeOK'
    BY <1>1 DEF ProviderEnds, PollingTypeOK
  <1>2. ASSUME NEW b \in Batches, RegisterBatchPolling(b) PROVE PollingTypeOK'
    <2>1. job[b] \in JobType BY DEF PollingTypeOK
    <2>2. \A s, t \in BOOLEAN :
            [job[b] EXCEPT !.status = "pending", !.due = TRUE, !.session = s, !.token = t] \in JobType
      BY <2>1 DEF JobType
    <2> QED BY <1>2, <2>2 DEF RegisterBatchPolling, PollingTypeOK
  <1>3. ASSUME NEW b \in Batches, Due(b) PROVE PollingTypeOK'
    <2>1. job[b] \in JobType BY DEF PollingTypeOK
    <2>2. [job[b] EXCEPT !.due = TRUE] \in JobType BY <2>1 DEF JobType
    <2> QED BY <1>3, <2>2 DEF Due, PollingTypeOK
  <1>4. ASSUME NEW w \in Workers, ClaimBatchPollingJobs(w) PROVE PollingTypeOK'
    BY <1>4, ClaimEffect DEF PollingTypeOK
  <1>5. ASSUME NEW w \in Workers, RetrieveBatch(w) PROVE PollingTypeOK'
    BY <1>5 DEF RetrieveBatch, PollingTypeOK, ProcType
  <1>6. ASSUME NEW w \in Workers, ReplaceUsage(w) PROVE PollingTypeOK'
    BY <1>6 DEF ReplaceUsage, JobGo, AfterUsage, Outcome, PollingTypeOK, ProcType
  <1>7. ASSUME NEW w \in Workers, CorrectToken(w) PROVE PollingTypeOK'
    BY <1>7, SMTT(30) DEF CorrectToken, JobGo, AfterToken, PollingTypeOK, ProcType
  <1>8. ASSUME NEW w \in Workers,
               MarkEnded(w) \/ RecordFailedJob(w) \/ RecordReadinessDeniedJob(w)
        PROVE  PollingTypeOK'
    BY <1>8, MarkSteps, MarkEffect DEF PollingTypeOK
  <1>9. ASSUME NEW w \in Workers, WorkerCrash(w) PROVE PollingTypeOK'
    BY <1>9 DEF WorkerCrash, Idle, PollingTypeOK, ProcType
  <1>10. CASE UNCHANGED pollingVars BY <1>10 DEF pollingVars, PollingTypeOK
  <1> QED BY <1>1, <1>2, <1>3, <1>4, <1>5, <1>6, <1>7, <1>8, <1>9, <1>10 DEF PollingNext, Work

\* Every reachable state is well typed; attempts never exceed the maximum by more
\* than the one a claim of an exhausted job may add.
THEOREM PollingTypeCorrect == PollingSpec => []PollingTypeOK
PROOF
  <1> QED BY InitType, StepType, PTL DEF PollingSpec

-----------------------------------------------------------------------------
(* Jobs that ended                                                          *)

LEMMA InitJobs == PollingInit => JobsInv
PROOF BY DEF PollingInit, JobsInv, Absent, Final

\* A step that does not write jobs keeps JobsInv; the others write one or several.
LEMMA StepJobs ==
  ASSUME PollingTypeOK, JobsInv, CopiesInv, [PollingNext]_pollingVars
  PROVE  /\ JobsInv'
         /\ \A b \in Batches : job[b].status \in Final => job'[b] = job[b]
PROOF
  <1>1. ASSUME NEW b \in Batches, RegisterBatchPolling(b)
        PROVE  JobsInv' /\ \A x \in Batches : job[x].status \in Final => job'[x] = job[x]
    BY <1>1 DEF RegisterBatchPolling, JobsInv, PollingTypeOK, JobType, Final
  <1>2. ASSUME NEW b \in Batches, Due(b)
        PROVE  JobsInv' /\ \A x \in Batches : job[x].status \in Final => job'[x] = job[x]
    BY <1>2 DEF Due, JobsInv, PollingTypeOK, JobType, Final
  <1>3. ASSUME NEW w \in Workers, ClaimBatchPollingJobs(w)
        PROVE  JobsInv' /\ \A x \in Batches : job[x].status \in Final => job'[x] = job[x]
    <2>1. PICK taken \in SUBSET Batches :
            /\ \A b \in taken : Claimable(b)
            /\ \A b \in Batches : job'[b] = IF b \in taken THEN Claimed(b, w) ELSE job[b]
      BY <1>3, ClaimEffect
    <2>2. \A b \in taken : job'[b].status = "processing" /\ job[b].status \notin Final
      BY <2>1 DEF Claimable, Claimed, Leased, PollingTypeOK, JobType, Final
    <2>3. \A b \in Batches \ taken : job'[b] = job[b] BY <2>1
    <2> QED BY <2>2, <2>3 DEF JobsInv, Final
  <1>4. ASSUME NEW w \in Workers,
               MarkEnded(w) \/ RecordFailedJob(w) \/ RecordReadinessDeniedJob(w)
        PROVE  JobsInv' /\ \A x \in Batches : job[x].status \in Final => job'[x] = job[x]
    <2>1. PICK b \in Batches, status \in Final \cup {"failed"} : Mark(w, b, status)
      BY <1>4, MarkSteps
    <2>2. w # NoWorker BY WorkersAssumption
    <2>3. job[b] \in JobType BY DEF PollingTypeOK
    <2>4. \A x \in Batches : x # b => job'[x] = job[x] BY <2>1, MarkEffect, ZenonT(30)
    <2>5. \/ job'[b] = job[b]
          \/ /\ job[b].lockedBy = w
             /\ job'[b] = [job[b] EXCEPT !.status = status, !.lockedBy = NoWorker, !.due = FALSE]
      BY <2>1, MarkEffect
    <2>6. job[b] \in JobType /\ \A x \in Batches : x # b => job'[x] = job[x] BY <2>3, <2>4
    <2>7. CASE job'[b] = job[b] BY <2>6, <2>7 DEF JobsInv
    <2>8. CASE /\ job[b].lockedBy = w
               /\ job'[b] = [job[b] EXCEPT !.status = status, !.lockedBy = NoWorker,
                                           !.due = FALSE]
      <3>1. job[b].status \notin Final BY <2>2, <2>8 DEF JobsInv
      <3>2. job'[b].status = status /\ job'[b].lockedBy = NoWorker
        BY <2>6, <2>8 DEF JobType
      <3>3. status # "absent" BY DEF Final
      <3> QED BY <2>6, <3>1, <3>2, <3>3 DEF JobsInv
    <2> QED BY <2>5, <2>7, <2>8
  <1>5. CASE UNCHANGED job BY <1>5 DEF JobsInv
  <1> QED BY <1>1, <1>2, <1>3, <1>4, <1>5
          DEF PollingNext, Work, ProviderEnds, RetrieveBatch, ReplaceUsage, CorrectToken, WorkerCrash, pollingVars

-----------------------------------------------------------------------------
(* Copies of claimed jobs                                                   *)

LEMMA InitCopies == PollingInit => CopiesInv
PROOF BY DEF PollingInit, CopiesInv, Held, Idle

\* Attempts are never taken back.
LEMMA AttemptsGrow ==
  ASSUME PollingTypeOK, [PollingNext]_pollingVars
  PROVE  \A b \in Batches : job[b].attempts <= job'[b].attempts
PROOF
  <1>0. \A b \in Batches : job[b].attempts \in Nat /\ job[b] \in JobType
    BY BoundsAssumption DEF PollingTypeOK, JobType
  <1>1. ASSUME NEW b \in Batches, RegisterBatchPolling(b) \/ Due(b)
        PROVE  \A x \in Batches : job[x].attempts <= job'[x].attempts
    <2>1. \A x \in Batches : x # b => job'[x] = job[x]
      BY <1>1 DEF RegisterBatchPolling, Due, PollingTypeOK
    <2>2. \/ job'[b] = [job[b] EXCEPT !.due = TRUE]
          \/ \E s, t \in BOOLEAN :
               job'[b] = [job[b] EXCEPT !.status = "pending", !.due = TRUE, !.session = s, !.token = t]
      BY <1>1 DEF RegisterBatchPolling, Due, PollingTypeOK
    <2>3. job'[b].attempts = job[b].attempts BY <1>0, <2>2 DEF JobType
    <2> QED BY <1>0, <2>1, <2>3
  <1>2. ASSUME NEW w \in Workers, ClaimBatchPollingJobs(w)
        PROVE  \A x \in Batches : job[x].attempts <= job'[x].attempts
    <2>1. PICK taken \in SUBSET Batches :
            \A b \in Batches : job'[b] = IF b \in taken THEN Claimed(b, w) ELSE job[b]
      BY <1>2, ClaimEffect
    <2>2. \A b \in taken : job'[b].attempts = job[b].attempts + 1
      BY <1>0, <2>1 DEF Claimed, Leased, JobType
    <2>3. \A b \in Batches \ taken : job'[b] = job[b] BY <2>1
    <2> QED BY <1>0, <2>2, <2>3
  <1>3. ASSUME NEW w \in Workers,
               MarkEnded(w) \/ RecordFailedJob(w) \/ RecordReadinessDeniedJob(w)
        PROVE  \A x \in Batches : job[x].attempts <= job'[x].attempts
    <2>1. PICK b \in Batches, status \in Final \cup {"failed"} : Mark(w, b, status)
      BY <1>3, MarkSteps
    <2>2. \A x \in Batches : x # b => job'[x] = job[x] BY <2>1, MarkEffect, ZenonT(30)
    <2>3. \/ job'[b] = job[b]
          \/ job'[b] = [job[b] EXCEPT !.status = status, !.lockedBy = NoWorker, !.due = FALSE]
      BY <2>1, MarkEffect
    <2>4. job'[b].attempts = job[b].attempts BY <1>0, <2>3 DEF JobType
    <2> QED BY <1>0, <2>2, <2>4
  <1>4. CASE UNCHANGED job BY <1>0, <1>4
  <1> QED BY <1>1, <1>2, <1>3, <1>4
          DEF PollingNext, Work, ProviderEnds, RetrieveBatch, ReplaceUsage, CorrectToken, WorkerCrash, pollingVars

\* A step in which no worker comes to hold a new copy keeps CopiesInv.
LEMMA NothingNew ==
  ASSUME PollingTypeOK, PollingTypeOK', CopiesInv, [PollingNext]_pollingVars,
         \A w \in Workers : /\ proc'[w].todo \cup proc'[w].batch \subseteq Held(w)
                            /\ proc'[w].todo \cap proc'[w].batch = {}
                            /\ proc'[w].pc = "idle" => proc'[w].batch = {}
  PROVE  CopiesInv'
PROOF
  <1>1. \A w \in Workers : Held(w)' \subseteq Held(w) BY DEF Held
  <1>2. \A w \in Workers : \A c \in Held(w)' : c[2] <= job'[c[1]].attempts
    <2> SUFFICES ASSUME NEW w \in Workers, NEW c \in Held(w)' PROVE c[2] <= job'[c[1]].attempts
      OBVIOUS
    <2>1. c \in Batches \X Attempts /\ c \in Held(w) BY <1>1 DEF Held, PollingTypeOK, ProcType
    <2>2. c[2] <= job[c[1]].attempts BY <2>1 DEF CopiesInv
    <2>3. /\ c[2] \in Nat /\ c[1] \in Batches
          /\ job[c[1]].attempts \in Nat /\ job'[c[1]].attempts \in Nat
      BY <2>1, BoundsAssumption DEF PollingTypeOK, JobType, Attempts
    <2>4. job[c[1]].attempts <= job'[c[1]].attempts BY <2>3, AttemptsGrow
    <2> QED BY <2>2, <2>3, <2>4
  <1>3. \A v, w \in Workers : v # w => Held(v)' \cap Held(w)' = {} BY <1>1 DEF CopiesInv
  <1> QED BY <1>2, <1>3 DEF CopiesInv

LEMMA StepCopies ==
  ASSUME PollingTypeOK, PollingTypeOK', CopiesInv, [PollingNext]_pollingVars
  PROVE  CopiesInv'
PROOF
  <1>0. \A w \in Workers : proc[w] \in ProcType BY DEF PollingTypeOK
  <1>1. CASE UNCHANGED proc BY <1>1, NothingNew DEF CopiesInv, Held
  <1>2. ASSUME NEW w \in Workers, ClaimBatchPollingJobs(w) PROVE CopiesInv'
    <2>1. PICK taken \in SUBSET Batches :
            /\ \A b \in taken : Claimable(b)
            /\ \A b \in Batches : job'[b] = IF b \in taken THEN Claimed(b, w) ELSE job[b]
            /\ \A v \in Workers : v # w => proc'[v] = proc[v]
            /\ proc'[w] = [Idle EXCEPT !.todo = {<<b, job[b].attempts + 1>> : b \in taken}]
      BY <1>2, ClaimEffect
    <2>2. \A b \in Batches : job[b].attempts \in Nat /\ job[b] \in JobType
      BY BoundsAssumption DEF PollingTypeOK, JobType
    <2>3. \A b \in taken : job'[b].attempts = job[b].attempts + 1
      BY <2>1, <2>2, ZenonT(30) DEF Claimed, Leased, JobType
    <2>4. Held(w)' = {<<b, job[b].attempts + 1>> : b \in taken} BY <2>1 DEF Held, Idle
    <2>5. \A v \in Workers : v # w => Held(v)' = Held(v) BY <2>1 DEF Held
    <2>6. \A v \in Workers : \A c \in Held(v) :
            /\ c \in Batches \X Attempts /\ c[2] <= job[c[1]].attempts
            /\ c[2] <= job'[c[1]].attempts
      <3> SUFFICES ASSUME NEW v \in Workers, NEW c \in Held(v)
                   PROVE  /\ c \in Batches \X Attempts /\ c[2] <= job[c[1]].attempts
                          /\ c[2] <= job'[c[1]].attempts
        OBVIOUS
      <3>1. c \in Batches \X Attempts BY <1>0 DEF Held, ProcType
      <3>2. c[2] <= job[c[1]].attempts BY DEF CopiesInv
      <3>3. c[2] \in Nat /\ job[c[1]].attempts \in Nat /\ job'[c[1]].attempts \in Nat
        BY <3>1, BoundsAssumption DEF PollingTypeOK, JobType, Attempts
      <3> QED BY <3>1, <3>2, <3>3, AttemptsGrow
    <2>7. \A v \in Workers : Held(v) \cap Held(w)' = {}
      <3> SUFFICES ASSUME NEW v \in Workers, NEW b \in taken, <<b, job[b].attempts + 1>> \in Held(v)
                   PROVE  FALSE
        BY <2>4
      <3> QED BY <2>2, <2>6
    <2>8. \A c \in Held(w)' : c[2] <= job'[c[1]].attempts BY <2>2, <2>3, <2>4
    <2>9. /\ proc'[w].todo \cap proc'[w].batch = {} /\ proc'[w].batch = {}
          /\ \A v \in Workers : v # w => /\ proc'[v].todo \cap proc'[v].batch = {}
                                         /\ proc'[v].pc = "idle" => proc'[v].batch = {}
      BY <2>1 DEF CopiesInv, Idle
    <2>10. \A u, v \in Workers : u # v => Held(u)' \cap Held(v)' = {}
      BY <2>5, <2>7 DEF CopiesInv
    <2> QED BY <2>5, <2>6, <2>8, <2>9, <2>10 DEF CopiesInv
  <1>3. ASSUME NEW w \in Workers, RetrieveBatch(w) PROVE CopiesInv'
    <2>1. PICK c \in proc[w].todo, next \in {"retry", "finalise"} :
            proc' = [proc EXCEPT ![w] = [pc |-> next, todo |-> @.todo \ {c}, batch |-> {c}]]
      BY <1>3 DEF RetrieveBatch
    <2>2. proc'[w] = [pc |-> next, todo |-> proc[w].todo \ {c}, batch |-> {c}]
      BY <2>1 DEF PollingTypeOK
    <2>3. \A v \in Workers : v # w => proc'[v] = proc[v] BY <2>1 DEF PollingTypeOK
    <2> QED BY <2>2, <2>3, NothingNew DEF CopiesInv, Held
  <1>4. ASSUME NEW w \in Workers, NEW pc \in {"token", "mark", "retry"}, JobGo(w, pc) PROVE CopiesInv'
    <2>1. /\ proc'[w] = [proc[w] EXCEPT !.pc = pc]
          /\ \A v \in Workers : v # w => proc'[v] = proc[v]
      BY <1>4 DEF JobGo, PollingTypeOK
    <2>2. /\ proc'[w].todo = proc[w].todo /\ proc'[w].batch = proc[w].batch
          /\ proc'[w].pc # "idle"
      BY <1>0, <2>1 DEF ProcType
    <2> QED BY <2>1, <2>2, NothingNew, ZenonT(30) DEF CopiesInv, Held
  <1>5. ASSUME NEW w \in Workers,
               MarkEnded(w) \/ RecordFailedJob(w) \/ RecordReadinessDeniedJob(w)
        PROVE  CopiesInv'
    <2>1. /\ proc'[w] = [proc[w] EXCEPT !.pc = "idle", !.batch = {}]
          /\ \A v \in Workers : v # w => proc'[v] = proc[v]
      <3>1. PICK b \in Batches, status \in Final \cup {"failed"} : Mark(w, b, status)
        BY <1>5, MarkSteps
      <3>2. proc' = [proc EXCEPT ![w] = [@ EXCEPT !.pc = "idle", !.batch = {}]]
        BY <3>1, MarkEffect
      <3> QED BY <3>2 DEF PollingTypeOK
    <2>2. proc'[w].todo = proc[w].todo /\ proc'[w].batch = {} BY <1>0, <2>1 DEF ProcType
    <2> QED BY <2>1, <2>2, NothingNew DEF CopiesInv, Held
  <1>6. ASSUME NEW w \in Workers, WorkerCrash(w) PROVE CopiesInv'
    <2>1. proc'[w] = Idle /\ \A v \in Workers : v # w => proc'[v] = proc[v]
      BY <1>6 DEF WorkerCrash, PollingTypeOK
    <2> QED BY <2>1, NothingNew DEF CopiesInv, Held, Idle
  <1>7. ASSUME NEW w \in Workers, ReplaceUsage(w) \/ CorrectToken(w)
        PROVE  \E pc \in {"token", "mark", "retry"} : JobGo(w, pc)
    BY <1>7 DEF ReplaceUsage, CorrectToken, AfterUsage, AfterToken
  <1> QED BY <1>1, <1>2, <1>3, <1>4, <1>5, <1>6, <1>7
          DEF PollingNext, Work, ProviderEnds, RegisterBatchPolling, Due, pollingVars

-----------------------------------------------------------------------------
(* What a worker knows                                                      *)

\* What the batch of a claimed job is known for does not change: how it ended, the
\* outcome in its usage row, that its token was corrected, that it has a token.
LEMMA Stable ==
  ASSUME PollingTypeOK, JobsInv, [PollingNext]_pollingVars, NEW b \in Batches
  PROVE  /\ provider[b] # "in_progress" => provider'[b] = provider[b]
         /\ usageStatus'[b] \in {usageStatus[b], Outcome(b)}
         /\ corrected[b] <= corrected'[b]
         /\ job[b].attempts > 0 => job'[b].token = job[b].token
PROOF
  <1>0. corrected[b] \in Nat /\ job[b] \in JobType BY DEF PollingTypeOK
  <1>1. provider[b] # "in_progress" => provider'[b] = provider[b]
    <2>1. ASSUME NEW x \in Batches, ProviderEnds(x), provider[b] # "in_progress"
          PROVE  provider'[b] = provider[b]
      BY <2>1 DEF ProviderEnds, PollingTypeOK
    <2>2. ASSUME NEW w \in Workers,
                 MarkEnded(w) \/ RecordFailedJob(w) \/ RecordReadinessDeniedJob(w)
          PROVE  UNCHANGED provider
      BY <2>2 DEF MarkEnded, RecordFailedJob, RecordReadinessDeniedJob, Mark
    <2> QED BY <2>1, <2>2
            DEF PollingNext, Work, RegisterBatchPolling, Due, ClaimBatchPollingJobs, RetrieveBatch,
                ReplaceUsage, CorrectToken, WorkerCrash, pollingVars
  <1>2. usageStatus'[b] \in {usageStatus[b], Outcome(b)}
    <2>1. ASSUME NEW w \in Workers, ReplaceUsage(w) PROVE usageStatus'[b] \in {usageStatus[b], Outcome(b)}
      BY <2>1 DEF ReplaceUsage, PollingTypeOK
    <2>2. ASSUME NEW w \in Workers,
                 MarkEnded(w) \/ RecordFailedJob(w) \/ RecordReadinessDeniedJob(w)
          PROVE  UNCHANGED usageStatus
      BY <2>2 DEF MarkEnded, RecordFailedJob, RecordReadinessDeniedJob, Mark
    <2> QED BY <2>1, <2>2
            DEF PollingNext, Work, ProviderEnds, RegisterBatchPolling, Due, ClaimBatchPollingJobs,
                RetrieveBatch, CorrectToken, WorkerCrash, pollingVars
  <1>3. corrected[b] <= corrected'[b]
    <2>1. ASSUME NEW w \in Workers, CorrectToken(w) PROVE corrected[b] <= corrected'[b]
      BY <1>0, <2>1 DEF CorrectToken, PollingTypeOK
    <2>2. ASSUME NEW w \in Workers,
                 MarkEnded(w) \/ RecordFailedJob(w) \/ RecordReadinessDeniedJob(w)
          PROVE  UNCHANGED corrected
      BY <2>2 DEF MarkEnded, RecordFailedJob, RecordReadinessDeniedJob, Mark
    <2>3. CASE UNCHANGED corrected BY <1>0, <2>3
    <2> QED BY <2>1, <2>2, <2>3
            DEF PollingNext, Work, ProviderEnds, RegisterBatchPolling, Due, ClaimBatchPollingJobs,
                RetrieveBatch, ReplaceUsage, WorkerCrash, pollingVars
  <1>4. job[b].attempts > 0 => job'[b].token = job[b].token
    <2>1. ASSUME NEW x \in Batches, RegisterBatchPolling(x), job[b].attempts > 0
          PROVE  job'[b] = job[b]
      BY <1>0, <2>1, BoundsAssumption DEF RegisterBatchPolling, PollingTypeOK, JobType, JobsInv
    <2>2. ASSUME NEW x \in Batches, Due(x) PROVE job'[b].token = job[b].token
      BY <1>0, <2>2 DEF Due, PollingTypeOK, JobType
    <2>3. ASSUME NEW w \in Workers, ClaimBatchPollingJobs(w) PROVE job'[b].token = job[b].token
      <3>1. job'[b] = job[b] \/ job'[b] = Claimed(b, w) BY <2>3, ClaimEffect
      <3> QED BY <1>0, <3>1 DEF Claimed, Leased, JobType
    <2>4. ASSUME NEW w \in Workers,
                 MarkEnded(w) \/ RecordFailedJob(w) \/ RecordReadinessDeniedJob(w)
          PROVE  job'[b].token = job[b].token
      <3>1. PICK x \in Batches, status \in Final \cup {"failed"} : Mark(w, x, status)
        BY <2>4, MarkSteps
      <3>2. x # b => job'[b] = job[b]
        <4>1. \A y \in Batches : y # x => job'[y] = job[y] BY <3>1, MarkEffect, ZenonT(30)
        <4> QED BY <4>1
      <3>3. \/ job'[x] = job[x]
            \/ job'[x] = [job[x] EXCEPT !.status = status, !.lockedBy = NoWorker, !.due = FALSE]
        BY <3>1, MarkEffect
      <3>4. x = b => job'[b].token = job[b].token BY <1>0, <3>3 DEF JobType
      <3> QED BY <3>2, <3>4
    <2> QED BY <2>1, <2>2, <2>3, <2>4
            DEF PollingNext, Work, ProviderEnds, RetrieveBatch, ReplaceUsage, CorrectToken, WorkerCrash, pollingVars
  <1> QED BY <1>1, <1>2, <1>3, <1>4

LEMMA InitProgress == PollingInit => ProgressInv
PROOF BY DEF PollingInit, ProgressInv, Idle

LEMMA StepProgress ==
  ASSUME PollingTypeOK, PollingTypeOK', JobsInv, CopiesInv, ProgressInv, [PollingNext]_pollingVars
  PROVE  ProgressInv'
PROOF
  <1> SUFFICES ASSUME NEW w \in Workers, NEW b \in Batches, NEW n \in Attempts,
                      proc'[w].batch = {<<b, n>>}
               PROVE  /\ proc'[w].pc \in {"finalise", "token", "mark"} => provider'[b] # "in_progress"
                      /\ proc'[w].pc \in {"token", "mark"} => usageStatus'[b] = Outcome(b)'
                      /\ proc'[w].pc = "mark" /\ job'[b].token => corrected'[b] > 0
    BY DEF ProgressInv
  <1>0. /\ proc[w] \in ProcType /\ job[b] \in JobType /\ n \in Nat \ {0}
        /\ corrected[b] \in Nat /\ corrected'[b] \in Nat /\ job[b].attempts \in Nat
    BY BoundsAssumption DEF PollingTypeOK, JobType, Attempts
  <1>1. /\ provider[b] # "in_progress" => provider'[b] = provider[b] /\ Outcome(b)' = Outcome(b)
        /\ usageStatus'[b] \in {usageStatus[b], Outcome(b)}
        /\ corrected[b] <= corrected'[b]
        /\ job[b].attempts > 0 => job'[b].token = job[b].token
    BY Stable DEF Outcome
  <1>2. CASE proc'[w] = proc[w]
    <2>1. <<b, n>> \in Held(w) BY <1>2 DEF Held
    <2>2. n <= job[b].attempts BY <2>1 DEF CopiesInv
    <2>3. job'[b].token = job[b].token BY <1>0, <1>1, <2>2
    <2> QED BY <1>0, <1>1, <1>2, <2>3 DEF ProgressInv
  <1>3. ASSUME NEW v \in Workers, v # w,
               ClaimBatchPollingJobs(v) \/ Work(v) \/ WorkerCrash(v)
        PROVE  proc'[w] = proc[w]
    BY <1>3 DEF ClaimBatchPollingJobs, Work, RetrieveBatch, ReplaceUsage, CorrectToken, MarkEnded,
                RecordFailedJob, RecordReadinessDeniedJob, Mark, JobGo, WorkerCrash, PollingTypeOK
  <1>4. CASE RetrieveBatch(w)
    <2>1. PICK c \in proc[w].todo, next \in {"retry", "finalise"} :
            /\ next = "finalise" => provider[c[1]] # "in_progress"
            /\ proc'[w] = [pc |-> next, todo |-> proc[w].todo \ {c}, batch |-> {c}]
      BY <1>4 DEF RetrieveBatch, PollingTypeOK
    <2>2. c = <<b, n>> BY <2>1
    <2> QED BY <1>1, <2>1, <2>2
  <1>5. CASE ReplaceUsage(w)
    <2>1. PICK x \in Batches, m \in Attempts :
            /\ JobAt(w, "finalise", x, m)
            /\ \/ usageStatus' = [usageStatus EXCEPT ![x] = Outcome(x)] /\ JobGo(w, AfterUsage(x))
               \/ JobGo(w, "retry")
            /\ UNCHANGED <<provider, job, corrected>>
      BY <1>5 DEF ReplaceUsage
    <2>2. proc'[w].batch = proc[w].batch BY <1>0, <2>1 DEF JobGo, PollingTypeOK, ProcType
    <2>3. x = b /\ m = n
      <3>1. {<<x, m>>} = {<<b, n>>} BY <2>1, <2>2 DEF JobAt
      <3>2. <<x, m>> = <<b, n>> BY <3>1
      <3> QED BY <3>2
    <2>4. provider[b] # "in_progress" BY <2>1, <2>3 DEF JobAt, ProgressInv
    <2>5. CASE JobGo(w, "retry") BY <1>0, <2>5 DEF JobGo, PollingTypeOK, ProcType
    <2>6. CASE usageStatus' = [usageStatus EXCEPT ![x] = Outcome(x)] /\ JobGo(w, AfterUsage(x))
      <3>1. usageStatus'[b] = Outcome(b) BY <2>3, <2>6 DEF PollingTypeOK
      <3>2. proc'[w].pc = AfterUsage(b) BY <1>0, <2>3, <2>6 DEF JobGo, PollingTypeOK, ProcType
      <3>3. proc'[w].pc = "mark" => ~job'[b].token BY <2>1, <3>2 DEF AfterUsage
      <3> QED BY <1>1, <2>4, <3>1, <3>3
    <2> QED BY <2>1, <2>5, <2>6
  <1>6. CASE CorrectToken(w)
    <2>1. PICK x \in Batches, m \in Attempts, done, ok \in BOOLEAN :
            /\ JobAt(w, "token", x, m) /\ (ok => done)
            /\ corrected' = IF done THEN [corrected EXCEPT ![x] = @ + 1] ELSE corrected
            /\ JobGo(w, AfterToken(ok))
            /\ UNCHANGED <<provider, job, usageStatus>>
      BY <1>6 DEF CorrectToken
    <2>2. proc'[w].batch = proc[w].batch /\ proc'[w].pc = AfterToken(ok)
      BY <1>0, <2>1 DEF JobGo, PollingTypeOK, ProcType
    <2>3. x = b /\ m = n
      <3>1. {<<x, m>>} = {<<b, n>>} BY <2>1, <2>2 DEF JobAt
      <3>2. <<x, m>> = <<b, n>> BY <3>1
      <3> QED BY <3>2
    <2>4. provider[b] # "in_progress" /\ usageStatus[b] = Outcome(b)
      BY <2>1, <2>3 DEF JobAt, ProgressInv
    <2>5. proc'[w].pc = "mark" => corrected'[b] > 0
      BY <1>0, <2>1, <2>2, <2>3 DEF AfterToken, PollingTypeOK
    <2>6. proc'[w].pc \in {"mark", "retry"} BY <2>2 DEF AfterToken
    <2> QED BY <1>1, <2>1, <2>4, <2>5, <2>6
  <1>7. CASE ClaimBatchPollingJobs(w) \/ WorkerCrash(w)
    BY <1>7, ClaimEffect DEF WorkerCrash, Idle, PollingTypeOK
  <1>8. CASE MarkEnded(w) \/ RecordFailedJob(w) \/ RecordReadinessDeniedJob(w)
    <2>1. PICK x \in Batches, status \in Final \cup {"failed"} : Mark(w, x, status)
      BY <1>8, MarkSteps
    <2>2. proc' = [proc EXCEPT ![w] = [@ EXCEPT !.pc = "idle", !.batch = {}]]
      BY <2>1, MarkEffect
    <2> QED BY <1>0, <2>2 DEF PollingTypeOK, ProcType
  <1> QED BY <1>2, <1>3, <1>4, <1>5, <1>6, <1>7, <1>8
          DEF PollingNext, Work, ProviderEnds, RegisterBatchPolling, Due, pollingVars

-----------------------------------------------------------------------------
(* Ends                                                                     *)

LEMMA InitFinalised == PollingInit => EndIsFinalised
PROOF BY DEF PollingInit, EndIsFinalised, Absent, Final

LEMMA StepFinalised ==
  ASSUME PollingTypeOK, PollingTypeOK', JobsInv, CopiesInv, ProgressInv, EndIsFinalised, [PollingNext]_pollingVars
  PROVE  EndIsFinalised'
PROOF
  <1> SUFFICES ASSUME NEW b \in Batches, job'[b].status \in Final
               PROVE  \/ job'[b].status = "dead_letter" /\ job'[b].attempts >= MaxJobAttempts
                      \/ /\ usageStatus'[b] = Outcome(b)' /\ provider'[b] # "in_progress"
                         /\ (job'[b].status = "succeeded") = (provider'[b] = "completed")
                         /\ job'[b].token => corrected'[b] > 0
    BY DEF EndIsFinalised
  <1>0. /\ job[b] \in JobType /\ job[b].attempts \in Nat
        /\ corrected[b] \in Nat /\ corrected'[b] \in Nat
    BY BoundsAssumption DEF PollingTypeOK, JobType
  <1>1. /\ provider[b] # "in_progress" => provider'[b] = provider[b] /\ Outcome(b)' = Outcome(b)
        /\ usageStatus'[b] \in {usageStatus[b], Outcome(b)}
        /\ corrected[b] <= corrected'[b]
        /\ job[b].attempts > 0 => job'[b].token = job[b].token
    BY Stable DEF Outcome
  <1>2. CASE job[b].status \in Final
    <2>1. job'[b] = job[b] BY <1>2, StepJobs
    <2> QED BY <1>0, <1>1, <1>2, <2>1 DEF EndIsFinalised
  <1>3. CASE job[b].status \notin Final
    <2>1. ASSUME NEW w \in Workers, ClaimBatchPollingJobs(w) PROVE FALSE
      <3>1. job'[b] = job[b] \/ job'[b] = Claimed(b, w) BY <2>1, ClaimEffect
      <3> QED BY <1>0, <1>3, <3>1 DEF Claimed, Leased, JobType, Final
    <2>2. ASSUME NEW x \in Batches, RegisterBatchPolling(x) \/ Due(x) PROVE FALSE
      <3>1. \/ job'[b] = job[b]
            \/ job'[b] = [job[b] EXCEPT !.due = TRUE]
            \/ \E s, t \in BOOLEAN :
                 job'[b] = [job[b] EXCEPT !.status = "pending", !.due = TRUE, !.session = s, !.token = t]
        <4>1. CASE x # b BY <2>2, <4>1 DEF RegisterBatchPolling, Due, PollingTypeOK
        <4>2. CASE x = b BY <2>2, <4>2 DEF RegisterBatchPolling, Due, PollingTypeOK
        <4> QED BY <4>1, <4>2
      <3> QED BY <1>0, <1>3, <3>1 DEF JobType, Final
    <2>3. PICK w \in Workers : MarkEnded(w) \/ RecordFailedJob(w) \/ RecordReadinessDeniedJob(w)
      BY <1>3, <2>1, <2>2
         DEF PollingNext, Work, ProviderEnds, RetrieveBatch, ReplaceUsage, CorrectToken, WorkerCrash, pollingVars
    <2>4. PICK x \in Batches, n \in Attempts, status \in Final \cup {"failed"} :
            /\ proc[w].batch = {<<x, n>>} /\ Mark(w, x, status)
            /\ status = "succeeded" => proc[w].pc = "mark" /\ provider[x] = "completed"
            /\ status = "dead_letter" => \/ n >= MaxJobAttempts
                                         \/ proc[w].pc = "mark" /\ provider[x] # "completed"
      BY <2>3, MarkSteps
    <2>5. Mark(w, x, status) BY <2>4
    <2>6. \A y \in Batches : y # x => job'[y] = job[y] BY <2>5, MarkEffect, ZenonT(30)
    <2>7. \/ job'[x] = job[x]
          \/ job'[x] = [job[x] EXCEPT !.status = status, !.lockedBy = NoWorker, !.due = FALSE]
      BY <2>5, MarkEffect
    <2>8. x = b BY <1>3, <2>6
    <2>9. job'[b].status = status /\ job'[b].attempts = job[b].attempts
      BY <1>0, <1>3, <2>7, <2>8 DEF JobType
    <2>10. n <= job[b].attempts /\ n \in Nat \ {0}
      <3>1. <<b, n>> \in Held(w) BY <2>4, <2>8 DEF Held
      <3> QED BY <3>1, BoundsAssumption DEF CopiesInv, Attempts
    <2>11. CASE n >= MaxJobAttempts /\ status = "dead_letter"
      BY <1>0, <2>9, <2>10, <2>11, BoundsAssumption
    <2>12. CASE /\ proc[w].pc = "mark"
                /\ \/ status = "succeeded" /\ provider[b] = "completed"
                   \/ status = "dead_letter" /\ provider[b] # "completed"
      <3>1. /\ provider[b] # "in_progress" /\ usageStatus[b] = Outcome(b)
            /\ job[b].token => corrected[b] > 0
        BY <2>4, <2>8, <2>12 DEF ProgressInv
      <3>2. job'[b].token = job[b].token BY <1>0, <1>1, <2>10
      <3> QED BY <1>0, <1>1, <2>9, <2>12, <3>1, <3>2
    <2>13. status \in Final BY <2>9
    <2>14. CASE status = "succeeded" BY <2>4, <2>8, <2>12, <2>14
    <2>15. CASE status = "dead_letter" BY <2>4, <2>8, <2>11, <2>12, <2>15
    <2> QED BY <2>13, <2>14, <2>15 DEF Final
  <1> QED BY <1>2, <1>3

-----------------------------------------------------------------------------
(* Corrections                                                              *)

LEMMA UncorrectedFinite ==
  ASSUME NEW b \in Batches
  PROVE  /\ IsFiniteSet(Uncorrected(b)) /\ Cardinality(Uncorrected(b)) \in Nat
         /\ IsFiniteSet(Uncorrected(b)') /\ Cardinality(Uncorrected(b)') \in Nat
PROOF
  <1>1. IsFiniteSet(Attempts) BY FS_Interval, BoundsAssumption DEF Attempts
  <1>2. Uncorrected(b) \in SUBSET Attempts /\ Uncorrected(b)' \in SUBSET Attempts
    BY DEF Uncorrected
  <1>3. IsFiniteSet(Uncorrected(b)) /\ IsFiniteSet(Uncorrected(b)') BY <1>1, <1>2, FS_Subset
  <1> QED BY <1>3, FS_CardinalityType

LEMMA InitCount == PollingInit => CountInv
PROOF
  <1> SUFFICES ASSUME PollingInit, NEW b \in Batches
               PROVE  corrected[b] + Cardinality(Uncorrected(b)) <= job[b].attempts
    BY DEF CountInv
  <1>1. Uncorrected(b) = {} BY DEF PollingInit, Uncorrected, ToCorrect, Idle
  <1>2. corrected[b] = 0 /\ job[b].attempts = 0 BY DEF PollingInit, Absent
  <1> QED BY <1>1, <1>2, FS_EmptySet

\* A step that opens no copy and corrects nothing keeps the count.
LEMMA NothingOpened ==
  ASSUME PollingTypeOK, PollingTypeOK', CountInv, [PollingNext]_pollingVars, NEW b \in Batches,
         corrected'[b] = corrected[b], \A w \in Workers : ToCorrect(w)' \subseteq ToCorrect(w)
  PROVE  corrected'[b] + Cardinality(Uncorrected(b)') <= job'[b].attempts
PROOF
  <1>1. Uncorrected(b)' \in SUBSET Uncorrected(b) BY DEF Uncorrected
  <1>2. Cardinality(Uncorrected(b)') <= Cardinality(Uncorrected(b))
    BY <1>1, UncorrectedFinite, FS_Subset
  <1>3. corrected[b] + Cardinality(Uncorrected(b)) <= job[b].attempts BY DEF CountInv
  <1>4. job[b].attempts <= job'[b].attempts BY AttemptsGrow
  <1>5. corrected[b] \in Nat /\ job[b].attempts \in Nat /\ job'[b].attempts \in Nat
    BY BoundsAssumption DEF PollingTypeOK, JobType
  <1> QED BY <1>2, <1>3, <1>4, <1>5, UncorrectedFinite

LEMMA StepCount ==
  ASSUME PollingTypeOK, PollingTypeOK', JobsInv, CopiesInv, CountInv, [PollingNext]_pollingVars
  PROVE  CountInv'
PROOF
  <1> SUFFICES ASSUME NEW b \in Batches
               PROVE  corrected'[b] + Cardinality(Uncorrected(b)') <= job'[b].attempts
    BY DEF CountInv
  <1>0. /\ job[b] \in JobType /\ job[b].attempts \in Nat /\ job'[b].attempts \in Nat
        /\ corrected[b] \in Nat /\ \A w \in Workers : proc[w] \in ProcType
    BY BoundsAssumption DEF PollingTypeOK, JobType
  <1>1. corrected[b] + Cardinality(Uncorrected(b)) <= job[b].attempts BY DEF CountInv
  <1>2. CASE UNCHANGED <<corrected, proc>>
    BY <1>2, NothingOpened DEF ToCorrect
  <1>3. ASSUME NEW w \in Workers, ClaimBatchPollingJobs(w)
        PROVE  corrected'[b] + Cardinality(Uncorrected(b)') <= job'[b].attempts
    <2>1. PICK taken \in SUBSET Batches :
            /\ \A x \in Batches : job'[x] = IF x \in taken THEN Claimed(x, w) ELSE job[x]
            /\ proc[w] = Idle
            /\ \A v \in Workers : v # w => proc'[v] = proc[v]
            /\ proc'[w] = [Idle EXCEPT !.todo = {<<x, job[x].attempts + 1>> : x \in taken}]
            /\ UNCHANGED corrected
      BY <1>3, ClaimEffect
    <2>2. \A v \in Workers : v # w => ToCorrect(v)' = ToCorrect(v) BY <2>1 DEF ToCorrect
    <2>3. ToCorrect(w)' = {<<x, job[x].attempts + 1>> : x \in taken} BY <2>1 DEF ToCorrect, Idle
    <2>4. CASE b \in taken
      <3>1. job'[b].attempts = job[b].attempts + 1
        BY <1>0, <2>1, <2>4 DEF Claimed, Leased, JobType
      <3>2. Uncorrected(b)' \in SUBSET (Uncorrected(b) \cup {job[b].attempts + 1})
        BY <2>2, <2>3 DEF Uncorrected
      <3>3. /\ IsFiniteSet(Uncorrected(b) \cup {job[b].attempts + 1})
            /\ Cardinality(Uncorrected(b) \cup {job[b].attempts + 1}) \in Nat
            /\ Cardinality(Uncorrected(b) \cup {job[b].attempts + 1})
                 <= Cardinality(Uncorrected(b)) + 1
        <4>1. IsFiniteSet(Uncorrected(b) \cup {job[b].attempts + 1})
          BY UncorrectedFinite, FS_AddElement
        <4>2. Cardinality(Uncorrected(b) \cup {job[b].attempts + 1}) =
                IF job[b].attempts + 1 \in Uncorrected(b) THEN Cardinality(Uncorrected(b))
                ELSE Cardinality(Uncorrected(b)) + 1
          BY UncorrectedFinite, FS_AddElement
        <4> QED BY <4>1, <4>2, UncorrectedFinite
      <3>4. Cardinality(Uncorrected(b)') <= Cardinality(Uncorrected(b) \cup {job[b].attempts + 1})
        BY <3>2, <3>3, FS_Subset
      <3>5. corrected'[b] = corrected[b] BY <2>1
      <3> QED BY <1>0, <1>1, <3>1, <3>3, <3>4, <3>5, UncorrectedFinite
    <2>5. CASE b \notin taken
      <3>1. Uncorrected(b)' \in SUBSET Uncorrected(b)
        BY <2>2, <2>3, <2>5 DEF Uncorrected
      <3>2. Cardinality(Uncorrected(b)') <= Cardinality(Uncorrected(b))
        BY <3>1, UncorrectedFinite, FS_Subset
      <3>3. job'[b] = job[b] /\ corrected'[b] = corrected[b] BY <2>1, <2>5
      <3> QED BY <1>0, <1>1, <3>2, <3>3, UncorrectedFinite
    <2> QED BY <2>4, <2>5
  <1>4. ASSUME NEW w \in Workers, RetrieveBatch(w)
        PROVE  corrected'[b] + Cardinality(Uncorrected(b)') <= job'[b].attempts
    <2>1. PICK c \in proc[w].todo, next \in {"retry", "finalise"} :
            /\ proc'[w] = [pc |-> next, todo |-> proc[w].todo \ {c}, batch |-> {c}]
            /\ \A v \in Workers : v # w => proc'[v] = proc[v]
            /\ UNCHANGED corrected
      BY <1>4 DEF RetrieveBatch, PollingTypeOK
    <2>2. \A v \in Workers : ToCorrect(v)' \subseteq ToCorrect(v) BY <2>1 DEF ToCorrect
    <2> QED BY <2>1, <2>2, NothingOpened
  <1>5. ASSUME NEW w \in Workers, ReplaceUsage(w)
        PROVE  corrected'[b] + Cardinality(Uncorrected(b)') <= job'[b].attempts
    <2>1. PICK pc \in {"token", "mark", "retry"} : JobGo(w, pc) /\ proc[w].pc = "finalise"
      BY <1>5 DEF ReplaceUsage, AfterUsage, JobAt
    <2>2. /\ proc'[w] = [proc[w] EXCEPT !.pc = pc]
          /\ \A v \in Workers : v # w => proc'[v] = proc[v]
      BY <2>1 DEF JobGo, PollingTypeOK
    <2>3. proc'[w].todo = proc[w].todo /\ proc'[w].batch = proc[w].batch
      BY <1>0, <2>2 DEF ProcType
    <2>4. \A v \in Workers : ToCorrect(v)' \subseteq ToCorrect(v) BY <2>1, <2>2, <2>3 DEF ToCorrect
    <2>5. UNCHANGED corrected BY <1>5 DEF ReplaceUsage
    <2> QED BY <2>4, <2>5, NothingOpened
  <1>6. ASSUME NEW w \in Workers, CorrectToken(w)
        PROVE  corrected'[b] + Cardinality(Uncorrected(b)') <= job'[b].attempts
    <2>1. PICK x \in Batches, n \in Attempts, done, ok \in BOOLEAN :
            /\ JobAt(w, "token", x, n)
            /\ corrected' = IF done THEN [corrected EXCEPT ![x] = @ + 1] ELSE corrected
            /\ JobGo(w, AfterToken(ok))
            /\ UNCHANGED <<provider, job, usageStatus>>
      BY <1>6 DEF CorrectToken
    <2>2. /\ proc'[w] = [proc[w] EXCEPT !.pc = AfterToken(ok)]
          /\ \A v \in Workers : v # w => proc'[v] = proc[v]
      BY <2>1 DEF JobGo, PollingTypeOK
    <2>3. /\ proc'[w].todo = proc[w].todo /\ proc'[w].batch = proc[w].batch
          /\ proc'[w].pc \in {"mark", "retry"}
      BY <1>0, <2>2 DEF ProcType, AfterToken
    <2>4. /\ ToCorrect(w) = proc[w].todo \cup {<<x, n>>} /\ ToCorrect(w)' = proc[w].todo
          /\ \A v \in Workers : v # w => ToCorrect(v)' = ToCorrect(v)
      BY <2>1, <2>2, <2>3 DEF ToCorrect, JobAt
    <2>5. CASE x # b \/ ~done
      <3>1. corrected'[b] = corrected[b] BY <2>1, <2>5 DEF PollingTypeOK
      <3>2. \A v \in Workers : ToCorrect(v)' \subseteq ToCorrect(v) BY <2>4
      <3> QED BY <3>1, <3>2, NothingOpened
    <2>6. CASE x = b /\ done
      <3>1. corrected'[b] = corrected[b] + 1 BY <2>1, <2>6 DEF PollingTypeOK
      <3>2. n \in Uncorrected(b) BY <2>4, <2>6 DEF Uncorrected
      <3>3. \A v \in Workers : <<b, n>> \notin ToCorrect(v)'
        <4>1. <<b, n>> \in Held(w) /\ <<b, n>> \notin proc[w].todo
          BY <2>1, <2>6 DEF JobAt, Held, CopiesInv
        <4>2. \A v \in Workers : v # w => <<b, n>> \notin Held(v)
          BY <4>1 DEF CopiesInv
        <4> QED BY <2>4, <4>1, <4>2 DEF ToCorrect, Held
      <3>4. Uncorrected(b)' \in SUBSET (Uncorrected(b) \ {n})
        BY <2>4, <3>3 DEF Uncorrected
      <3>5. /\ IsFiniteSet(Uncorrected(b) \ {n})
            /\ Cardinality(Uncorrected(b) \ {n}) = Cardinality(Uncorrected(b)) - 1
        BY <3>2, UncorrectedFinite, FS_RemoveElement
      <3>6. Cardinality(Uncorrected(b)') <= Cardinality(Uncorrected(b)) - 1
        BY <3>4, <3>5, FS_Subset
      <3> QED BY <1>0, <1>1, <2>1, <3>1, <3>6, UncorrectedFinite
    <2> QED BY <2>5, <2>6
  <1>7. ASSUME NEW w \in Workers,
               MarkEnded(w) \/ RecordFailedJob(w) \/ RecordReadinessDeniedJob(w)
        PROVE  corrected'[b] + Cardinality(Uncorrected(b)') <= job'[b].attempts
    <2>1. PICK x \in Batches, status \in Final \cup {"failed"} : Mark(w, x, status)
      BY <1>7, MarkSteps
    <2>2. proc' = [proc EXCEPT ![w] = [@ EXCEPT !.pc = "idle", !.batch = {}]]
      BY <2>1, MarkEffect
    <2>3. /\ proc'[w].todo = proc[w].todo /\ proc'[w].batch = {}
          /\ \A v \in Workers : v # w => proc'[v] = proc[v]
      BY <1>0, <2>2 DEF PollingTypeOK, ProcType
    <2>4. \A v \in Workers : ToCorrect(v)' \subseteq ToCorrect(v) BY <2>3 DEF ToCorrect
    <2>5. UNCHANGED corrected BY <2>1 DEF Mark
    <2> QED BY <2>4, <2>5, NothingOpened
  <1>8. ASSUME NEW w \in Workers, WorkerCrash(w)
        PROVE  corrected'[b] + Cardinality(Uncorrected(b)') <= job'[b].attempts
    <2>1. /\ proc'[w] = Idle /\ UNCHANGED corrected
          /\ \A v \in Workers : v # w => proc'[v] = proc[v]
      BY <1>8 DEF WorkerCrash, PollingTypeOK
    <2>2. \A v \in Workers : ToCorrect(v)' \subseteq ToCorrect(v) BY <2>1 DEF ToCorrect, Idle
    <2> QED BY <2>1, <2>2, NothingOpened
  <1> QED BY <1>2, <1>3, <1>4, <1>5, <1>6, <1>7, <1>8
          DEF PollingNext, Work, ProviderEnds, RegisterBatchPolling, Due, pollingVars

-----------------------------------------------------------------------------
(* Theorems                                                                 *)

\* The inductive invariant: copies are of counted attempts and held by one worker,
\* what a worker knows of a batch stays true, corrections are spent copies.
THEOREM PollingInvariant == PollingSpec => []PollingInv
PROOF
  <1>1. PollingInit => PollingInv
    BY InitType, InitJobs, InitCopies, InitProgress, InitCount, InitFinalised DEF PollingInv
  <1>2. PollingInv /\ [PollingNext]_pollingVars => PollingInv'
    BY StepType, StepJobs, StepCopies, StepProgress, StepCount, StepFinalised DEF PollingInv
  <1> QED BY <1>1, <1>2, PTL DEF PollingSpec

\* A job that ended was finalised or used up its attempts.
THEOREM EndsAreFinalised == PollingSpec => []EndIsFinalised
PROOF
  <1>1. PollingInv => EndIsFinalised BY DEF PollingInv
  <1> QED BY <1>1, PollingInvariant, PTL

\* The token of a batch is corrected at most once per attempt.
THEOREM CorrectionsCounted == PollingSpec => []CorrectionsAreCounted
PROOF
  <1>1. PollingInv => CorrectionsAreCounted
    <2> SUFFICES ASSUME PollingInv, NEW b \in Batches PROVE corrected[b] <= job[b].attempts
      BY DEF CorrectionsAreCounted
    <2>1. corrected[b] + Cardinality(Uncorrected(b)) <= job[b].attempts
      BY DEF PollingInv, CountInv
    <2>2. corrected[b] \in Nat /\ job[b].attempts \in Nat
      BY BoundsAssumption DEF PollingInv, PollingTypeOK, JobType
    <2> QED BY <2>1, <2>2, UncorrectedFinite
  <1> QED BY <1>1, PollingInvariant, PTL

\* No late mark changes a job that ended.
THEOREM EndsStay == PollingSpec => EndIsFinal
PROOF
  <1>1. PollingInv /\ [PollingNext]_pollingVars
          => [\A b \in Batches : job[b].status \in Final => job'[b] = job[b]]_pollingVars
    BY StepJobs DEF PollingInv
  <1> QED BY <1>1, PollingInvariant, PTL DEF PollingSpec, EndIsFinal

=============================================================================
