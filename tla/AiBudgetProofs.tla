-------------------------- MODULE AiBudgetProofs --------------------------
(***************************************************************************)
(* Theorems about AiBudget, for every set of calls, requests and periods,  *)
(* any amounts and alert thresholds and every bound.                       *)
(***************************************************************************)
EXTENDS AiBudget, SumTheorems

(***************************************************************************)
(* The inductive invariant.                                                *)
(***************************************************************************)

\* The costs of the requests, as the function whose values the counted ones add up.
Costs == [r \in Requests |-> r.cost]

Spent(p) == Total(Costs, past[p].since)

\* What has been counted since a reset that nothing straddled bounds every sum, also
\* those an open transaction has read and will write back plus its own cost.
Counts ==
  /\ \A p \in Periods : /\ IsFiniteSet(past[p].since)
                        /\ \A r \in past[p].since : r.id \in log
                        /\ limit[p].spent <= Spent(p)
  /\ \A c \in Calls :
       /\ \A p \in Periods : snap[c][p].spent <= Spent(p)
       /\ pc[c] # "commit" => snap[c] = Nothing

\* A limit once configured stays so; the scheduler and the transactions only work
\* on configured ones, whose terms are among those the status may rest on.
Configs ==
  /\ \A p \in Periods : IF limit[p].set THEN TermsOf(limit[p]) \in past[p].terms
                                        ELSE limit[p] = NoLimit
  /\ \A c \in Calls : \A p \in Periods :
       snap[c][p].set => limit[p].set /\ TermsOf(snap[c][p]) \in past[p].terms
  /\ \A job \in todo : limit[job.period].set

\* An alert leaves its cooldown behind, until the reset that forgets both.
Throttled ==
  /\ AlertsThrottled
  /\ \A p \in Periods : alerts[p] > 0 => limit[p].alerted

\* LocksAreEarned, on totals.
EarnedBy(spent, status, terms) ==
  /\ status # "ACTIVE" => \E t \in terms : spent >= alertAmount(t)
  /\ status = "HARD_LOCKED" => \E t \in terms : spent >= t.max

Earned ==
  \A p \in Periods :
    ~past[p].forced => EarnedBy(Spent(p), limit[p].status, past[p].terms)

IInv == TypeOK /\ Counts /\ Configs /\ Throttled /\ Earned

(***************************************************************************)
(* Lemmas on the data.                                                     *)
(***************************************************************************)

LEMMA NoLimitType == NoLimit \in Rows /\ Nothing \in [Periods -> Rows]
BY DEF NoLimit, Nothing, Rows, Statuses

LEMMA StatusType == \A s, t : nextStatus(s, t) \in Statuses
BY DEF nextStatus, Statuses

LEMMA TermsType ==
  ASSUME NEW t \in Terms
  PROVE  t.max \in Nat \ {0} /\ t.alert \in 0 .. 100 /\ t = [max |-> t.max, alert |-> t.alert]
BY BudgetConstants

LEMMA NewLimitType ==
  ASSUME NEW t \in Terms
  PROVE  /\ NewLimit(t) \in Rows /\ NewLimit(t).set /\ TermsOf(NewLimit(t)) = t
         /\ NewLimit(t).spent = 0 /\ ~NewLimit(t).alerted /\ ~NewLimit(t).expired
         /\ NewLimit(t).status = nextStatus(0, t) /\ NewLimit(t).max = t.max
<1>1. nextStatus(0, t) \in Statuses
  BY StatusType
<1> QED
  BY <1>1, TermsType DEF NewLimit, NoLimit, Rows, TermsOf

LEMMA RequestFacts ==
  ASSUME TypeOK, NEW c \in Calls
  PROVE  req[c].cost \in Nat /\ req[c] \in Requests
BY BudgetConstants DEF TypeOK

\* The alert amount of a limit is a natural number, and no more than all of it.
LEMMA AlertAmountBounded ==
  ASSUME NEW t \in Terms
  PROVE  alertAmount(t) \in Nat /\ alertAmount(t) <= t.max
<1>1. t.max \in Nat /\ t.alert \in 0 .. 100
  BY TermsType
<1>2. t.max * 100 = t.max * t.alert + t.max * (100 - t.alert)
  BY <1>1
<1>3. t.max * t.alert \in Nat /\ t.max * (100 - t.alert) \in Nat
  BY <1>1
<1>4. t.max * t.alert <= t.max * 100
  BY <1>1, <1>2, <1>3
<1>5. \A x, y \in Nat : x <= y * 100 => x \div 100 <= y /\ x \div 100 \in Nat
  OBVIOUS
<1> QED
  BY <1>1, <1>3, <1>4, <1>5 DEF alertAmount

\* A status is earned by the sum it is evaluated from, under any terms it may rest on,
\* and by every larger sum.
LEMMA StatusThreshold ==
  ASSUME NEW s \in Nat, NEW t \in Terms, NEW S \in SUBSET Terms, t \in S,
         NEW total \in Nat, s <= total
  PROVE  EarnedBy(total, nextStatus(s, t), S)
<1>1. t.max \in Nat /\ alertAmount(t) \in Nat /\ alertAmount(t) <= t.max
  BY AlertAmountBounded, TermsType
<1>2. nextStatus(s, t) # "ACTIVE" => total >= alertAmount(t)
  BY <1>1 DEF nextStatus
<1>3. nextStatus(s, t) = "HARD_LOCKED" => total >= t.max
  BY <1>1 DEF nextStatus
<1> QED
  BY <1>2, <1>3 DEF EarnedBy

\* What is earned stays so, for a larger sum and more terms.
LEMMA EarnedMonotone ==
  ASSUME NEW s \in Nat, NEW total \in Nat, s <= total, NEW status,
         NEW S \in SUBSET Terms, NEW T \in SUBSET Terms, S \subseteq T,
         EarnedBy(s, status, S)
  PROVE  EarnedBy(total, status, T)
<1>1. \A t \in S : alertAmount(t) \in Nat /\ t.max \in Nat
  BY AlertAmountBounded, TermsType
<1>2. ASSUME status # "ACTIVE" PROVE \E t \in T : total >= alertAmount(t)
  BY <1>1, <1>2 DEF EarnedBy
<1>3. ASSUME status = "HARD_LOCKED" PROVE \E t \in T : total >= t.max
  BY <1>1, <1>3 DEF EarnedBy
<1> QED
  BY <1>2, <1>3 DEF EarnedBy

LEMMA CostsAreNatural ==
  \A S \in SUBSET Requests : \A r \in S : Costs[r] \in Nat /\ Costs[r] \in Int
BY BudgetConstants DEF Costs

\* The totals are natural numbers: some sum, which is one, is below each.
LEMMA SpentNatural ==
  ASSUME TypeOK, Counts, NEW p \in Periods
  PROVE  Spent(p) \in Nat
<1>1. past[p].since \in SUBSET Requests /\ IsFiniteSet(past[p].since)
  BY DEF TypeOK, Counts
<1>2. Total(Costs, past[p].since) \in Int
  BY <1>1, CostsAreNatural, TotalType
<1>3. limit[p].spent \in Nat /\ limit[p].spent <= Spent(p)
  BY DEF TypeOK, Rows, Counts
<1> QED
  BY <1>2, <1>3 DEF Spent

(***************************************************************************)
(* Lemmas on the steps.                                                    *)
(***************************************************************************)

\* A change of a limit that leaves sum and cooldown alone and whose terms are recorded.
Keeps(p) ==
  /\ limit'[p].spent = limit[p].spent
  /\ limit'[p].alerted = limit[p].alerted
  /\ past'[p].since = past[p].since
  /\ past[p].terms \subseteq past'[p].terms
  /\ \/ limit'[p] = limit[p]
     \/ limit'[p].set /\ TermsOf(limit'[p]) \in past'[p].terms

PastType == [since : SUBSET Requests, terms : SUBSET Terms, forced : BOOLEAN]

LEMMA TermsGivenEffect ==
  ASSUME TypeOK, NEW p \in Periods, NEW t \in Terms, TermsGiven(p, t)
  PROVE  /\ past' \in [Periods -> PastType]
         /\ past'[p].terms = past[p].terms \cup {t}
         /\ past'[p].since = past[p].since /\ past'[p].forced = past[p].forced
         /\ \A q \in Periods : q # p => past'[q] = past[q]
<1>1. past[p] \in PastType /\ past \in [Periods -> PastType]
  BY DEF TypeOK, PastType
<1>2. past' = [past EXCEPT ![p] = [past[p] EXCEPT !.terms = past[p].terms \cup {t}]]
  BY <1>1 DEF TermsGiven, PastType
<1> DEFINE new == [past[p] EXCEPT !.terms = past[p].terms \cup {t}]
<1>3. /\ new \in PastType /\ new.terms = past[p].terms \cup {t}
      /\ new.since = past[p].since /\ new.forced = past[p].forced
  BY <1>1 DEF PastType
<1> HIDE DEF new
<1> QED
  BY <1>1, <1>2, <1>3 DEF new

\* An upsert leaves sum, cooldown and, for a limit that is there, the status alone.
LEMMA UpsertRow ==
  ASSUME TypeOK, Configs, NEW p \in Periods, NEW t \in Terms, Upsert(p, t)
  PROVE  /\ limit' \in [Periods -> Rows] /\ past' \in [Periods -> PastType]
         /\ \A q \in Periods :
              /\ Keeps(q)
              /\ past'[q].forced = past[q].forced
              /\ \/ limit'[q].status = limit[q].status
                 \/ limit'[q].status = nextStatus(0, t) /\ t \in past'[q].terms
         /\ limit'[p].set /\ TermsOf(limit'[p]) = t
         /\ \A q \in Periods : q # p => limit'[q] = limit[q]
<1> DEFINE row == IF limit[p].set
                    THEN [limit[p] EXCEPT !.max = t.max, !.alert = t.alert, !.expired = FALSE]
                    ELSE NewLimit(t)
<1>1. limit' = [limit EXCEPT ![p] = row]
  BY DEF Upsert
<1>2. limit[p] \in Rows
  BY DEF TypeOK
<1>3. /\ past' \in [Periods -> PastType]
      /\ past'[p].terms = past[p].terms \cup {t}
      /\ past'[p].since = past[p].since /\ past'[p].forced = past[p].forced
      /\ \A q \in Periods : q # p => past'[q] = past[q]
  BY TermsGivenEffect DEF Upsert
<1>4. /\ row \in Rows /\ row.spent = limit[p].spent /\ row.alerted = limit[p].alerted
      /\ row.set /\ TermsOf(row) = t
      /\ row.status = limit[p].status \/ row.status = nextStatus(0, t)
  <2>1. CASE limit[p].set
    BY <1>2, <2>1, TermsType DEF Rows, TermsOf
  <2>2. CASE ~limit[p].set
    <3>1. limit[p] = NoLimit
      BY <2>2 DEF Configs
    <3>2. NoLimit.spent = 0 /\ NoLimit.alerted = FALSE
      BY DEF NoLimit
    <3>3. row = NewLimit(t)
      BY <2>2
    <3>4. NewLimit(t).alerted \in BOOLEAN
      BY NewLimitType DEF Rows
    <3> QED
      BY <3>1, <3>2, <3>3, <3>4, NewLimitType
  <2> QED
    BY <2>1, <2>2
<1> HIDE DEF row
<1>5. limit'[p] = row /\ \A q \in Periods : q # p => limit'[q] = limit[q]
  BY <1>1 DEF TypeOK
<1>6. limit' \in [Periods -> Rows]
  BY <1>1, <1>4 DEF TypeOK
<1> QED
  BY <1>3, <1>4, <1>5, <1>6 DEF Keeps

\* Patch and Force: the terms, and with Force the status.
LEMMA PatchRow ==
  ASSUME TypeOK, NEW p \in Periods, limit[p].set, NEW t \in Terms,
         NEW status \in Statuses,
         limit' = [limit EXCEPT ![p] = [limit[p] EXCEPT !.max = t.max, !.alert = t.alert,
                                                        !.status = status]],
         past' \in [Periods -> PastType],
         past'[p].terms = past[p].terms \cup {t}, past'[p].since = past[p].since,
         \A q \in Periods : q # p => past'[q] = past[q]
  PROVE  /\ limit' \in [Periods -> Rows]
         /\ \A q \in Periods : Keeps(q)
         /\ limit'[p].status = status
         /\ \A q \in Periods : q # p => limit'[q] = limit[q]
<1>1. limit[p] \in Rows
  BY DEF TypeOK
<1> DEFINE row == [limit[p] EXCEPT !.max = t.max, !.alert = t.alert, !.status = status]
<1>2. /\ row \in Rows /\ row.spent = limit[p].spent /\ row.alerted = limit[p].alerted
      /\ row.set /\ TermsOf(row) = t /\ row.status = status
  BY <1>1, TermsType DEF Rows, TermsOf
<1> HIDE DEF row
<1>3. limit' = [limit EXCEPT ![p] = row]
  BY DEF row
<1>4. limit'[p] = row /\ \A q \in Periods : q # p => limit'[q] = limit[q]
  BY <1>3 DEF TypeOK
<1>5. limit' \in [Periods -> Rows]
  BY <1>2, <1>3 DEF TypeOK
<1> QED
  BY <1>2, <1>4, <1>5 DEF Keeps

\* Sums that do not grow, in a step that counts nothing.
LEMMA CountsKept ==
  ASSUME TypeOK, Counts, log \subseteq log',
         \A p \in Periods : /\ past'[p].since = past[p].since
                            /\ limit'[p].spent \in {0, limit[p].spent},
         \A c \in Calls : /\ snap'[c] \in {snap[c], Nothing, limit}
                          /\ pc'[c] # "commit" => snap'[c] = Nothing
  PROVE  Counts'
<1>1. \A p \in Periods : Spent(p)' = Spent(p)
  BY DEF Spent
<1>2. \A p \in Periods : Spent(p) \in Nat
  BY SpentNatural
<1>3. \A p \in Periods : Nothing[p].spent = 0
  BY DEF Nothing, NoLimit
<1>4. \A p \in Periods : limit'[p].spent <= Spent(p)
  BY <1>2 DEF Counts
<1>5. \A c \in Calls : \A p \in Periods : snap'[c][p].spent <= Spent(p)
  BY <1>2, <1>3 DEF Counts
<1>6. \A p \in Periods : /\ IsFiniteSet(past'[p].since)
                         /\ \A r \in past'[p].since : r.id \in log'
  BY DEF Counts
<1> QED
  BY <1>1, <1>4, <1>5, <1>6 DEF Counts

LEMMA ConfigsKept ==
  ASSUME TypeOK, Configs, todo' \subseteq todo,
         \A p \in Periods : /\ past[p].terms \subseteq past'[p].terms
                            /\ \/ limit'[p] = limit[p]
                               \/ limit'[p].set /\ TermsOf(limit'[p]) \in past'[p].terms,
         \A c \in Calls : snap'[c] \in {snap[c], Nothing, limit}
  PROVE  Configs'
<1>1. \A p \in Periods : limit[p].set => limit'[p].set
  OBVIOUS
<1>2. \A p \in Periods : IF limit'[p].set THEN TermsOf(limit'[p]) \in past'[p].terms
                                           ELSE limit'[p] = NoLimit
  BY DEF Configs
<1>3. \A p \in Periods : ~ Nothing[p].set
  BY DEF Nothing, NoLimit
<1>4. \A c \in Calls : \A p \in Periods :
        snap'[c][p].set => limit[p].set /\ TermsOf(snap'[c][p]) \in past'[p].terms
  BY <1>3 DEF Configs
<1>5. \A job \in todo' : limit[job.period].set /\ job.period \in Periods
  BY DEF Configs, TypeOK
<1> QED
  BY <1>1, <1>2, <1>4, <1>5 DEF Configs, TermsOf

LEMMA ThrottledKept ==
  ASSUME TypeOK, Throttled,
         \A p \in Periods :
           \/ alerts'[p] = 0
           \/ alerts'[p] = alerts[p] /\ (limit[p].alerted => limit'[p].alerted)
  PROVE  Throttled'
<1>1. ASSUME NEW p \in Periods
      PROVE  alerts'[p] <= 1 /\ (alerts'[p] > 0 => limit'[p].alerted)
  <2>1. CASE alerts'[p] = 0
    BY <2>1
  <2>2. CASE alerts'[p] = alerts[p] /\ (limit[p].alerted => limit'[p].alerted)
    BY <2>2 DEF Throttled, AlertsThrottled
  <2> QED
    BY <2>1, <2>2
<1> QED
  BY <1>1 DEF Throttled, AlertsThrottled

\* A status that stays, is evaluated from no sum at all, or is forced.
LEMMA EarnedKept ==
  ASSUME TypeOK, Counts, Earned,
         \A p \in Periods :
           /\ past'[p].since = past[p].since
           /\ past[p].terms \subseteq past'[p].terms /\ past'[p].terms \subseteq Terms
           /\ \/ past'[p].forced
              \/ past'[p].forced = past[p].forced /\ limit'[p].status = limit[p].status
              \/ \E t \in past'[p].terms : limit'[p].status = nextStatus(0, t)
  PROVE  Earned'
<1> SUFFICES ASSUME NEW p \in Periods, ~past'[p].forced
             PROVE  EarnedBy(Spent(p), limit'[p].status, past'[p].terms)
  BY DEF Earned, EarnedBy, Spent, alertAmount
<1>1. Spent(p) \in Nat /\ past[p].terms \in SUBSET Terms /\ past'[p].terms \in SUBSET Terms
  BY SpentNatural DEF TypeOK
<1>2. CASE past'[p].forced = past[p].forced /\ limit'[p].status = limit[p].status
  <2>1. EarnedBy(Spent(p), limit[p].status, past[p].terms)
    BY <1>2 DEF Earned
  <2> QED
    BY <1>1, <1>2, <2>1, EarnedMonotone
<1>3. CASE \E t \in past'[p].terms : limit'[p].status = nextStatus(0, t)
  BY <1>1, <1>3, StatusThreshold
<1> QED
  BY <1>2, <1>3

LEMMA GotoType ==
  ASSUME TypeOK, NEW c \in Calls, NEW label \in PCs, Goto(c, label)
  PROVE  /\ pc' \in [Calls -> PCs] /\ pc'[c] = label
         /\ \A d \in Calls : d # c => pc'[d] = pc[d]
BY DEF TypeOK, Goto

LEMMA ForgetSnap ==
  ASSUME TypeOK, NEW c \in Calls, Forget(c)
  PROVE  /\ snap' \in [Calls -> [Periods -> Rows]]
         /\ snap'[c] = Nothing /\ \A d \in Calls : d # c => snap'[d] = snap[d]
BY NoLimitType DEF TypeOK, Forget

(***************************************************************************)
(* The invariant holds initially.                                          *)
(***************************************************************************)

LEMMA InitIInv == Init => IInv
<1> SUFFICES ASSUME Init PROVE IInv
  OBVIOUS
<1>1. PICK configured \in SUBSET Periods :
        /\ limit = [p \in Periods |-> IF p \in configured THEN NewLimit(DefaultTerms)
                                                          ELSE NoLimit]
        /\ past = [p \in Periods |->
                     [since |-> {}, forced |-> FALSE,
                      terms |-> IF p \in configured THEN {DefaultTerms} ELSE {}]]
  BY DEF Init
<1>2. DefaultTerms \in Terms
  BY BudgetConstants
<1>3. TypeOK
  <2>1. limit \in [Periods -> Rows]
    BY <1>1, <1>2, NewLimitType, NoLimitType
  <2>2. snap \in [Calls -> [Periods -> Rows]]
    BY NoLimitType DEF Init, Nothing
  <2>3. ended \in 0 .. Expirations /\ ops \in 0 .. AdminOps /\ tries \in [Calls -> 0 .. MaxRetry]
    BY BudgetConstants DEF Init
  <2>4. past \in [Periods -> [since : SUBSET Requests, terms : SUBSET Terms, forced : BOOLEAN]]
    BY <1>1, <1>2
  <2> QED
    BY <2>1, <2>2, <2>3, <2>4 DEF Init, TypeOK, PCs
<1>4. ASSUME NEW p \in Periods
      PROVE  /\ limit[p].spent = 0
             /\ IF limit[p].set THEN /\ TermsOf(limit[p]) \in past[p].terms
                                     /\ limit[p].status = nextStatus(0, DefaultTerms)
                                     /\ past[p].terms = {DefaultTerms}
                                ELSE limit[p] = NoLimit
             /\ past[p].since = {}
  <2>1. CASE p \in configured
    BY <1>1, <1>2, <2>1, NewLimitType
  <2>2. CASE p \notin configured
    BY <1>1, <2>2 DEF NoLimit
  <2> QED
    BY <2>1, <2>2
<1>5. \A c \in Calls : \A p \in Periods : snap[c][p].spent = 0 /\ ~ snap[c][p].set
  BY DEF Init, NoLimit
<1>6. \A p \in Periods : Spent(p) = 0
  BY <1>4, TotalEmpty DEF Spent
<1>7. Counts
  <2>1. \A c \in Calls : snap[c] = Nothing
    BY DEF Init, Nothing
  <2>2. \A p \in Periods : /\ IsFiniteSet(past[p].since)
                           /\ \A r \in past[p].since : r.id \in log
                           /\ limit[p].spent <= Spent(p)
    <3> SUFFICES ASSUME NEW p \in Periods
                 PROVE  /\ IsFiniteSet(past[p].since)
                        /\ \A r \in past[p].since : r.id \in log
                        /\ limit[p].spent <= Spent(p)
      OBVIOUS
    <3>1. past[p].since = {} /\ limit[p].spent = 0 /\ Spent(p) = 0
      BY <1>4, <1>6
    <3>2. IsFiniteSet(past[p].since)
      BY <3>1, FS_EmptySet
    <3> QED
      BY <3>1, <3>2
  <2>3. \A c \in Calls : \A p \in Periods : snap[c][p].spent <= Spent(p)
    BY <1>5, <1>6
  <2> QED
    BY <2>1, <2>2, <2>3 DEF Counts
<1>8. Configs
  BY <1>4, <1>5 DEF Init, Configs
<1>9. Throttled
  BY DEF Init, Throttled, AlertsThrottled
<1>10. ASSUME NEW p \in Periods PROVE EarnedBy(Spent(p), limit[p].status, past[p].terms)
  <2>1. CASE limit[p].set
    BY <1>2, <1>4, <1>6, <2>1, StatusThreshold
  <2>2. CASE ~limit[p].set
    BY <1>4, <2>2 DEF EarnedBy, NoLimit
  <2> QED
    BY <2>1, <2>2
<1> QED
  BY <1>3, <1>7, <1>8, <1>9, <1>10 DEF IInv, Earned

(***************************************************************************)
(* Every step preserves it.                                                *)
(***************************************************************************)

\* The row a commit writes: the sum that was read plus the cost, the evaluated
\* status unless it is the one that was read, and the alert's cooldown.
LEMMA UpdatedRow ==
  ASSUME IInv, NEW c \in Calls, NEW p \in Periods, p \in Configured(snap[c])
  PROVE  /\ Updated(c, p) \in Rows
         /\ Updated(c, p).spent = snap[c][p].spent + req[c].cost
         /\ Updated(c, p).status =
              IF changed(c, p)
                THEN nextStatus(snap[c][p].spent + req[c].cost, TermsOf(snap[c][p]))
                ELSE limit[p].status
         /\ Updated(c, p).alerted <=> (limit[p].alerted \/ Alerts(c, p))
         /\ Updated(c, p).set /\ TermsOf(Updated(c, p)) = TermsOf(limit[p])
         /\ Updated(c, p).expired = limit[p].expired
         /\ limit[p].set /\ TermsOf(limit[p]) \in past[p].terms
         /\ TermsOf(snap[c][p]) \in past[p].terms
<1> DEFINE spent == snap[c][p].spent + req[c].cost
           status == IF changed(c, p) THEN evaluate(c, p) ELSE limit[p].status
           alerted == limit[p].alerted \/ Alerts(c, p)
<1>1. limit[p] \in Rows /\ snap[c][p] \in Rows /\ req[c].cost \in Nat
  BY RequestFacts DEF IInv, TypeOK
<1>2. spent \in Nat
  BY <1>1 DEF Rows
<1>3. status \in Statuses /\ evaluate(c, p) = nextStatus(spent, TermsOf(snap[c][p]))
  BY <1>1, StatusType DEF evaluate, currentSpent, Rows
<1>4. alerted \in BOOLEAN
  OBVIOUS
<1>5. Updated(c, p) = [limit[p] EXCEPT !.spent = spent, !.status = status,
                                       !.alerted = alerted]
  BY DEF Updated, currentSpent
<1>6. /\ limit[p].set /\ TermsOf(limit[p]) \in past[p].terms
      /\ TermsOf(snap[c][p]) \in past[p].terms
  BY DEF IInv, Configs, Configured
<1> HIDE DEF spent, alerted
<1>7. status = IF changed(c, p) THEN nextStatus(spent, TermsOf(snap[c][p]))
                                ELSE limit[p].status
  BY <1>3
<1> HIDE DEF status
<1>8. /\ Updated(c, p) \in Rows /\ Updated(c, p).spent = spent
      /\ Updated(c, p).status = status /\ Updated(c, p).alerted = alerted
      /\ Updated(c, p).set = limit[p].set /\ TermsOf(Updated(c, p)) = TermsOf(limit[p])
      /\ Updated(c, p).expired = limit[p].expired
  BY <1>1, <1>2, <1>3, <1>4, <1>5 DEF Rows, TermsOf
<1>9. Updated(c, p).alerted <=> (limit[p].alerted \/ Alerts(c, p))
  BY <1>8 DEF alerted
<1> QED
  BY <1>6, <1>7, <1>8, <1>9 DEF spent

\* A commit that is not a duplicate counts its request in every limit it read.
LEMMA CommitPast ==
  ASSUME IInv, NEW c \in Calls, Commit(c), LogIsNew(c), NEW p \in Periods
  PROVE  IF p \in Configured(snap[c])
           THEN /\ past'[p] \in PastType
                /\ past'[p].since = past[p].since \cup {req[c]}
                /\ past'[p].terms = past[p].terms
                /\ past'[p].forced <=> past[p].forced /\ ~changed(c, p)
                /\ limit'[p] = Updated(c, p)
                /\ Spent(p)' = req[c].cost + Spent(p)
           ELSE past'[p] = past[p] /\ limit'[p] = limit[p] /\ Spent(p)' = Spent(p)
<1>1. /\ limit' = [q \in Periods |-> IF q \in Configured(snap[c]) THEN Updated(c, q)
                                                                  ELSE limit[q]]
      /\ past' = [q \in Periods |-> IF q \in Configured(snap[c]) THEN Counted(c, q)
                                                                 ELSE past[q]]
  BY DEF Commit
<1>2. CASE p \notin Configured(snap[c])
  BY <1>1, <1>2 DEF Spent
<1>3. CASE p \in Configured(snap[c])
  <2> DEFINE forced == past[p].forced /\ ~changed(c, p)
  <2>1. past[p] \in PastType /\ forced \in BOOLEAN /\ req[c] \in Requests /\ req[c].cost \in Nat
    BY RequestFacts DEF IInv, TypeOK, PastType
  <2>2. past'[p] = [past[p] EXCEPT !.since = past[p].since \cup {req[c]}, !.forced = forced]
    BY <1>1, <1>3, <2>1 DEF Counted, PastType
  <2>3. forced <=> past[p].forced /\ ~changed(c, p)
    OBVIOUS
  <2> HIDE DEF forced
  <2>4. /\ past'[p] \in PastType /\ past'[p].since = past[p].since \cup {req[c]}
        /\ past'[p].terms = past[p].terms /\ past'[p].forced = forced
    BY <2>1, <2>2 DEF PastType
  <2>5. /\ past[p].since \in SUBSET Requests /\ IsFiniteSet(past[p].since)
        /\ req[c] \notin past[p].since
    BY <2>1 DEF IInv, Counts, LogIsNew, PastType
  <2>6. \A r \in past[p].since \cup {req[c]} : Costs[r] \in Int
    BY <2>1, <2>5, CostsAreNatural
  <2>7. Total(Costs, past[p].since \cup {req[c]}) = Costs[req[c]] + Total(Costs, past[p].since)
    BY <2>5, <2>6, TotalAdd
  <2>8. Costs[req[c]] = req[c].cost
    BY <2>1 DEF Costs
  <2>9. Spent(p)' = req[c].cost + Spent(p)
    BY <2>4, <2>7, <2>8 DEF Spent
  <2> QED
    BY <1>1, <1>3, <2>3, <2>4, <2>9
<1> QED
  BY <1>2, <1>3

LEMMA CommitCounts ==
  ASSUME IInv, NEW c \in Calls, Commit(c), LogIsNew(c)
  PROVE  IInv'
<1>1. /\ limit' = [p \in Periods |-> IF p \in Configured(snap[c]) THEN Updated(c, p)
                                                                  ELSE limit[p]]
      /\ alerts' = [p \in Periods |-> IF p \in Configured(snap[c]) /\ Alerts(c, p)
                                        THEN alerts[p] + 1 ELSE alerts[p]]
      /\ log' = log \cup {req[c].id}
      /\ past' = [p \in Periods |-> IF p \in Configured(snap[c]) THEN Counted(c, p)
                                                                 ELSE past[p]]
      /\ Goto(c, "done") /\ Forget(c)
      /\ UNCHANGED <<req, tries, todo, ended, ops>>
  BY DEF Commit
<1>2. /\ snap' \in [Calls -> [Periods -> Rows]]
      /\ snap'[c] = Nothing /\ \A d \in Calls : d # c => snap'[d] = snap[d]
  BY <1>1, ForgetSnap DEF IInv
<1>3. /\ pc' \in [Calls -> PCs] /\ pc'[c] = "done"
      /\ \A d \in Calls : d # c => pc'[d] = pc[d]
  BY <1>1, GotoType DEF IInv, PCs
<1>4. TypeOK'
  <2>1. limit' \in [Periods -> Rows]
    BY <1>1, UpdatedRow DEF IInv, TypeOK
  <2>2. alerts' \in [Periods -> Nat]
    BY <1>1 DEF IInv, TypeOK
  <2>3. past' \in [Periods -> PastType]
    <3>1. \A p \in Periods : past'[p] \in PastType
      BY CommitPast DEF IInv, TypeOK, PastType
    <3> QED
      BY <1>1, <3>1
  <2>4. log' \subseteq {r.id : r \in Requests}
    BY <1>1, RequestFacts DEF IInv, TypeOK
  <2> QED
    BY <1>1, <1>2, <1>3, <2>1, <2>2, <2>3, <2>4 DEF IInv, TypeOK, PastType
<1>5. req[c].cost \in Nat /\ \A p \in Periods : Spent(p) \in Nat
  BY SpentNatural, RequestFacts DEF IInv
<1>6. Counts'
  <2>1. ASSUME NEW p \in Periods
        PROVE  /\ IsFiniteSet(past'[p].since)
               /\ \A r \in past'[p].since : r.id \in log'
    <3>1. IsFiniteSet(past[p].since) /\ \A r \in past[p].since : r.id \in log
      BY DEF IInv, Counts
    <3>2. past'[p].since \in {past[p].since, past[p].since \cup {req[c]}}
      BY CommitPast
    <3>3. IsFiniteSet(past'[p].since)
      BY <3>1, <3>2, FS_AddElement
    <3>4. ASSUME NEW r \in past'[p].since PROVE r.id \in log'
      BY <1>1, <3>1, <3>2
    <3> QED
      BY <3>3, <3>4
  <2>2. \A d \in Calls : \A p \in Periods :
          snap[d][p].spent \in Nat /\ snap[d][p].spent <= Spent(p)
    BY DEF IInv, TypeOK, Counts, Rows
  <2>3. ASSUME NEW p \in Periods PROVE limit'[p].spent <= Spent(p)'
    <3>1. limit[p].spent \in Nat /\ limit[p].spent <= Spent(p)
      BY DEF IInv, TypeOK, Counts, Rows
    <3>2. CASE p \in Configured(snap[c])
      <4>1. limit'[p].spent = snap[c][p].spent + req[c].cost
        BY <3>2, CommitPast, UpdatedRow
      <4>2. Spent(p)' = req[c].cost + Spent(p)
        BY <3>2, CommitPast
      <4> QED
        BY <1>5, <2>2, <4>1, <4>2
    <3>3. CASE p \notin Configured(snap[c])
      BY <3>1, <3>3, CommitPast
    <3> QED
      BY <3>2, <3>3
  <2>4. ASSUME NEW p \in Periods PROVE Spent(p)' \in Nat /\ Spent(p) <= Spent(p)'
    BY <1>5, CommitPast
  <2>5. ASSUME NEW d \in Calls, NEW p \in Periods PROVE snap'[d][p].spent <= Spent(p)'
    <3>1. Nothing[p].spent = 0
      BY DEF Nothing, NoLimit
    <3> QED
      BY <1>2, <1>5, <2>2, <2>4, <3>1
  <2>6. \A d \in Calls : pc'[d] # "commit" => snap'[d] = Nothing
    BY <1>2, <1>3 DEF IInv, Counts
  <2> QED
    BY <2>1, <2>3, <2>5, <2>6 DEF Counts
<1>7. Configs'
  <2>1. ASSUME NEW p \in Periods
        PROVE  /\ past[p].terms \subseteq past'[p].terms
               /\ \/ limit'[p] = limit[p]
                  \/ limit'[p].set /\ TermsOf(limit'[p]) \in past'[p].terms
    BY CommitPast, UpdatedRow
  <2>2. \A d \in Calls : snap'[d] \in {snap[d], Nothing, limit}
    BY <1>2
  <2> QED
    BY <1>1, <2>1, <2>2, ConfigsKept DEF IInv
<1>8. Throttled'
  <2>1. ASSUME NEW p \in Periods
        PROVE  alerts'[p] <= 1 /\ (alerts'[p] > 0 => limit'[p].alerted)
    <3>1. /\ alerts[p] \in Nat /\ alerts[p] <= 1 /\ (alerts[p] > 0 => limit[p].alerted)
      BY DEF IInv, TypeOK, Throttled, AlertsThrottled
    <3>2. CASE p \notin Configured(snap[c])
      BY <1>1, <3>1, <3>2
    <3>3. CASE p \in Configured(snap[c]) /\ Alerts(c, p)
      <4>1. ~ limit[p].alerted
        BY <3>3 DEF Alerts
      <4>2. limit'[p].alerted
        BY <1>1, <3>3, UpdatedRow
      <4>3. alerts'[p] = alerts[p] + 1
        BY <1>1, <3>3
      <4>4. alerts[p] = 0
        BY <3>1, <4>1
      <4> QED
        BY <4>2, <4>3, <4>4
    <3>4. CASE p \in Configured(snap[c]) /\ ~ Alerts(c, p)
      <4>1. limit[p].alerted => limit'[p].alerted
        BY <1>1, <3>4, UpdatedRow
      <4>2. alerts'[p] = alerts[p]
        BY <1>1, <3>4
      <4> QED
        BY <3>1, <4>1, <4>2
    <3> QED
      BY <3>2, <3>3, <3>4
  <2> QED
    BY <2>1 DEF Throttled, AlertsThrottled
<1>9. ASSUME NEW p \in Periods, ~past'[p].forced
      PROVE  EarnedBy(Spent(p)', limit'[p].status, past'[p].terms)
  <2>1. /\ past[p].terms \in SUBSET Terms /\ Spent(p) \in Nat /\ Spent(p)' \in Nat
        /\ Spent(p) <= Spent(p)' /\ past'[p].terms = past[p].terms
    BY <1>5, CommitPast DEF IInv, TypeOK
  <2>2. CASE limit'[p].status = limit[p].status /\ past'[p].forced = past[p].forced
    <3>1. EarnedBy(Spent(p), limit[p].status, past[p].terms)
      BY <1>9, <2>2 DEF IInv, Earned
    <3> QED
      BY <2>1, <2>2, <3>1, EarnedMonotone
  <2>3. CASE p \in Configured(snap[c]) /\ changed(c, p)
    <3> DEFINE spent == snap[c][p].spent + req[c].cost
    <3>1. snap[c][p].spent \in Nat /\ snap[c][p].spent <= Spent(p)
      BY DEF IInv, TypeOK, Counts, Rows
    <3>2. /\ limit'[p].status = nextStatus(spent, TermsOf(snap[c][p]))
          /\ TermsOf(snap[c][p]) \in past[p].terms
      BY <2>3, CommitPast, UpdatedRow
    <3>3. spent \in Nat /\ spent <= Spent(p)'
      BY <1>5, <2>3, <3>1, CommitPast
    <3> HIDE DEF spent
    <3>4. TermsOf(snap[c][p]) \in Terms
      BY <2>1, <3>2
    <3> QED
      BY <2>1, <3>2, <3>3, <3>4, StatusThreshold
  <2>4. CASE p \in Configured(snap[c]) /\ ~changed(c, p)
    <3>1. past'[p].forced \in BOOLEAN /\ past[p].forced \in BOOLEAN
      BY <1>4 DEF IInv, TypeOK
    <3> QED
      BY <2>2, <2>4, <3>1, CommitPast, UpdatedRow
  <2>5. CASE p \notin Configured(snap[c])
    BY <2>2, <2>5, CommitPast
  <2> QED
    BY <2>3, <2>4, <2>5
<1>10. Earned'
  BY <1>9 DEF Earned, EarnedBy, alertAmount
<1> QED
  BY <1>4, <1>6, <1>7, <1>8, <1>10 DEF IInv

\* A reset that no accumulation straddles starts the count again, and no transaction
\* is left that could bring the old sum back.
LEMMA ResetCounts ==
  ASSUME IInv, NEW job \in todo, Reset(job)
  PROVE  IInv'
<1> USE DEF IInv
<1>1. PICK p \in Periods : p = job.period
  BY DEF TypeOK
<1> DEFINE row == AfterReset(limit[p], job.terms)
           new == [since  |-> IF Straddled THEN past[p].since ELSE {},
                   terms  |-> {job.terms, TermsOf(limit[p])} \cup
                                (IF Straddled THEN past[p].terms ELSE {}),
                   forced |-> FALSE]
<1>2. /\ todo' = todo \ {job}
      /\ limit' = [limit EXCEPT ![p] = row]
      /\ alerts' = [alerts EXCEPT ![p] = 0]
      /\ UNCHANGED <<log, pc, req, snap, tries, ended, ops>>
  BY <1>1 DEF Reset
<1>3. past' = [past EXCEPT ![p] = new]
  BY <1>1 DEF Reset, TypeOK
<1>4. job.terms \in Terms
  BY DEF TypeOK
<1>5. limit[p] \in Rows /\ limit[p].set /\ TermsOf(limit[p]) \in past[p].terms
  BY <1>1 DEF TypeOK, Configs
<1>6. past[p] \in PastType
  BY DEF TypeOK, PastType
<1>7. /\ row \in Rows /\ row.spent = 0 /\ row.status = nextStatus(0, job.terms)
      /\ row.set /\ TermsOf(row) = TermsOf(limit[p])
  BY <1>5, StatusType DEF Rows, AfterReset, TermsOf
<1>8. /\ new \in PastType /\ new.since = IF Straddled THEN past[p].since ELSE {}
      /\ job.terms \in new.terms /\ TermsOf(limit[p]) \in new.terms
      /\ (Straddled => past[p].terms \subseteq new.terms) /\ ~new.forced
  BY <1>4, <1>5, <1>6 DEF PastType
<1> HIDE DEF row, new
<1>9. /\ limit'[p] = row /\ \A q \in Periods : q # p => limit'[q] = limit[q]
      /\ past'[p] = new /\ \A q \in Periods : q # p => past'[q] = past[q]
      /\ alerts'[p] = 0 /\ \A q \in Periods : q # p => alerts'[q] = alerts[q]
  BY <1>2, <1>3 DEF TypeOK
<1>10. TypeOK'
  <2>1. limit' \in [Periods -> Rows] /\ past' \in [Periods -> PastType]
    BY <1>2, <1>3, <1>7, <1>8 DEF TypeOK, PastType
  <2>2. alerts' \in [Periods -> Nat]
    BY <1>2 DEF TypeOK
  <2> QED
    BY <1>2, <2>1, <2>2 DEF TypeOK, PastType
<1>11. Throttled'
  BY <1>9, ThrottledKept
<1>12. ASSUME NEW q \in Periods, q # p PROVE Spent(q)' = Spent(q)
  BY <1>9, <1>12 DEF Spent
<1>13. Spent(p)' \in Nat
  <2>1. CASE Straddled
    BY <1>8, <1>9, <2>1, SpentNatural DEF Spent
  <2>2. CASE ~Straddled
    BY <1>8, <1>9, <2>2, TotalEmpty DEF Spent
  <2> QED
    BY <2>1, <2>2
<1>14. Counts' /\ Configs'
  <2>1. ASSUME NEW d \in Calls
        PROVE  /\ snap'[d][p].spent <= Spent(p)'
               /\ snap'[d][p].set => TermsOf(snap'[d][p]) \in past'[p].terms
    <3>1. CASE Straddled
      <4>1. Spent(p)' = Spent(p)
        BY <1>8, <1>9, <3>1 DEF Spent
      <4> QED
        BY <1>2, <1>8, <1>9, <3>1, <4>1 DEF Counts, Configs
    <3>2. CASE ~Straddled
      <4>1. snap[d] = Nothing
        BY <3>2 DEF Straddled, Counts
      <4>2. Nothing[p].spent = 0 /\ ~Nothing[p].set
        BY DEF Nothing, NoLimit
      <4> QED
        BY <1>2, <1>13, <4>1, <4>2
    <3> QED
      BY <3>1, <3>2
  <2>2. /\ IsFiniteSet(past'[p].since)
        /\ \A r \in past'[p].since : r.id \in log'
    BY <1>2, <1>8, <1>9, FS_EmptySet DEF Counts
  <2>3. limit'[p].spent <= Spent(p)'
    BY <1>7, <1>9, <1>13
  <2>4. ASSUME NEW q \in Periods
        PROVE  /\ IsFiniteSet(past'[q].since)
               /\ \A r \in past'[q].since : r.id \in log'
               /\ limit'[q].spent <= Spent(q)'
               /\ \A d \in Calls : snap'[d][q].spent <= Spent(q)'
    BY <1>2, <1>9, <1>12, <2>1, <2>2, <2>3 DEF Counts
  <2>5. Counts'
    BY <1>2, <2>4 DEF Counts
  <2>6. ASSUME NEW q \in Periods
        PROVE  /\ IF limit'[q].set THEN TermsOf(limit'[q]) \in past'[q].terms
                                   ELSE limit'[q] = NoLimit
               /\ limit[q].set => limit'[q].set
               /\ \A d \in Calls : snap'[d][q].set =>
                    limit'[q].set /\ TermsOf(snap'[d][q]) \in past'[q].terms
    BY <1>2, <1>7, <1>8, <1>9, <2>1 DEF Configs
  <2>7. \A other \in todo' : limit'[other.period].set
    BY <1>2, <2>6 DEF Configs, TypeOK
  <2> QED
    BY <2>5, <2>6, <2>7 DEF Configs, TermsOf
<1>15. ASSUME NEW q \in Periods, ~past'[q].forced
       PROVE  EarnedBy(Spent(q)', limit'[q].status, past'[q].terms)
  <2>1. CASE q = p
    <3>1. past'[p].terms \in SUBSET Terms /\ job.terms \in past'[p].terms
      BY <1>8, <1>9 DEF PastType
    <3>2. 0 \in Nat /\ 0 <= Spent(p)'
      BY <1>13
    <3> QED
      BY <1>4, <1>7, <1>9, <1>13, <2>1, <3>1, <3>2, StatusThreshold
  <2>2. CASE q # p
    BY <1>9, <1>12, <1>15, <2>2 DEF Earned
  <2> QED
    BY <2>1, <2>2
<1>16. Earned'
  BY <1>15 DEF Earned, EarnedBy, alertAmount
<1> QED
  BY <1>10, <1>11, <1>14, <1>16

LEMMA StepIInv == IInv /\ [Next]_vars => IInv'
<1> SUFFICES ASSUME IInv, [Next]_vars PROVE IInv'
  OBVIOUS
<1> USE DEF IInv
\* Steps of a call that leave the limits and the log alone.
<1>1. ASSUME NEW c \in Calls, NEW label \in PCs, Goto(c, label),
             snap' \in [Calls -> [Periods -> Rows]],
             \A d \in Calls : d # c => snap'[d] = snap[d],
             \/ snap'[c] = Nothing
             \/ snap'[c] = snap[c] /\ pc[c] # "commit"
             \/ snap'[c] = limit /\ label = "commit",
             tries' \in [Calls -> 0 .. MaxRetry],
             UNCHANGED <<limit, log, alerts, req, todo, past, ended, ops>>
      PROVE  IInv'
  <2>1. /\ pc' \in [Calls -> PCs] /\ pc'[c] = label
        /\ \A d \in Calls : d # c => pc'[d] = pc[d]
    BY <1>1, GotoType
  <2>2. TypeOK'
    BY <1>1, <2>1 DEF TypeOK
  <2>3. \A d \in Calls : /\ snap'[d] \in {snap[d], Nothing, limit}
                         /\ pc'[d] # "commit" => snap'[d] = Nothing
    BY <1>1, <2>1 DEF Counts
  <2>4. \A p \in Periods : past[p].terms \subseteq Terms
    BY DEF TypeOK
  <2> QED
    BY <1>1, <2>2, <2>3, <2>4, CountsKept, ConfigsKept, ThrottledKept, EarnedKept
\* Steps that only change the terms, the window or the status of limits.
<1>2. ASSUME limit' \in [Periods -> Rows], past' \in [Periods -> PastType],
             \A p \in Periods :
               /\ Keeps(p)
               /\ \/ past'[p].forced
                  \/ past'[p].forced = past[p].forced /\ limit'[p].status = limit[p].status
                  \/ \E t \in past'[p].terms : limit'[p].status = nextStatus(0, t),
             \A d \in Calls : pc'[d] # "commit" => pc[d] # "commit",
             TypeOK', UNCHANGED <<log, alerts, req, snap, todo>>
      PROVE  IInv'
  <2>1. \A d \in Calls : pc'[d] # "commit" => snap'[d] = Nothing
    BY <1>2 DEF Counts
  <2>2. Counts'
    BY <1>2, <2>1, CountsKept DEF Keeps
  <2>3. Configs'
    BY <1>2, ConfigsKept DEF Keeps
  <2>4. Throttled'
    BY <1>2, ThrottledKept DEF Keeps
  <2>5. \A p \in Periods : past'[p].terms \subseteq Terms
    BY <1>2 DEF PastType
  <2>6. Earned'
    BY <1>2, <2>5, EarnedKept DEF Keeps
  <2> QED
    BY <1>2, <2>2, <2>3, <2>4, <2>6
\* Steps of the scheduler that leave the limits alone.
<1>3. ASSUME TypeOK', Configs',
             UNCHANGED <<limit, log, alerts, pc, snap, req, past>>
      PROVE  IInv'
  <2>1. Counts'
    BY <1>3, CountsKept DEF Counts
  <2>2. \A p \in Periods : past[p].terms \subseteq Terms
    BY DEF TypeOK
  <2> QED
    BY <1>3, <2>1, <2>2, ThrottledKept, EarnedKept
<1>4. ASSUME NEW c \in Calls, Guard(c) PROVE IInv'
  <2>1. \E label \in PCs : Goto(c, label)
    BY <1>4 DEF Guard, PCs
  <2> QED
    BY <1>1, <1>4, <2>1 DEF Guard, TypeOK
<1>5. ASSUME NEW c \in Calls, GuardDefault(c) PROVE IInv'
  <2>1. pc[c] = "default" /\ UNCHANGED <<log, alerts, req, snap, tries, todo, ended, ops>>
    BY <1>5 DEF GuardDefault
  <2>2. CASE Upsert(DEFAULT_PERIOD, DefaultTerms) /\ Goto(c, "lookup")
    <3>1. DEFAULT_PERIOD \in Periods /\ DefaultTerms \in Terms
      BY BudgetConstants
    <3>2. /\ limit' \in [Periods -> Rows] /\ past' \in [Periods -> PastType]
          /\ \A q \in Periods :
               /\ Keeps(q)
               /\ past'[q].forced = past[q].forced
               /\ \/ limit'[q].status = limit[q].status
                  \/ limit'[q].status = nextStatus(0, DefaultTerms)
                     /\ DefaultTerms \in past'[q].terms
      BY <2>2, <3>1, UpsertRow
    <3>3. /\ pc' \in [Calls -> PCs] /\ pc'[c] = "lookup"
          /\ \A d \in Calls : d # c => pc'[d] = pc[d]
      BY <2>2, GotoType DEF PCs
    <3>4. TypeOK'
      BY <2>1, <3>2, <3>3 DEF TypeOK, PastType
    <3>5. \A d \in Calls : pc'[d] # "commit" => pc[d] # "commit"
      BY <2>1, <3>3
    <3> QED
      BY <1>2, <2>1, <3>2, <3>4, <3>5
  <2>3. CASE Goto(c, "blocked") /\ UNCHANGED <<limit, past>>
    BY <1>1, <2>1, <2>3 DEF TypeOK, PCs
  <2> QED
    BY <1>5, <2>2, <2>3 DEF GuardDefault
<1>6. ASSUME NEW c \in Calls, Lookup(c) PROVE IInv'
  <2>1. \E label \in PCs : Goto(c, label)
    BY <1>6 DEF Lookup, PCs
  <2> QED
    BY <1>1, <1>6, <2>1 DEF Lookup, TypeOK
<1>7. ASSUME NEW c \in Calls, Read(c) PROVE IInv'
  <2>1. /\ snap' \in [Calls -> [Periods -> Rows]]
        /\ snap'[c] = limit /\ \A d \in Calls : d # c => snap'[d] = snap[d]
    BY <1>7 DEF Read, TypeOK
  <2>2. Goto(c, "commit") /\ tries' \in [Calls -> 0 .. MaxRetry] /\ "commit" \in PCs
    BY <1>7 DEF Read, TypeOK, PCs
  <2>3. UNCHANGED <<limit, log, alerts, req, todo, past, ended, ops>>
    BY <1>7 DEF Read
  <2> QED
    BY <1>1, <2>1, <2>2, <2>3
<1>8. ASSUME NEW c \in Calls, Commit(c) PROVE IInv'
  <2>1. CASE LogIsNew(c)
    BY <1>8, <2>1, CommitCounts
  <2>2. CASE ~ LogIsNew(c)
    <3>1. /\ Goto(c, "done") /\ Forget(c)
          /\ UNCHANGED <<limit, log, alerts, req, tries, todo, past, ended, ops>>
      BY <1>8, <2>2 DEF Commit
    <3>2. /\ snap' \in [Calls -> [Periods -> Rows]] /\ snap'[c] = Nothing
          /\ \A d \in Calls : d # c => snap'[d] = snap[d]
      BY <3>1, ForgetSnap
    <3> QED
      BY <1>1, <3>1, <3>2 DEF TypeOK, PCs
  <2> QED
    BY <2>1, <2>2
<1>9. ASSUME NEW c \in Calls, Abort(c) PROVE IInv'
  <2>1. Forget(c) /\ UNCHANGED <<limit, log, alerts, req, todo, past, ended, ops>>
    BY <1>9 DEF Abort
  <2>2. /\ snap' \in [Calls -> [Periods -> Rows]] /\ snap'[c] = Nothing
        /\ \A d \in Calls : d # c => snap'[d] = snap[d]
    BY <2>1, ForgetSnap
  <2>3. CASE MayRetry(c) /\ tries' = [tries EXCEPT ![c] = @ + 1] /\ Goto(c, "lookup")
    <3>1. tries' \in [Calls -> 0 .. MaxRetry]
      <4>1. tries[c] + 1 \in 0 .. MaxRetry
        BY <2>3, BudgetConstants DEF MayRetry, TypeOK
      <4> QED
        BY <2>3, <4>1 DEF TypeOK
    <3> QED
      BY <1>1, <2>1, <2>2, <2>3, <3>1 DEF PCs
  <2>4. CASE Goto(c, "done") /\ UNCHANGED tries
    BY <1>1, <2>1, <2>2, <2>4 DEF TypeOK, PCs
  <2> QED
    BY <1>9, <2>3, <2>4 DEF Abort
<1>10. CASE FindExpired
  <2>1. /\ todo' = {[period |-> p, terms |-> TermsOf(limit[p])] : p \in Expired(limit)}
        /\ UNCHANGED <<limit, log, alerts, pc, req, snap, tries, past, ended, ops>>
    BY <1>10 DEF FindExpired
  <2>2. \A p \in Expired(limit) : p \in Periods /\ limit[p].set /\ TermsOf(limit[p]) \in Terms
    BY DEF Expired, Configured, Configs, TypeOK
  <2>3. TypeOK'
    BY <2>1, <2>2 DEF TypeOK
  <2>4. Configs'
    <3>1. \A job \in todo' : limit[job.period].set
      BY <2>1, <2>2
    <3> QED
      BY <2>1, <3>1 DEF Configs, TermsOf
  <2> QED
    BY <1>3, <2>1, <2>3, <2>4
<1>11. ASSUME NEW job \in todo, Reset(job) PROVE IInv'
  BY <1>11, ResetCounts
<1>12. CASE ResetFails
  <2>1. /\ todo' = {}
        /\ UNCHANGED <<limit, log, alerts, pc, req, snap, tries, past, ended, ops>>
    BY <1>12 DEF ResetFails
  <2>2. TypeOK'
    BY <2>1 DEF TypeOK
  <2>3. Configs'
    BY <2>1 DEF Configs, TermsOf
  <2> QED
    BY <1>3, <2>1, <2>2, <2>3
<1>13. ASSUME NEW p \in Periods, PeriodEnds(p) PROVE IInv'
  <2>1. /\ limit' = [limit EXCEPT ![p].expired = TRUE]
        /\ limit[p].set /\ ended < Expirations /\ ended' = ended + 1
        /\ UNCHANGED <<log, alerts, pc, req, snap, tries, todo, past, ops>>
    BY <1>13 DEF PeriodEnds
  <2>2. TermsOf(limit[p]) \in past[p].terms /\ limit[p] \in Rows
    BY <2>1 DEF Configs, TypeOK
  <2> DEFINE row == [limit[p] EXCEPT !.expired = TRUE]
  <2>3. /\ row \in Rows /\ row.spent = limit[p].spent /\ row.status = limit[p].status
        /\ row.alerted = limit[p].alerted /\ row.set /\ TermsOf(row) = TermsOf(limit[p])
    BY <2>1, <2>2 DEF Rows, TermsOf
  <2>4. limit' = [limit EXCEPT ![p] = row]
    BY <2>1
  <2> HIDE DEF row
  <2>5. /\ limit' \in [Periods -> Rows]
        /\ limit'[p] = row /\ \A q \in Periods : q # p => limit'[q] = limit[q]
    BY <2>3, <2>4 DEF TypeOK
  <2>6. \A q \in Periods : /\ Keeps(q) /\ past'[q].forced = past[q].forced
                           /\ limit'[q].status = limit[q].status
    BY <2>1, <2>2, <2>3, <2>5 DEF Keeps
  <2>7. TypeOK'
    BY <2>1, <2>5, BudgetConstants DEF TypeOK
  <2>8. past' \in [Periods -> PastType]
    BY <2>1 DEF TypeOK, PastType
  <2> QED
    BY <1>2, <2>1, <2>5, <2>6, <2>7, <2>8
<1>14. CASE Administer
  <2>1. /\ ops < AdminOps /\ ops' = ops + 1
        /\ UNCHANGED <<log, alerts, pc, req, snap, tries, todo, ended>>
    BY <1>14 DEF Administer, TypeOK
  <2>2. PICK p \in Periods, t \in Terms :
          Upsert(p, t) \/ Patch(p, t) \/ \E status \in Statuses : ForceStatus(p, t, status)
    BY <1>14 DEF Administer
  <2>3. /\ limit' \in [Periods -> Rows] /\ past' \in [Periods -> PastType]
        /\ \A q \in Periods :
             /\ Keeps(q)
             /\ \/ past'[q].forced
                \/ past'[q].forced = past[q].forced /\ limit'[q].status = limit[q].status
                \/ \E u \in past'[q].terms : limit'[q].status = nextStatus(0, u)
    <3>0. past[p] \in PastType /\ past \in [Periods -> PastType] /\ limit[p] \in Rows
      BY DEF TypeOK, PastType
    <3>1. CASE Upsert(p, t)
      BY <3>1, UpsertRow
    <3>2. CASE Patch(p, t)
      <4> DEFINE status == limit[p].status
      <4>1. limit[p].set
            /\ limit' = [limit EXCEPT ![p] = [limit[p] EXCEPT !.max = t.max, !.alert = t.alert,
                                                        !.status = status]]
        BY <3>0, <3>2 DEF Patch, Rows, TypeOK
      <4>2. status \in Statuses /\ status = limit[p].status
        BY <3>0 DEF Rows
      <4> HIDE DEF status
      <4>3. /\ past' \in [Periods -> PastType]
            /\ past'[p].terms = past[p].terms \cup {t}
            /\ past'[p].since = past[p].since /\ past'[p].forced = past[p].forced
            /\ \A q \in Periods : q # p => past'[q] = past[q]
        BY <3>2, TermsGivenEffect DEF Patch
      <4>4. /\ limit' \in [Periods -> Rows] /\ \A q \in Periods : Keeps(q)
            /\ limit'[p].status = status
            /\ \A q \in Periods : q # p => limit'[q] = limit[q]
        <5>1. TypeOK /\ limit[p].set
          BY <4>1
        <5>2. limit' = [limit EXCEPT ![p] = [limit[p] EXCEPT !.max = t.max, !.alert = t.alert,
                                                             !.status = status]]
          BY <4>1
        <5>3. status \in Statuses
          BY <4>2
        <5> QED
          BY <4>3, <5>1, <5>2, <5>3, PatchRow
      <4> QED
        BY <4>2, <4>3, <4>4
    <3>3. CASE \E status \in Statuses : ForceStatus(p, t, status)
      <4>1. PICK status \in Statuses : ForceStatus(p, t, status)
        BY <3>3
      <4>2. limit[p].set
            /\ limit' = [limit EXCEPT ![p] = [limit[p] EXCEPT !.max = t.max, !.alert = t.alert,
                                                        !.status = status]]
        BY <3>0, <4>1 DEF ForceStatus, Rows, TypeOK
      <4> DEFINE new == [past[p] EXCEPT !.terms = past[p].terms \cup {t}, !.forced = TRUE]
      <4>3. past' = [past EXCEPT ![p] = new]
        BY <3>0, <4>1 DEF ForceStatus, PastType
      <4>4. /\ new \in PastType /\ new.terms = past[p].terms \cup {t}
            /\ new.since = past[p].since /\ new.forced
        BY <3>0 DEF PastType
      <4> HIDE DEF new
      <4>5. /\ past' \in [Periods -> PastType] /\ past'[p] = new
            /\ \A q \in Periods : q # p => past'[q] = past[q]
        BY <3>0, <4>3, <4>4
      <4>6. /\ limit' \in [Periods -> Rows] /\ \A q \in Periods : Keeps(q)
            /\ \A q \in Periods : q # p => limit'[q] = limit[q]
        BY <4>2, <4>4, <4>5, PatchRow
      <4> QED
        BY <4>4, <4>5, <4>6
    <3> QED
      BY <2>2, <3>1, <3>2, <3>3
  <2>4. TypeOK'
    BY <2>1, <2>3, BudgetConstants DEF TypeOK, PastType
  <2> QED
    BY <1>2, <2>1, <2>3, <2>4
<1>15. CASE UNCHANGED vars
  <2>1. UNCHANGED <<limit, log, alerts, pc, req, snap, tries, todo, past, ended, ops>>
    BY <1>15 DEF vars
  <2>2. TypeOK'
    BY <2>1 DEF TypeOK
  <2>3. Configs'
    BY <2>1 DEF Configs, TermsOf
  <2> QED
    BY <1>3, <2>1, <2>2, <2>3
<1> QED
  BY <1>4, <1>5, <1>6, <1>7, <1>8, <1>9, <1>10, <1>11, <1>12, <1>13, <1>14, <1>15
     DEF Next, CallStep, ResetStep

(***************************************************************************)
(* The theorems.                                                           *)
(***************************************************************************)

\* The costs the module adds up are this total.
LEMMA CostIsTotal ==
  ASSUME NEW S \in SUBSET Requests, IsFiniteSet(S)
  PROVE  Cost(S) = Total(Costs, S)
<1> DEFINE Step(f) == [s \in SUBSET S |->
                         IF s = {} THEN 0
                         ELSE LET x == CHOOSE x \in s : TRUE
                              IN x.cost + f[s \ {x}]]
           iter == CHOOSE f : f = Step(f)
<1>1. Cost(S) = iter[S]
  BY DEF Cost, MapThenSumSet, MapThenFoldSet
<1>2. ASSUME NEW f PROVE (f = Step(f)) <=> Recursion(Costs, f, S)
  <2>1. \A s \in SUBSET S : s # {} =>
          Costs[CHOOSE x \in s : TRUE] = (CHOOSE x \in s : TRUE).cost
    BY DEF Costs
  <2> QED
    BY <2>1 DEF Recursion
<1>3. \E f : f = Step(f)
  BY <1>2, CostsAreNatural, RecursionExists
<1>4. iter = Step(iter)
  BY <1>3
<1>5. Recursion(Costs, iter, S)
  BY <1>2, <1>4
<1> HIDE DEF iter
<1> QED
  BY <1>1, <1>5, CostsAreNatural, RecursionTotal

LEMMA CountedCost == IInv => \A p \in Periods : Cost(past[p].since) = Spent(p)
<1> SUFFICES ASSUME IInv, NEW p \in Periods PROVE Cost(past[p].since) = Spent(p)
  OBVIOUS
<1>1. past[p].since \in SUBSET Requests /\ IsFiniteSet(past[p].since)
  BY DEF IInv, TypeOK, Counts
<1> QED
  BY <1>1, CostIsTotal DEF Spent

LEMMA Invariance == Spec => []IInv
BY InitIInv, StepIInv, PTL DEF Spec

\* Type correctness: sums stay natural numbers and statuses those of the code.
THEOREM TypeCorrect == Spec => []TypeOK
<1>1. IInv => TypeOK
  BY DEF IInv
<1> QED
  BY <1>1, Invariance, PTL

\* No limit ever shows more than the requests counted since the last reset have cost,
\* however often each of them is metered.
THEOREM ChargeSafety == Spec => []NeverOvercharged
<1>1. IInv => NeverOvercharged
  BY CountedCost DEF IInv, Counts, NeverOvercharged
<1> QED
  BY <1>1, Invariance, PTL

\* A lock that nobody forces means that the threshold of a limit in force has been spent.
THEOREM LockSafety == Spec => []LocksAreEarned
<1>1. IInv => LocksAreEarned
  BY CountedCost DEF IInv, Earned, EarnedBy, LocksAreEarned
<1> QED
  BY <1>1, Invariance, PTL

\* One alert per limit and cooldown, however many calls cross the threshold.
THEOREM AlertSafety == Spec => []AlertsThrottled
<1>1. IInv => AlertsThrottled
  BY DEF IInv, Throttled
<1> QED
  BY <1>1, Invariance, PTL

(***************************************************************************)
(* What is left of the claims that accumulations in parallel break.  A     *)
(* commit writes the sum it has read plus its own cost.  As long as nobody *)
(* has changed that sum in between, a hard lock is left through a reset    *)
(* only, unless somebody administers the limits; and whoever does, every   *)
(* limit shows exactly what the requests counted in it have cost.          *)
(***************************************************************************)

\* No accumulation is overtaken by a write between its read and its commit.
CommitsInTurn ==
  \A c \in Calls : Commit(c) => \A p \in Periods : snap[c][p].spent = limit[p].spent

NoAdministration == UNCHANGED ops

\* Every limit is the default one, and a hard lock means that it is spent.
LockInv ==
  /\ \A p \in Periods :
       /\ limit[p].set => TermsOf(limit[p]) = DefaultTerms
       /\ limit[p].status = "HARD_LOCKED" => limit[p].spent >= DefaultTerms.max
  /\ \A c \in Calls : \A p \in Periods :
       snap[c][p].set => TermsOf(snap[c][p]) = DefaultTerms

LEMMA ZeroIsNotLocked == \A t \in Terms : nextStatus(0, t) # "HARD_LOCKED"
<1> SUFFICES ASSUME NEW t \in Terms PROVE nextStatus(0, t) # "HARD_LOCKED"
  OBVIOUS
<1>1. t.max \in Nat \ {0}
  BY TermsType
<1> QED
  BY <1>1 DEF nextStatus

\* What a step does to the limits, when no administrator takes part.
LEMMA LimitSteps ==
  ASSUME IInv, [Next]_vars, NoAdministration
  PROVE  \/ UNCHANGED limit
         \/ \E c \in Calls : Commit(c) /\ LogIsNew(c)
         \/ Upsert(DEFAULT_PERIOD, DefaultTerms)
         \/ \E job \in todo : Reset(job)
         \/ \E p \in Periods : PeriodEnds(p)
<1>1. ASSUME NEW c \in Calls, CallStep(c)
      PROVE  \/ UNCHANGED limit
             \/ Commit(c) /\ LogIsNew(c)
             \/ Upsert(DEFAULT_PERIOD, DefaultTerms)
  <2>1. CASE Guard(c) \/ Lookup(c) \/ Read(c) \/ Abort(c)
    BY <2>1 DEF Guard, Lookup, Read, Abort
  <2>2. CASE GuardDefault(c)
    <3>1. Upsert(DEFAULT_PERIOD, DefaultTerms) \/ limit' = limit
      BY <2>2 DEF GuardDefault
    <3> QED
      BY <3>1
  <2>3. CASE Commit(c)
    <3>1. LogIsNew(c) \/ limit' = limit
      BY <2>3 DEF Commit
    <3> QED
      BY <2>3, <3>1
  <2> QED
    BY <1>1, <2>1, <2>2, <2>3 DEF CallStep
<1>2. CASE FindExpired \/ ResetFails \/ UNCHANGED vars
  BY <1>2 DEF FindExpired, ResetFails, vars
<1>3. ~Administer
  BY DEF Administer, NoAdministration, IInv, TypeOK
<1> QED
  BY <1>1, <1>2, <1>3 DEF Next, ResetStep

\* What a step does to the snapshots.
LEMMA SnapSteps ==
  ASSUME IInv, [Next]_vars, NEW c \in Calls
  PROVE  snap'[c] \in {snap[c], limit, Nothing}
<1>1. ASSUME NEW d \in Calls, CallStep(d) PROVE snap'[c] \in {snap[c], limit, Nothing}
  BY <1>1 DEF IInv, TypeOK, CallStep, Guard, GuardDefault, Lookup, Read, Commit, Abort,
              Forget
<1>2. CASE ~ \E d \in Calls : CallStep(d)
  <2>1. UNCHANGED snap
    BY <1>2 DEF Next, ResetStep, FindExpired, Reset, ResetFails, PeriodEnds, Administer,
                vars
  <2> QED
    BY <2>1
<1> QED
  BY <1>1, <1>2

\* The rows after a commit that is in turn.
LEMMA CommitInTurn ==
  ASSUME IInv, NEW c \in Calls, Commit(c), LogIsNew(c), CommitsInTurn, NEW p \in Periods
  PROVE  /\ \/ limit'[p] = limit[p] /\ ~snap[c][p].set
            \/ /\ snap[c][p].set
               /\ limit[p].set /\ limit'[p].set /\ TermsOf(limit'[p]) = TermsOf(limit[p])
               /\ limit'[p].spent = limit[p].spent + req[c].cost
               /\ \/ limit'[p].status = limit[p].status
                  \/ limit'[p].status = nextStatus(limit'[p].spent, TermsOf(snap[c][p]))
         /\ limit[p].spent \in Nat /\ req[c].cost \in Nat
<1>1. limit'[p] = IF p \in Configured(snap[c]) THEN Updated(c, p) ELSE limit[p]
  BY DEF Commit
<1>2. snap[c][p].spent = limit[p].spent /\ limit[p].spent \in Nat /\ req[c].cost \in Nat
  BY RequestFacts DEF CommitsInTurn, IInv, TypeOK, Rows
<1>3. p \in Configured(snap[c]) <=> snap[c][p].set
  BY DEF Configured
<1> QED
  BY <1>1, <1>2, <1>3, UpdatedRow

LEMMA StepLockInv ==
  ASSUME IInv, LockInv, [Next]_vars, [CommitsInTurn]_vars, [NoAdministration]_vars
  PROVE  LockInv'
<1>0. CASE UNCHANGED vars
  BY <1>0 DEF vars, LockInv, TermsOf
<1> SUFFICES ASSUME CommitsInTurn, NoAdministration PROVE LockInv'
  BY <1>0
<1>a. DefaultTerms \in Terms /\ DefaultTerms.max \in Nat
  BY BudgetConstants, TermsType
<1>1. ASSUME NEW c \in Calls, NEW p \in Periods, snap'[c][p].set
      PROVE  TermsOf(snap'[c][p]) = DefaultTerms
  BY <1>1, SnapSteps DEF LockInv, Nothing, NoLimit
<1>2. ASSUME NEW p \in Periods
      PROVE  /\ limit'[p].set => TermsOf(limit'[p]) = DefaultTerms
             /\ limit'[p].status = "HARD_LOCKED" => limit'[p].spent >= DefaultTerms.max
  <2> DEFINE Locked == /\ limit'[p].set => TermsOf(limit'[p]) = DefaultTerms
                       /\ limit'[p].status = "HARD_LOCKED" =>
                            limit'[p].spent >= DefaultTerms.max
  <2>0. /\ limit[p].set => TermsOf(limit[p]) = DefaultTerms
        /\ limit[p].status = "HARD_LOCKED" => limit[p].spent >= DefaultTerms.max
        /\ limit[p] \in Rows
    BY DEF LockInv, IInv, TypeOK
  <2>1. ASSUME NEW c \in Calls, Commit(c), LogIsNew(c) PROVE Locked
    <3>1. CASE limit'[p] = limit[p]
      BY <2>0, <3>1
    <3>2. CASE /\ snap[c][p].set
               /\ limit[p].set /\ limit'[p].set /\ TermsOf(limit'[p]) = TermsOf(limit[p])
               /\ limit'[p].spent = limit[p].spent + req[c].cost
               /\ \/ limit'[p].status = limit[p].status
                  \/ limit'[p].status = nextStatus(limit'[p].spent, TermsOf(snap[c][p]))
      <4>1. limit[p].spent \in Nat /\ req[c].cost \in Nat
        BY RequestFacts DEF IInv, TypeOK, Rows
      <4>2. TermsOf(snap[c][p]) = DefaultTerms
        BY <3>2 DEF LockInv
      <4>3. CASE limit'[p].status = limit[p].status
        BY <1>a, <2>0, <3>2, <4>1, <4>3
      <4>4. CASE limit'[p].status = nextStatus(limit'[p].spent, DefaultTerms)
        BY <1>a, <2>0, <3>2, <4>1, <4>4 DEF nextStatus
      <4> QED
        BY <3>2, <4>2, <4>3, <4>4
    <3> QED
      BY <2>1, <3>1, <3>2, CommitInTurn
  <2>2. CASE Upsert(DEFAULT_PERIOD, DefaultTerms)
    <3>1. /\ limit'[p].spent = limit[p].spent
          /\ \/ limit'[p].status = limit[p].status
             \/ limit'[p].status = nextStatus(0, DefaultTerms)
          /\ limit'[p] = limit[p] \/ TermsOf(limit'[p]) = DefaultTerms
      BY <1>a, <2>2, UpsertRow, BudgetConstants DEF IInv, Keeps
    <3> QED
      BY <1>a, <2>0, <3>1, ZeroIsNotLocked
  <2>3. ASSUME NEW job \in todo, Reset(job) PROVE Locked
    <3>1. CASE p = job.period
      <4>1. limit'[p] = AfterReset(limit[p], job.terms) /\ job.terms \in Terms
        BY <2>3, <3>1 DEF Reset, IInv, TypeOK
      <4>2. limit'[p].status = nextStatus(0, job.terms)
        BY <2>0, <4>1 DEF AfterReset, Rows
      <4>3. limit'[p].set = limit[p].set /\ TermsOf(limit'[p]) = TermsOf(limit[p])
        BY <2>0, <4>1 DEF AfterReset, Rows, TermsOf
      <4> QED
        BY <2>0, <4>1, <4>2, <4>3, ZeroIsNotLocked
    <3>2. CASE p # job.period
      BY <2>0, <2>3, <3>2 DEF Reset, IInv, TypeOK
    <3> QED
      BY <3>1, <3>2
  <2>4. ASSUME NEW q \in Periods, PeriodEnds(q) PROVE Locked
    <3>1. /\ limit'[p].set = limit[p].set /\ TermsOf(limit'[p]) = TermsOf(limit[p])
          /\ limit'[p].status = limit[p].status /\ limit'[p].spent = limit[p].spent
      BY <2>0, <2>4 DEF PeriodEnds, IInv, TypeOK, Rows, TermsOf
    <3> QED
      BY <2>0, <3>1
  <2>5. CASE UNCHANGED limit
    BY <2>0, <2>5
  <2> QED
    BY <2>1, <2>2, <2>3, <2>4, <2>5, LimitSteps
<1> QED
  BY <1>1, <1>2 DEF LockInv, TermsOf

\* evaluateStatus: a hard lock is left only through a reset, as long as no accumulation is
\* overtaken and no administrator interferes.
THEOREM HardLockHoldsInTurn ==
  Spec /\ [][CommitsInTurn]_vars /\ [][NoAdministration]_vars => HardLockHolds
<1>1. Init => LockInv
  <2> SUFFICES ASSUME Init PROVE LockInv
    OBVIOUS
  <2>1. PICK configured \in SUBSET Periods :
          limit = [p \in Periods |-> IF p \in configured THEN NewLimit(DefaultTerms)
                                                         ELSE NoLimit]
    BY DEF Init
  <2>2. /\ TermsOf(NewLimit(DefaultTerms)) = DefaultTerms
        /\ NewLimit(DefaultTerms).status # "HARD_LOCKED"
    BY BudgetConstants, NewLimitType, ZeroIsNotLocked
  <2> QED
    BY <2>1, <2>2 DEF Init, LockInv, NoLimit
<1>2. IInv /\ LockInv /\ [Next]_vars /\ [CommitsInTurn]_vars /\ [NoAdministration]_vars
        => LockInv'
  BY StepLockInv
<1>3. IInv /\ LockInv /\ [Next]_vars /\ [CommitsInTurn]_vars /\ [NoAdministration]_vars
        => [\A p \in Periods :
              limit[p].status = "HARD_LOCKED" /\ limit'[p].status # "HARD_LOCKED" =>
                todo' # todo \/ ops' # ops]_vars
  <2> SUFFICES ASSUME IInv, LockInv, [Next]_vars, CommitsInTurn, NoAdministration,
                      NEW p \in Periods,
                      limit[p].status = "HARD_LOCKED", limit'[p].status # "HARD_LOCKED"
               PROVE  todo' # todo
    OBVIOUS
  <2>1. ASSUME NEW c \in Calls, Commit(c), LogIsNew(c) PROVE FALSE
    <3>1. /\ snap[c][p].set
          /\ limit'[p].spent = limit[p].spent + req[c].cost
          /\ limit'[p].status = nextStatus(limit'[p].spent, TermsOf(snap[c][p]))
          /\ limit[p].spent \in Nat /\ req[c].cost \in Nat
      BY <2>1, CommitInTurn
    <3>2. /\ TermsOf(snap[c][p]) = DefaultTerms /\ DefaultTerms.max \in Nat
          /\ limit[p].spent >= DefaultTerms.max
      BY <3>1, BudgetConstants, TermsType DEF LockInv
    <3> QED
      BY <3>1, <3>2 DEF nextStatus
  <2>2. CASE Upsert(DEFAULT_PERIOD, DefaultTerms)
    <3>1. limit[p].set
      BY DEF IInv, Configs, NoLimit
    <3>2. limit'[p].status = limit[p].status
      BY <2>2, <3>1 DEF Upsert, IInv, TypeOK, Rows
    <3> QED
      BY <3>2
  <2>3. ASSUME NEW job \in todo, Reset(job) PROVE todo' # todo
    BY <2>3 DEF Reset
  <2>4. ASSUME NEW q \in Periods, PeriodEnds(q) PROVE FALSE
    BY <2>4 DEF PeriodEnds, IInv, TypeOK, Rows
  <2> QED
    BY <2>1, <2>2, <2>3, <2>4, LimitSteps
<1> QED
  BY <1>1, <1>2, <1>3, Invariance, PTL DEF Spec, HardLockHolds

\* What a limit shows is what the requests counted since its last reset have cost.
BudgetsAreExact == \A p \in Periods : limit[p].spent = Cost(past[p].since)

\* No reset falls between the read and the commit of an accumulation.
ResetsInTurn == ~Straddled \/ \A job \in todo : ~Reset(job)

ExactInv == \A p \in Periods : limit[p].spent = Spent(p)

LEMMA InitExact == Init => ExactInv
<1> SUFFICES ASSUME Init, NEW p \in Periods PROVE limit[p].spent = Spent(p)
  BY DEF ExactInv
<1>1. IInv
  BY InitIInv
<1>2. past[p].since = {}
  BY DEF Init
<1>3. Spent(p) = 0
  BY <1>2, TotalEmpty DEF Spent
<1> QED
  BY <1>1, <1>3 DEF IInv, Counts, TypeOK, Rows

\* A step that keeps every sum and counts nothing.
LEMMA ExactKept ==
  ASSUME ExactInv,
         \A p \in Periods : /\ limit'[p].spent = limit[p].spent
                            /\ past'[p].since = past[p].since
  PROVE  ExactInv'
BY DEF ExactInv, Spent

LEMMA StepExact ==
  ASSUME IInv, ExactInv, [Next]_vars, [CommitsInTurn]_vars, [ResetsInTurn]_vars
  PROVE  ExactInv'
<1> USE DEF IInv
<1>0. CASE UNCHANGED <<limit, past>>
  BY <1>0, ExactKept
<1>1. CASE UNCHANGED vars
  BY <1>0, <1>1 DEF vars
<1> SUFFICES ASSUME CommitsInTurn, ResetsInTurn, Next PROVE ExactInv'
  BY <1>1
<1>2. ASSUME NEW p \in Periods, NEW t \in Terms, Upsert(p, t) PROVE ExactInv'
  BY <1>2, UpsertRow, ExactKept DEF Keeps
<1>3. ASSUME NEW c \in Calls, CallStep(c) PROVE ExactInv'
  <2>1. CASE Guard(c) \/ Lookup(c) \/ Read(c) \/ Abort(c)
    BY <1>0, <2>1 DEF Guard, Lookup, Read, Abort
  <2>2. CASE GuardDefault(c)
    <3>1. Upsert(DEFAULT_PERIOD, DefaultTerms) \/ UNCHANGED <<limit, past>>
      BY <2>2 DEF GuardDefault
    <3> QED
      BY <1>0, <1>2, <3>1, BudgetConstants
  <2>3. CASE Commit(c) /\ ~LogIsNew(c)
    BY <1>0, <2>3 DEF Commit
  <2>4. CASE Commit(c) /\ LogIsNew(c)
    <3>1. ASSUME NEW p \in Periods PROVE limit'[p].spent = Spent(p)'
      <4>1. snap[c][p].spent = limit[p].spent /\ limit[p].spent = Spent(p)
        BY <2>4 DEF CommitsInTurn, ExactInv
      <4>2. Spent(p) \in Nat /\ req[c].cost \in Nat
        BY SpentNatural, RequestFacts
      <4>3. CASE p \in Configured(snap[c])
        <5>1. /\ limit'[p].spent = snap[c][p].spent + req[c].cost
              /\ Spent(p)' = req[c].cost + Spent(p)
          BY <2>4, <4>3, CommitPast, UpdatedRow
        <5> QED
          BY <4>1, <4>2, <5>1
      <4>4. CASE p \notin Configured(snap[c])
        BY <2>4, <4>1, <4>4, CommitPast
      <4> QED
        BY <4>3, <4>4
    <3> QED
      BY <3>1 DEF ExactInv
  <2> QED
    BY <1>3, <2>1, <2>2, <2>3, <2>4 DEF CallStep
<1>4. ASSUME NEW job \in todo, Reset(job) PROVE ExactInv'
  <2>1. ~Straddled /\ job.period \in Periods
    BY <1>4 DEF ResetsInTurn, TypeOK
  <2>2. limit[job.period] \in Rows
    BY <2>1 DEF TypeOK
  <2>3. limit'[job.period].spent = 0 /\ past'[job.period].since = {}
    BY <1>4, <2>1, <2>2 DEF Reset, AfterReset, TypeOK, Rows
  <2>4. \A p \in Periods : p # job.period => limit'[p] = limit[p] /\ past'[p] = past[p]
    BY <1>4 DEF Reset, TypeOK
  <2>5. Spent(job.period)' = 0
    BY <2>3, TotalEmpty DEF Spent
  <2>6. ASSUME NEW p \in Periods PROVE limit'[p].spent = Spent(p)'
    BY <2>3, <2>4, <2>5 DEF ExactInv, Spent
  <2> QED
    BY <2>6 DEF ExactInv
<1>5. CASE FindExpired \/ ResetFails
  BY <1>0, <1>5 DEF FindExpired, ResetFails
<1>6. ASSUME NEW p \in Periods, PeriodEnds(p) PROVE ExactInv'
  BY <1>6, ExactKept DEF PeriodEnds, TypeOK, Rows
<1>7. CASE Administer
  <2>1. PICK p \in Periods, t \in Terms :
          Upsert(p, t) \/ Patch(p, t) \/ \E status \in Statuses : ForceStatus(p, t, status)
    BY <1>7 DEF Administer
  <2>2. CASE Patch(p, t)
    <3>1. \A q \in Periods : limit'[q].spent = limit[q].spent
      BY <2>2 DEF Patch, TypeOK, Rows
    <3>2. \A q \in Periods : past'[q].since = past[q].since
      BY <2>2, TermsGivenEffect DEF Patch
    <3> QED
      BY <3>1, <3>2, ExactKept
  <2>3. CASE \E status \in Statuses : ForceStatus(p, t, status)
    <3>1. \A q \in Periods : limit'[q].spent = limit[q].spent
      BY <2>3 DEF ForceStatus, TypeOK, Rows
    <3>2. \A q \in Periods : past'[q].since = past[q].since
      BY <2>3 DEF ForceStatus, TypeOK
    <3> QED
      BY <3>1, <3>2, ExactKept
  <2> QED
    BY <1>2, <2>1, <2>2, <2>3
<1> QED
  BY <1>3, <1>4, <1>5, <1>6, <1>7 DEF Next, ResetStep

\* BudgetAccumulatorService.accumulate: every limit shows exactly what the counted requests
\* have cost, unless an accumulation is overtaken by a write or straddled by a reset.
THEOREM BudgetsAreExactInTurn ==
  Spec /\ [][CommitsInTurn]_vars /\ [][ResetsInTurn]_vars => []BudgetsAreExact
<1>1. IInv /\ ExactInv => BudgetsAreExact
  BY CountedCost DEF ExactInv, BudgetsAreExact
<1>2. IInv /\ ExactInv /\ [Next]_vars /\ [CommitsInTurn]_vars /\ [ResetsInTurn]_vars
        => ExactInv'
  BY StepExact
<1> QED
  BY <1>1, <1>2, InitExact, Invariance, PTL DEF Spec
=============================================================================
