------------------------------ MODULE AiBudget ------------------------------
(***************************************************************************)
(* The AI cost budgets of one tenant: payments/budget.                     *)
(*                                                                         *)
(* An AI request passes BudgetGuard, is served, and its cost is then added *)
(* to every limit of the tenant by BudgetAccumulatorService.accumulate: a  *)
(* READ COMMITTED transaction that reads the limits, writes the sums it    *)
(* computed from what it read, and logs the request id, which is unique.   *)
(* The first limit it writes stays locked until it commits, so the writes  *)
(* and the log entry take effect together, at the commit.  Meanwhile the   *)
(* scheduler resets limits whose period is over and administrators change  *)
(* them, each with statements of their own.                                *)
(***************************************************************************)
EXTENDS Integers, FiniteSets, FiniteSetsExt

CONSTANTS Periods,          \* DAILY, WEEKLY, MONTHLY
          DEFAULT_PERIOD,
          Calls,            \* AI requests, each metered once per call
          Requests,         \* what they may be: request id, cost, priority
          Terms,            \* amounts and alert percentages administrators choose from
          DefaultTerms,     \* DEFAULT_BUDGET_LIMIT and DEFAULT_ALERT_THRESHOLD
          MaxRetry,         \* ACCUMULATOR_MAX_RETRY
          Expirations,      \* bound: period ends that are modelled
          AdminOps          \* bound: administrative changes

NoLimit == [set |-> FALSE, max |-> 0, alert |-> 0, spent |-> 0, status |-> "ACTIVE",
            expired |-> FALSE, alerted |-> FALSE]

ASSUME BudgetConstants ==
  /\ DEFAULT_PERIOD \in Periods
  /\ \A r \in Requests : r.cost \in Nat /\ r.priority \in BOOLEAN
  /\ Terms \subseteq [max : Nat \ {0}, alert : 0 .. 100] /\ DefaultTerms \in Terms
  /\ MaxRetry \in Nat /\ Expirations \in Nat /\ AdminOps \in Nat

VARIABLES limit,      \* limit[p]: the AiBudgetLimit row
          log,        \* request ids of the committed BudgetAccumulationLog rows
          alerts,     \* alerts[p]: alerts raised since p's last reset
          pc, req,
          snap,       \* snap[c]: the limits c's transaction has read
          tries,      \* tries[c]: retryCount
          todo,       \* limits the running reset still has to write
          past,       \* past[p]: what p's sum and status may rest on (history)
          ended, ops  \* period ends and administrative changes so far

vars == <<limit, log, alerts, pc, req, snap, tries, todo, past, ended, ops>>

Statuses == {"ACTIVE", "SOFT_LOCKED", "HARD_LOCKED"}
Rows == [set : BOOLEAN, max : Nat, alert : 0 .. 100, spent : Nat, status : Statuses,
         expired : BOOLEAN, alerted : BOOLEAN]
PCs == {"idle", "default", "lookup", "read", "commit", "done", "blocked"}

Configured(rows) == {p \in Periods : rows[p].set}

TypeOK ==
  /\ limit \in [Periods -> Rows]
  /\ log \subseteq {r.id : r \in Requests}
  /\ alerts \in [Periods -> Nat]
  /\ pc \in [Calls -> PCs]
  /\ req \in [Calls -> Requests]
  /\ snap \in [Calls -> [Periods -> Rows]]
  /\ tries \in [Calls -> 0 .. MaxRetry]
  /\ todo \subseteq [period : Periods, terms : Terms]
  /\ past \in [Periods -> [since : SUBSET Requests, terms : SUBSET Terms, forced : BOOLEAN]]
  /\ ended \in 0 .. Expirations /\ ops \in 0 .. AdminOps

-----------------------------------------------------------------------------
(* The state machine: BudgetService.evaluateStatus. *)

TermsOf(row) == [max |-> row.max, alert |-> row.alert]

alertAmount(terms) == (terms.max * terms.alert) \div 100

nextStatus(spent, terms) ==
  IF spent >= terms.max THEN "HARD_LOCKED"
  ELSE IF spent >= alertAmount(terms) THEN "SOFT_LOCKED" ELSE "ACTIVE"

crossedAlertThreshold(current, next) ==
  \/ next = "HARD_LOCKED" /\ current # "HARD_LOCKED"
  \/ next = "SOFT_LOCKED" /\ current = "ACTIVE"

-----------------------------------------------------------------------------
\* A new limit stands where evaluateStatus puts a sum of 0.
NewLimit(terms) ==
  [NoLimit EXCEPT !.set = TRUE, !.max = terms.max, !.alert = terms.alert,
                  !.status = nextStatus(0, terms)]

Init ==
  /\ \E configured \in SUBSET Periods :
       /\ limit = [p \in Periods |-> IF p \in configured THEN NewLimit(DefaultTerms)
                                                         ELSE NoLimit]
       /\ past = [p \in Periods |->
                    [since |-> {}, forced |-> FALSE,
                     terms |-> IF p \in configured THEN {DefaultTerms} ELSE {}]]
  /\ log = {}
  /\ alerts = [p \in Periods |-> 0]
  /\ pc = [c \in Calls |-> "idle"]
  /\ req \in [Calls -> Requests]
  /\ snap = [c \in Calls |-> [p \in Periods |-> NoLimit]]
  /\ tries = [c \in Calls |-> 0]
  /\ todo = {}
  /\ ended = 0 /\ ops = 0

Goto(c, label) == pc' = [pc EXCEPT ![c] = label]
Nothing == [p \in Periods |-> NoLimit]
Forget(c) == snap' = [snap EXCEPT ![c] = Nothing]

-----------------------------------------------------------------------------
(* BudgetGuard. *)

\* The worst status of all the limits counts; a priority request passes a soft lock.
GuardPasses(c) ==
  \A p \in Configured(limit) :
    \/ limit[p].status = "ACTIVE"
    \/ limit[p].status = "SOFT_LOCKED" /\ req[c].priority

Guard(c) ==
  /\ pc[c] = "idle"
  /\ Goto(c, IF Configured(limit) = {} THEN "default"
             ELSE IF GuardPasses(c) THEN "lookup" ELSE "blocked")
  /\ UNCHANGED <<limit, log, alerts, req, snap, tries, todo, past, ended, ops>>

\* The terms a limit is given join those its status may rest on.
TermsGiven(p, terms) == past' = [past EXCEPT ![p].terms = @ \cup {terms}]

\* upsertBudgetLimit: a new window, but neither the sum nor the status is touched.
Upsert(p, terms) ==
  /\ limit' = [limit EXCEPT ![p] =
                 IF @.set THEN [@ EXCEPT !.max = terms.max, !.alert = terms.alert,
                                         !.expired = FALSE]
                          ELSE NewLimit(terms)]
  /\ TermsGiven(p, terms)

\* checkBudget found no limit: it upserts the default one and lets the request pass,
\* or the upsert throws.
GuardDefault(c) ==
  /\ pc[c] = "default"
  /\ \/ Upsert(DEFAULT_PERIOD, DefaultTerms) /\ Goto(c, "lookup")
     \/ Goto(c, "blocked") /\ UNCHANGED <<limit, past>>
  /\ UNCHANGED <<log, alerts, req, snap, tries, todo, ended, ops>>

-----------------------------------------------------------------------------
(* BudgetAccumulatorService.accumulate. *)

Lookup(c) ==
  /\ pc[c] = "lookup"
  /\ Goto(c, IF req[c].id \in log THEN "done" ELSE "read")
  /\ UNCHANGED <<limit, log, alerts, req, snap, tries, todo, past, ended, ops>>

Read(c) ==
  /\ pc[c] = "read"
  /\ snap' = [snap EXCEPT ![c] = limit]
  /\ Goto(c, "commit")
  /\ UNCHANGED <<limit, log, alerts, req, tries, todo, past, ended, ops>>

currentSpent(c, p) == snap[c][p].spent + req[c].cost
evaluate(c, p) == nextStatus(currentSpent(c, p), TermsOf(snap[c][p]))
changed(c, p) == evaluate(c, p) # snap[c][p].status

AlertsFromSnapshot(c, p) ==  \* mutant
  /\ changed(c, p) /\ crossedAlertThreshold(snap[c][p].status, evaluate(c, p))
  /\ ~snap[c][p].alerted

\* canSendAlert reads the row again, under its lock.
Alerts(c, p) ==
  /\ changed(c, p) /\ crossedAlertThreshold(snap[c][p].status, evaluate(c, p))
  /\ ~limit[p].alerted

\* The row after the update: an absolute sum, and a status only if the evaluation
\* differs from the status that was read.
Updated(c, p) ==
  [limit[p] EXCEPT !.spent = currentSpent(c, p),
                   !.status = IF changed(c, p) THEN evaluate(c, p) ELSE @,
                   !.alerted = @ \/ Alerts(c, p)]

\* The request is counted, and a status the commit writes is no longer a forced one.
Counted(c, p) ==
  [past[p] EXCEPT !.since = @ \cup {req[c]}, !.forced = @ /\ ~changed(c, p)]

Unlogged(c) == TRUE  \* mutant
LogIsNew(c) == req[c].id \notin log

\* All writes and the log entry; a duplicate id rolls everything back and counts as
\* done by the parallel call.
Commit(c) ==
  /\ pc[c] = "commit"
  /\ IF LogIsNew(c)
       THEN /\ limit' = [p \in Periods |-> IF p \in Configured(snap[c]) THEN Updated(c, p)
                                                                      ELSE limit[p]]
            /\ alerts' = [p \in Periods |-> IF p \in Configured(snap[c]) /\ Alerts(c, p)
                                              THEN alerts[p] + 1 ELSE alerts[p]]
            /\ log' = log \cup {req[c].id}
            /\ past' = [p \in Periods |-> IF p \in Configured(snap[c]) THEN Counted(c, p)
                                                                     ELSE past[p]]
       ELSE UNCHANGED <<limit, alerts, log, past>>
  /\ Goto(c, "done")
  /\ Forget(c)
  /\ UNCHANGED <<req, tries, todo, ended, ops>>

OneTooMany(c) == tries[c] <= MaxRetry  \* mutant
MayRetry(c) == tries[c] < MaxRetry

\* The transaction is rolled back: P2034 and P2025 are retried, any other error is
\* logged and the cost is lost.
Abort(c) ==
  /\ pc[c] \in {"read", "commit"}
  /\ \/ /\ MayRetry(c)
        /\ tries' = [tries EXCEPT ![c] = @ + 1]
        /\ Goto(c, "lookup")
     \/ Goto(c, "done") /\ UNCHANGED tries
  /\ Forget(c)
  /\ UNCHANGED <<limit, log, alerts, req, todo, past, ended, ops>>

-----------------------------------------------------------------------------
(* BudgetSchedulerService and administration. *)

\* A limit's periodEnd passes.
PeriodEnds(p) ==
  /\ ended < Expirations
  /\ limit[p].set /\ ~limit[p].expired
  /\ limit' = [limit EXCEPT ![p].expired = TRUE]
  /\ ended' = ended + 1
  /\ UNCHANGED <<log, alerts, pc, req, snap, tries, todo, past, ops>>

NoneExpired(rows) == {}  \* mutant
Expired(rows) == {p \in Configured(rows) : rows[p].expired}

\* resetExpiredPeriods: findMany, then one update per limit found.
FindExpired ==
  /\ todo = {} /\ Expired(limit) # {}
  /\ todo' = {[period |-> p, terms |-> TermsOf(limit[p])] : p \in Expired(limit)}
  /\ UNCHANGED <<limit, log, alerts, pc, req, snap, tries, past, ended, ops>>

\* A reset between the read and the commit of an accumulation can be undone by it.
Straddled == \E c \in Calls : pc[c] = "commit"

ResetKeepsStatus(row, terms) ==  \* mutant
  [row EXCEPT !.spent = 0, !.expired = FALSE, !.alerted = FALSE]

AfterReset(row, terms) ==
  [row EXCEPT !.spent = 0, !.status = nextStatus(0, terms), !.expired = FALSE,
              !.alerted = FALSE]

Reset(job) ==
  LET p == job.period IN
  /\ todo' = todo \ {job}
  /\ limit' = [limit EXCEPT ![p] = AfterReset(@, job.terms)]
  /\ alerts' = [alerts EXCEPT ![p] = 0]
  /\ past' = [past EXCEPT ![p] =
                [since  |-> IF Straddled THEN @.since ELSE {},
                 terms  |-> {job.terms, TermsOf(limit[p])} \cup
                              (IF Straddled THEN @.terms ELSE {}),
                 forced |-> FALSE]]
  /\ UNCHANGED <<log, pc, req, snap, tries, ended, ops>>

ResetStep == FindExpired \/ \E job \in todo : Reset(job)

\* The scheduler's run is cut short; its next one starts over.
ResetFails ==
  /\ todo # {}
  /\ todo' = {}
  /\ UNCHANGED <<limit, log, alerts, pc, req, snap, tries, past, ended, ops>>

\* updateBudgetLimit, without and with a forced status.  What a PATCH leaves out stays
\* as it is.  (Unlocking is a reset of what has expired, then ForceStatus to ACTIVE.)
Patch(p, terms) ==
  /\ limit[p].set
  /\ limit' = [limit EXCEPT ![p].max = terms.max, ![p].alert = terms.alert]
  /\ TermsGiven(p, terms)

ForceStatus(p, terms, status) ==
  /\ limit[p].set
  /\ limit' = [limit EXCEPT ![p].max = terms.max, ![p].alert = terms.alert,
                            ![p].status = status]
  /\ past' = [past EXCEPT ![p].terms = @ \cup {terms}, ![p].forced = TRUE]

Administer ==
  /\ ops < AdminOps
  /\ ops' = ops + 1
  /\ \E p \in Periods, terms \in Terms :
       \/ Upsert(p, terms) \/ Patch(p, terms)
       \/ \E status \in Statuses : ForceStatus(p, terms, status)
  /\ UNCHANGED <<log, alerts, pc, req, snap, tries, todo, ended>>

-----------------------------------------------------------------------------
CallStep(c) == Guard(c) \/ GuardDefault(c) \/ Lookup(c) \/ Read(c) \/ Commit(c) \/ Abort(c)

Next ==
  \/ \E c \in Calls : CallStep(c)
  \/ ResetStep \/ ResetFails
  \/ \E p \in Periods : PeriodEnds(p)
  \/ Administer

Spec == Init /\ [][Next]_vars

\* The scheduler runs every five minutes, and not every run of it is cut short.
Fairness == /\ WF_vars(FindExpired)
            /\ SF_vars(\E job \in todo : Reset(job))
FairSpec == Spec /\ Fairness

-----------------------------------------------------------------------------
(* Properties. *)

Cost(S) == MapThenSumSet(LAMBDA r : r.cost, S)

\* No interleaving with other calls, retries, resets or administration charges a
\* tenant more than the requests counted since the last reset have cost, each of them
\* once, however often it is metered.  (A reset that falls between the read and the
\* commit of an accumulation does not count here: the commit brings the old sum back.)
NeverOvercharged ==
  \A p \in Periods : limit[p].spent <= Cost(past[p].since)

\* A tenant is never locked out of what it has not spent: unless the status is one an
\* administrator has forced, a lock means that the requests counted since that reset
\* reach the alert amount, or all, of a limit in force since then.
LocksAreEarned ==
  \A p \in Periods :
    LET spent == Cost(past[p].since) IN
    ~past[p].forced =>
      /\ limit[p].status # "ACTIVE" => \E t \in past[p].terms : spent >= alertAmount(t)
      /\ limit[p].status = "HARD_LOCKED" => \E t \in past[p].terms : spent >= t.max

\* The alert of a limit is raised once per cooldown, also when several calls cross
\* the threshold on the same reading.  (A reset clears the cooldown; the cooldown
\* itself is longer than anything modelled here.)
AlertsThrottled == \A p \in Periods : alerts[p] <= 1

\* A limit whose period is over is reset, or an administrator gives it a new window.
ExpiredIsReset == \A p \in Periods : limit[p].expired ~> ~limit[p].expired

\* What evaluateStatus's comment says of the state machine: SOFT to HARD is one way,
\* and a hard lock is left only through a period reset or a forced status.
HardLockHolds ==
  [][\A p \in Periods :
       limit[p].status = "HARD_LOCKED" /\ limit'[p].status # "HARD_LOCKED" =>
         todo' # todo \/ ops' # ops]_vars
=============================================================================
