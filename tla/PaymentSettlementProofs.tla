---------------------- MODULE PaymentSettlementProofs ----------------------
(***************************************************************************)
(* Theorems about PaymentSettlement, for any payments, calls and workload. *)
(*                                                                         *)
(* ClaimIsExclusive is inductive given the types.  OneCallbackWins needs   *)
(* two more facts: a payment that a guarded callback has settled is in a   *)
(* terminal status for good, and a guarded callback that is activating a   *)
(* subscription has settled its payment itself.  What rows and calls can   *)
(* be relied on for (EvidenceInv) gives the properties of evidence and     *)
(* lookup and, at the end, the refinement of PaymentBook and what is left  *)
(* of promises the comments make.                                          *)
(***************************************************************************)
EXTENDS PaymentSettlement, TLAPS, FiniteSetTheorems

\* What Next lets one call do.
SomeStep(c) ==
  Receive(c) \/ Step(c) \/ SettleThrows(c) \/ Abandon(c) \/ Throws(c) \/ Crash(c)

(***************************************************************************)
(* Type correctness.                                                       *)
(***************************************************************************)

LEMMA CallTypes ==
  ASSUME TypeOK, NEW c \in Calls
  PROVE  /\ Kind(c) \in Kinds /\ Payment(c) \in Payments /\ req[c].paid \in BOOLEAN
         /\ Row(c) \in Rows
<1>1. req \in [Calls -> RequestType]
  BY SettlementConstants DEF TypeOK
<1>2. req[c] \in RequestType
  BY <1>1
<1>3. Payment(c) \in Payments
  BY <1>2 DEF RequestType, Payment
<1> QED
  BY <1>2, <1>3 DEF RequestType, Kind, Row, TypeOK

LEMMA GotoType ==
  ASSUME TypeOK, NEW c \in Calls, NEW label \in PCs, Goto(c, label)
  PROVE  pc' \in [Calls -> PCs] /\ answer' \in [Calls -> Answers]
BY DEF TypeOK, Goto

LEMMA AnswerType ==
  ASSUME TypeOK, NEW c \in Calls, NEW what \in Answers, Answer(c, what)
  PROVE  pc' \in [Calls -> PCs] /\ answer' \in [Calls -> Answers]
BY DEF TypeOK, Answer, PCs

LEMMA ConcludedType ==
  ASSUME TypeOK, NEW c \in Calls, NEW activated \in BOOLEAN, Concluded(c, activated)
  PROVE  pc' \in [Calls -> PCs] /\ answer' \in [Calls -> Answers]
<1> DEFINE what == IF Kind(c) # "reconcile" THEN "accepted"
                   ELSE IF activated THEN "activated" ELSE "final"
<1>1. what \in Answers
  BY DEF Answers
<1>2. Answer(c, what)
  BY DEF Concluded
<1> HIDE DEF what
<1> QED
  BY <1>1, <1>2, AnswerType

LEMMA ThrownType ==
  ASSUME TypeOK, NEW c \in Calls, Thrown(c)
  PROVE  pc' \in [Calls -> PCs] /\ answer' \in [Calls -> Answers]
<1> DEFINE what == IF Kind(c) \in {"ipn", "webhook"} THEN "accepted" ELSE "error"
<1>1. what \in Answers
  BY DEF Answers
<1>2. Answer(c, what)
  BY DEF Thrown
<1> HIDE DEF what
<1> QED
  BY <1>1, <1>2, AnswerType

LEMMA WriteType ==
  ASSUME TypeOK, NEW c \in Calls, NEW row \in Rows, Write(c, row)
  PROVE  tx' \in [Payments -> Rows]
BY CallTypes DEF TypeOK, Write

LEMMA InitTypeOK == Init => TypeOK
<1> SUFFICES ASSUME Init PROVE TypeOK
  OBVIOUS
<1>1. \A p : NewRow(p) \in Rows
  BY DEF NewRow, Rows, Statuses, GatewayTxIds
<1>2. tx \in [Payments -> Rows] /\ found \in [Calls -> Rows]
  BY <1>1 DEF Init
<1>3. invoice \in [Payments -> {"none", "open", "paid"}]
  BY SettlementConstants DEF Init
<1>4. expiry \in Nat /\ opening \in OpeningPeriods
  BY SettlementConstants DEF Init
<1>5. /\ pc \in [Calls -> PCs] /\ answer \in [Calls -> Answers]
      /\ base \in [Calls -> Nat]
  BY DEF Init, PCs, Answers
<1>7. given \in [Calls -> GatewayTxIds]
  BY DEF Init, GatewayTxIds
<1>6. req \in [Calls -> RequestType]
  BY SettlementConstants DEF Init
<1> QED
  BY <1>2, <1>3, <1>4, <1>5, <1>6, <1>7 DEF Init, TypeOK

\* Unchanged variables keep their types; the rest of each step is what it writes.
LEMMA StepTypeOK == TypeOK /\ [Next]_vars => TypeOK'
<1> SUFFICES ASSUME TypeOK, [Next]_vars PROVE TypeOK'
  OBVIOUS
<1>0. CASE UNCHANGED vars
  BY <1>0 DEF vars, TypeOK
<1> SUFFICES ASSUME NEW c \in Calls,
                    SomeStep(c)
             PROVE  TypeOK'
  BY <1>0 DEF Next, SomeStep
<1> DEFINE Control == pc' \in [Calls -> PCs] /\ answer' \in [Calls -> Answers]
<1>a. /\ {"idle", "lookup", "claim", "settle", "release", "find", "mark", "invoice",
          "subread", "subwrite", "legacymark", "legacyfind", "reconcile", "refundmark",
          "refund", "done"} \subseteq PCs
      /\ {"none", "accepted", "rejected", "retry", "abandoned", "notfound", "final",
          "activated", "error"} \subseteq Answers
  BY DEF PCs, Answers
<1>b. /\ Row(c) \in Rows /\ Payment(c) \in Payments
      /\ req[c].paid \in BOOLEAN /\ Kind(c) \in Kinds
  BY CallTypes
<1>c. \A status \in Statuses : [Row(c) EXCEPT !.status = status] \in Rows
  BY <1>b DEF Rows
<1>d. SettledRow(c) \in Rows
  BY <1>b DEF SettledRow, Rows, Statuses, GatewayTxIds
<1>e. found[c] \in Rows /\ given[c] \in GatewayTxIds
  BY DEF TypeOK
<1>f. ClaimedRow(c) \in Rows
  BY <1>b DEF ClaimedRow, Rows, Statuses, GatewayTxIds
<1>1. CASE Receive(c)
  <2>1. Control
    BY <1>1, <1>a, <1>b, GotoType, AnswerType DEF Receive, Kinds
  <2> QED
    BY <1>1, <2>1 DEF Receive, TypeOK
<1>2. CASE ClaimLookup(c)
  <2>1. Control
    BY <1>2, <1>a, GotoType, AnswerType DEF ClaimLookup
  <2> QED
    BY <1>2, <2>1 DEF ClaimLookup, TypeOK
<1>3. CASE Claim(c)
  <2>1. Control
    BY <1>3, <1>a, GotoType, AnswerType DEF Claim
  <2>2. tx' \in [Payments -> Rows]
    BY <1>3, <1>f, WriteType DEF Claim, TypeOK
  <2> QED
    BY <1>3, <2>1, <2>2 DEF Claim, TypeOK
<1>4. CASE Settle(c)
  <2>1. Control
    BY <1>4, <1>a, GotoType, AnswerType DEF Settle
  <2>2. tx' \in [Payments -> Rows]
    BY <1>4, <1>d, WriteType DEF Settle, CommitSettle, TypeOK
  <2> QED
    BY <1>4, <2>1, <2>2 DEF Settle, CommitSettle, TypeOK
<1>5. CASE SettleThrows(c)
  <2>1. Control
    BY <1>5, <1>a, GotoType DEF SettleThrows
  <2>2. tx' \in [Payments -> Rows]
    BY <1>5, <1>d, WriteType DEF SettleThrows, CommitSettle, TypeOK
  <2> QED
    BY <1>5, <2>1, <2>2 DEF SettleThrows, CommitSettle, TypeOK
<1>6. CASE Release(c)
  <2>1. Control
    BY <1>6, <1>a, AnswerType DEF Release
  <2>2. tx' \in [Payments -> Rows]
    BY <1>6, <1>c, WriteType DEF Release, Statuses, TypeOK
  <2> QED
    BY <1>6, <2>1, <2>2 DEF Release, TypeOK
<1>7. CASE Find(c)
  <2>1. Control
    BY <1>7, <1>a, GotoType, ConcludedType DEF Find
  <2> DEFINE row == [Row(c) EXCEPT !.status = "success", !.gatewayTxId = given[c]]
  <2>a. row \in Rows
    BY <1>b, <1>e DEF Rows, Statuses
  <2>b. tx' = tx \/ Write(c, row)
    BY <1>7 DEF Find
  <2> HIDE DEF row
  <2>2. tx' \in [Payments -> Rows]
    BY <2>a, <2>b, WriteType DEF TypeOK
  <2>3. found' \in [Calls -> Rows]
    BY <1>7, <1>b DEF Find, TypeOK
  <2> QED
    BY <1>7, <2>1, <2>2, <2>3 DEF Find, TypeOK
<1>8. CASE Mark(c)
  <2>1. Control
    BY <1>8, <1>a, GotoType, ConcludedType DEF Mark
  <2> DEFINE row == [status |-> "success", gatewayTxId |-> given[c], meta |-> found[c].meta]
  <2>2. row \in Rows /\ Write(c, row)
    BY <1>8, <1>e DEF Mark, Rows, Statuses
  <2> HIDE DEF row
  <2>3. tx' \in [Payments -> Rows]
    BY <2>2, WriteType
  <2> QED
    BY <1>8, <2>1, <2>3 DEF Mark, TypeOK
<1>9. CASE PayInvoice(c)
  <2>1. Control
    BY <1>9, <1>a, GotoType DEF PayInvoice
  <2> QED
    BY <1>9, <1>b, <2>1 DEF PayInvoice, TypeOK
<1>10. CASE ReadSubscription(c)
  <2>1. Control
    BY <1>10, <1>a, GotoType DEF ReadSubscription
  <2> QED
    BY <1>10, <2>1 DEF ReadSubscription, TypeOK
<1>11. CASE WriteSubscription(c)
  <2>1. Control
    BY <1>11, ConcludedType DEF WriteSubscription
  <2>2. expiry' \in Nat
    BY <1>11 DEF WriteSubscription, computeExpiry, TypeOK
  <2> QED
    BY <1>11, <2>1, <2>2 DEF WriteSubscription, TypeOK
<1>12. CASE LegacyMark(c)
  <2>1. Control
    BY <1>12, <1>a, GotoType DEF LegacyMark
  <2> DEFINE row == [status |-> "success", gatewayTxId |-> "number", meta |-> "raw"]
  <2>2. row \in Rows
    BY DEF Rows, Statuses, GatewayTxIds
  <2>3. tx' \in [Payments -> Rows]
    BY <1>12, <2>2, WriteType DEF LegacyMark, TypeOK
  <2> QED
    BY <1>12, <2>1, <2>3 DEF LegacyMark, TypeOK
<1>13. CASE LegacyFind(c)
  <2>1. Control
    BY <1>13, <1>a, GotoType, AnswerType DEF LegacyFind
  <2> QED
    BY <1>13, <2>1 DEF LegacyFind, TypeOK
<1>14. CASE Reconcile(c)
  <2>1. Control
    BY <1>14, <1>a, GotoType, AnswerType DEF Reconcile
  <2>2. given' \in [Calls -> GatewayTxIds]
    <3>1. Row(c).gatewayTxId \in GatewayTxIds /\ "number" \in GatewayTxIds
      BY <1>b DEF Rows, GatewayTxIds
    <3> QED
      BY <1>14, <3>1 DEF Reconcile, TypeOK
  <2> QED
    BY <1>14, <2>1, <2>2 DEF Reconcile, TypeOK
<1>15. CASE Refund(c)
  <2>1. Control
    BY <1>15, <1>a, GotoType, AnswerType DEF Refund
  <2> QED
    BY <1>15, <2>1 DEF Refund, TypeOK
<1>16. CASE RefundMark(c)
  <2>1. Control
    BY <1>16, <1>a, AnswerType DEF RefundMark
  <2>2. tx' \in [Payments -> Rows]
    BY <1>16, <1>c, WriteType DEF RefundMark, Statuses
  <2> QED
    BY <1>16, <2>1, <2>2 DEF RefundMark, TypeOK
<1>17. CASE Throws(c)
  <2>1. Control
    BY <1>17, <1>a, AnswerType, ThrownType DEF Throws
  <2> QED
    BY <1>17, <2>1 DEF Throws, TypeOK
<1>18. CASE Crash(c)
  <2>1. Control
    BY <1>18, <1>a, AnswerType DEF Crash
  <2> QED
    BY <1>18, <2>1 DEF Crash, TypeOK
<1>19. CASE Abandon(c)
  <2>1. Control
    BY <1>19, <1>a, AnswerType DEF Abandon
  <2>2. tx' \in [Payments -> Rows]
    BY <1>19, <1>f, WriteType DEF Abandon, TypeOK
  <2> QED
    BY <1>19, <2>1, <2>2 DEF Abandon, TypeOK
<1> QED
  BY <1>1, <1>2, <1>3, <1>4, <1>5, <1>6, <1>7, <1>8, <1>9, <1>10, <1>11, <1>12, <1>13,
     <1>14, <1>15, <1>16, <1>17, <1>18, <1>19 DEF SomeStep, Step

\* Every reachable state of the settlement is well typed; in particular a payment's
\* status is always one of the five the schema knows.
THEOREM TypeCorrect == Spec => []TypeOK
<1> QED
  BY InitTypeOK, StepTypeOK, PTL DEF Spec

(***************************************************************************)
(* What a step does to the status of a payment and to the calls.           *)
(***************************************************************************)

LEMMA GotoMoves ==
  ASSUME TypeOK, NEW c \in Calls, NEW label, Goto(c, label)
  PROVE  pc'[c] = label /\ \A d \in Calls \ {c} : pc'[d] = pc[d]
BY DEF TypeOK, Goto

LEMMA AnswerMoves ==
  ASSUME TypeOK, NEW c \in Calls, NEW what, Answer(c, what)
  PROVE  pc'[c] = "done" /\ \A d \in Calls \ {c} : pc'[d] = pc[d]
BY DEF TypeOK, Answer

LEMMA ConcludedMoves ==
  ASSUME TypeOK, NEW c \in Calls, NEW activated, Concluded(c, activated)
  PROVE  pc'[c] = "done" /\ \A d \in Calls \ {c} : pc'[d] = pc[d]
BY AnswerMoves DEF Concluded

LEMMA ThrownMoves ==
  ASSUME TypeOK, NEW c \in Calls, Thrown(c)
  PROVE  pc'[c] = "done" /\ \A d \in Calls \ {c} : pc'[d] = pc[d]
BY AnswerMoves DEF Thrown

LEMMA WriteEffect ==
  ASSUME TypeOK, NEW c \in Calls, NEW row, Write(c, row)
  PROVE  tx'[Payment(c)] = row /\ \A p \in Payments \ {Payment(c)} : tx'[p] = tx[p]
BY CallTypes DEF TypeOK, Write

LEMMA ClaimEffect ==
  ASSUME TypeOK, NEW c \in Calls, Write(c, ClaimedRow(c))
  PROVE  /\ tx'[Payment(c)].status = "processing"
         /\ \A p \in Payments \ {Payment(c)} : tx'[p] = tx[p]
<1>1. ClaimedRow(c).status = "processing"
  BY CallTypes DEF ClaimedRow, Rows
<1> QED
  BY <1>1, WriteEffect

LEMMA StatusEffect ==
  ASSUME TypeOK, NEW c \in Calls, NEW status,
         Write(c, [Row(c) EXCEPT !.status = status])
  PROVE  /\ tx'[Payment(c)].status = status
         /\ \A p \in Payments \ {Payment(c)} : tx'[p] = tx[p]
<1>1. ([Row(c) EXCEPT !.status = status]).status = status
  BY CallTypes DEF Rows
<1> QED
  BY <1>1, WriteEffect

\* A step that writes some status over a payment that was not pending writes none of
\* the two open ones, except that a claim is released; only a claim takes one.
LEMMA StatusSteps ==
  ASSUME TypeOK, NEW c \in Calls,
         SomeStep(c)
  PROVE  /\ req' = req
         /\ \A d \in Calls \ {c} : pc'[d] = pc[d]
         /\ \A p \in Payments : tx'[p] # tx[p] => p = Payment(c)
         /\ \/ tx'[Payment(c)].status = tx[Payment(c)].status
            \/ tx'[Payment(c)].status \in TERMINAL_STATES
            \/ Claimable(c) /\ tx'[Payment(c)].status = "processing"
            \/ Release(c) /\ Releasable(c) /\ tx'[Payment(c)].status = "pending"
         /\ pc'[c] \in {"settle", "release"} =>
              \/ pc[c] \in {"settle", "release"}
              \/ Claim(c) /\ Claimable(c) /\ tx'[Payment(c)].status = "processing"
<1> USE CallTypes
<1> DEFINE Effect ==
      /\ req' = req
      /\ \A d \in Calls \ {c} : pc'[d] = pc[d]
      /\ \A p \in Payments : tx'[p] # tx[p] => p = Payment(c)
      /\ \/ tx'[Payment(c)].status = tx[Payment(c)].status
         \/ tx'[Payment(c)].status \in TERMINAL_STATES
      /\ pc'[c] \in {"settle", "release"} => pc[c] \in {"settle", "release"}
<1>a. SettledRow(c).status \in TERMINAL_STATES
  BY DEF SettledRow, TERMINAL_STATES
<1>b. {"success", "refunded"} \subseteq TERMINAL_STATES
  BY DEF TERMINAL_STATES
<1>1. CASE Receive(c)
  <2>1. Effect
    BY <1>1, GotoMoves, AnswerMoves DEF Receive
  <2> QED
    BY <2>1
<1>2. CASE ClaimLookup(c)
  <2>1. Effect
    BY <1>2, GotoMoves, AnswerMoves DEF ClaimLookup
  <2> QED
    BY <2>1
<1>3. CASE Claim(c)
  <2>1. CASE Claimable(c)
    <3>1. Goto(c, "settle") /\ Write(c, ClaimedRow(c)) /\ req' = req
      BY <1>3, <2>1 DEF Claim
    <3> QED
      BY <1>3, <2>1, <3>1, ClaimEffect, GotoMoves
  <2>2. CASE ~Claimable(c)
    <3>1. Answer(c, "accepted") /\ tx' = tx /\ req' = req
      BY <1>3, <2>2 DEF Claim
    <3> QED
      BY <3>1, AnswerMoves
  <2> QED
    BY <2>1, <2>2
<1>4. CASE Settle(c)
  <2>1. Effect
    BY <1>4, <1>a, GotoMoves, AnswerMoves, WriteEffect DEF Settle, CommitSettle
  <2> QED
    BY <2>1
<1>5. CASE SettleThrows(c)
  <2>1. Effect
    BY <1>5, <1>a, GotoMoves, WriteEffect DEF SettleThrows, CommitSettle
  <2> QED
    BY <2>1
<1>6. CASE Release(c)
  <2>1. Answer(c, "retry") /\ req' = req
    BY <1>6 DEF Release
  <2>2. CASE Releasable(c)
    <3>1. Write(c, [Row(c) EXCEPT !.status = "pending"])
      BY <1>6, <2>2 DEF Release
    <3> QED
      BY <1>6, <2>1, <2>2, <3>1, StatusEffect, AnswerMoves
  <2>3. CASE ~Releasable(c)
    <3>1. tx' = tx
      BY <1>6, <2>3 DEF Release
    <3> QED
      BY <2>1, <3>1, AnswerMoves
  <2> QED
    BY <2>2, <2>3
<1>7. CASE Find(c)
  <2>1. pc'[c] \in {"mark", "done"} /\ \A d \in Calls \ {c} : pc'[d] = pc[d]
    BY <1>7, GotoMoves, ConcludedMoves DEF Find
  <2> DEFINE row == [Row(c) EXCEPT !.status = "success", !.gatewayTxId = given[c]]
  <2>2. row.status = "success"
    BY DEF Rows
  <2>3. req' = req /\ (tx' = tx \/ Write(c, row))
    BY <1>7 DEF Find
  <2> HIDE DEF row
  <2>4. Effect
    BY <1>b, <2>1, <2>2, <2>3, WriteEffect
  <2> QED
    BY <2>4
<1>8. CASE Mark(c)
  <2>1. pc'[c] \in {"invoice", "done"} /\ \A d \in Calls \ {c} : pc'[d] = pc[d]
    BY <1>8, GotoMoves, ConcludedMoves DEF Mark
  <2> DEFINE row == [status |-> "success", gatewayTxId |-> given[c], meta |-> found[c].meta]
  <2>2. Write(c, row) /\ row.status = "success" /\ req' = req
    BY <1>8 DEF Mark
  <2> HIDE DEF row
  <2>3. Effect
    BY <1>b, <2>1, <2>2, WriteEffect
  <2> QED
    BY <2>3
<1>9. CASE PayInvoice(c) \/ ReadSubscription(c) \/ WriteSubscription(c)
  <2>1. tx' = tx /\ req' = req
    BY <1>9 DEF PayInvoice, ReadSubscription, WriteSubscription
  <2>2. /\ pc'[c] \in {"subread", "subwrite", "done"}
        /\ \A d \in Calls \ {c} : pc'[d] = pc[d]
    BY <1>9, GotoMoves, ConcludedMoves DEF PayInvoice, ReadSubscription, WriteSubscription
  <2>3. Effect
    BY <2>1, <2>2
  <2> QED
    BY <2>3
<1>10. CASE LegacyMark(c)
  <2>1. Effect
    BY <1>10, <1>b, GotoMoves, WriteEffect DEF LegacyMark
  <2> QED
    BY <2>1
<1>11. CASE LegacyFind(c) \/ Reconcile(c) \/ Refund(c)
  <2>1. Effect
    BY <1>11, GotoMoves, AnswerMoves DEF LegacyFind, Reconcile, Refund
  <2> QED
    BY <2>1
<1>12. CASE RefundMark(c)
  <2>1. Effect
    BY <1>12, <1>b, AnswerMoves, StatusEffect DEF RefundMark
  <2> QED
    BY <2>1
<1>13. CASE Throws(c) \/ Crash(c)
  <2>1. Effect
    BY <1>13, AnswerMoves, ThrownMoves DEF Throws, Crash
  <2> QED
    BY <2>1
<1>14. CASE Abandon(c)
  <2>1. /\ pc'[c] = "done" /\ \A d \in Calls \ {c} : pc'[d] = pc[d]
        /\ req' = req
    BY <1>14, AnswerMoves DEF Abandon
  <2>2. CASE Claimable(c) /\ Write(c, ClaimedRow(c))
    BY <2>1, <2>2, ClaimEffect
  <2>3. CASE UNCHANGED tx
    BY <2>1, <2>3
  <2> QED
    BY <1>14, <2>2, <2>3 DEF Abandon
<1> QED
  BY <1>1, <1>2, <1>3, <1>4, <1>5, <1>6, <1>7, <1>8, <1>9, <1>10, <1>11, <1>12, <1>13,
     <1>14 DEF SomeStep, Step

(***************************************************************************)
(* The claim.                                                              *)
(***************************************************************************)

LEMMA InitClaims == Init => ClaimIsExclusive
BY DEF Init, ClaimIsExclusive, Holders, CallsFor, AtMostOne

LEMMA StepClaims ==
  ASSUME TypeOK, ClaimIsExclusive, [Next]_vars
  PROVE  ClaimIsExclusive'
<1>0. CASE UNCHANGED vars
  BY <1>0 DEF vars, ClaimIsExclusive, Holders, CallsFor, AtMostOne, Payment
<1> SUFFICES ASSUME NEW c \in Calls,
                    SomeStep(c),
                    NEW p \in Payments
             PROVE  /\ AtMostOne(Holders(p)')
                    /\ tx'[p].status = "pending" => Holders(p)' = {}
  BY <1>0 DEF Next, SomeStep, ClaimIsExclusive, AtMostOne
<1>a. req' = req /\ CallsFor(p)' = CallsFor(p)
  BY StatusSteps DEF CallsFor, Payment
<1>b. AtMostOne(Holders(p)) /\ (tx[p].status = "pending" => Holders(p) = {})
  BY DEF ClaimIsExclusive
\* A claim is won only on a pending payment, which has no holder.
<1>1. CASE Claim(c) /\ Claimable(c) /\ p = Payment(c)
           /\ tx'[Payment(c)].status = "processing"
  <2>1. Holders(p) = {}
    BY <1>1, <1>b DEF Claimable, Row
  <2>2. Holders(p)' \subseteq {c}
    BY <2>1, <1>a, StatusSteps DEF Holders, CallsFor
  <2> QED
    BY <1>1, <2>2 DEF AtMostOne
\* The call that releases the claim was its only holder.
<1>2. CASE Release(c) /\ Releasable(c) /\ p = Payment(c)
  <2>1. c \in Holders(p) /\ pc'[c] = "done"
    BY <1>2, AnswerMoves DEF Release, Holders, CallsFor
  <2>2. Holders(p) = {c}
    BY <2>1, <1>b DEF AtMostOne
  <2>3. Holders(p)' = {}
    BY <2>1, <2>2, <1>a, StatusSteps DEF Holders, CallsFor
  <2> QED
    BY <2>3 DEF AtMostOne
\* Any other step gives nobody the claim and does not make the payment pending.
<1>3. CASE /\ ~(Claim(c) /\ Claimable(c) /\ p = Payment(c)
                 /\ tx'[Payment(c)].status = "processing")
           /\ ~(Release(c) /\ Releasable(c) /\ p = Payment(c))
  <2>1. Holders(p)' \subseteq Holders(p)
    BY <1>3, <1>a, StatusSteps DEF Holders, CallsFor
  <2>2. tx'[p].status = "pending" => tx[p].status = "pending"
    BY <1>3, StatusSteps DEF TERMINAL_STATES
  <2> QED
    BY <2>1, <2>2, <1>b DEF AtMostOne
<1> QED
  BY <1>1, <1>2, <1>3

\* No two callbacks of a payment hold its claim at once, and no release gives away
\* the claim of another (MomoIpnGuard / VnpayIpnGuard claim and settle).
THEOREM ClaimSafety == Spec => []ClaimIsExclusive
<1> QED
  BY TypeCorrect, InitClaims, StepClaims, PTL DEF Spec

(***************************************************************************)
(* The settlement.                                                         *)
(***************************************************************************)

\* A settled payment is, and stays, in a terminal status.
SettledIsFinal == \A c \in settled : Row(c).status \in TERMINAL_STATES

\* A guarded callback reaches the activator only by way of its own settlement.
GuardedCallsSettle ==
  \A c \in Calls : Kind(c) = "ipn" =>
    /\ pc[c] \in {"idle", "lookup", "claim", "settle", "release", "done"} \cup Activating
    /\ pc[c] \in Activating \/ c \in granted => c \in settled

SettlementInv == SettledIsFinal /\ GuardedCallsSettle /\ OneCallbackWins

LEMMA InitSettlement == Init => SettlementInv
BY DEF Init, SettlementInv, SettledIsFinal, GuardedCallsSettle, OneCallbackWins,
       Activating, AtMostOne

\* Only a settlement under the fence adds to settled.
LEMMA SettledSteps ==
  ASSUME TypeOK, NEW c \in Calls,
         SomeStep(c)
  PROVE  \/ settled' = settled
         \/ Fence(c) /\ settled' = settled \cup {c}
            /\ tx'[Payment(c)].status \in TERMINAL_STATES
<1>1. SettledRow(c).status \in TERMINAL_STATES
  BY DEF SettledRow, TERMINAL_STATES
<1>2. CASE Settle(c) \/ SettleThrows(c)
  BY <1>1, <1>2, WriteEffect DEF Settle, SettleThrows, CommitSettle
<1>3. CASE ~(Settle(c) \/ SettleThrows(c))
  BY <1>3 DEF SomeStep, Receive, Step, Abandon, Throws, Crash, ClaimLookup, Claim,
              Release, Find, Mark, PayInvoice, ReadSubscription, WriteSubscription, LegacyMark,
              LegacyFind,
              Reconcile, Refund, RefundMark
<1> QED
  BY <1>2, <1>3

\* A call reaches the activator from the guard after its own settlement, or as one of
\* the other kinds.
LEMMA GuardedSteps ==
  ASSUME TypeOK, GuardedCallsSettle, NEW c \in Calls, Kind(c) = "ipn",
         SomeStep(c)
  PROVE  /\ pc'[c] \in {"idle", "lookup", "claim", "settle", "release", "done"}
                       \cup Activating
         /\ pc'[c] \in Activating \/ c \in granted' => c \in settled'
<1> USE DEF Activating
<1>a. /\ pc[c] \in {"idle", "lookup", "claim", "settle", "release", "done"} \cup Activating
      /\ pc[c] \in Activating \/ c \in granted => c \in settled
  BY DEF GuardedCallsSettle
<1>b. settled \subseteq settled'
  BY SettledSteps
<1>c. granted' = granted \/ pc[c] = "subwrite"
  BY DEF SomeStep, Receive, Step, SettleThrows, Abandon, Throws, Crash, ClaimLookup,
         Claim, Settle, Release, Find, Mark, PayInvoice, ReadSubscription,
         WriteSubscription, LegacyMark, LegacyFind, Reconcile, Refund, RefundMark
<1>1. CASE Receive(c)
  BY <1>1, <1>a, <1>b, <1>c, GotoMoves DEF Receive
<1>2. CASE ClaimLookup(c) \/ Claim(c)
  <2>1. pc'[c] \in {"claim", "settle", "done"} /\ pc[c] \notin Activating
    BY <1>2, GotoMoves, AnswerMoves DEF ClaimLookup, Claim
  <2> QED
    BY <2>1, <1>a, <1>b, <1>c
<1>3. CASE Settle(c)
  <2>1. /\ pc[c] = "settle"
        /\ pc'[c] \in {"find", "done"}
        /\ pc'[c] = "find" => c \in settled'
    <3>1. CASE CommitSettle(c)
      BY <1>3, <3>1, GotoMoves, AnswerMoves DEF Settle, CommitSettle
    <3>2. CASE Answer(c, "retry")
      BY <1>3, <3>2, AnswerMoves DEF Settle
    <3> QED
      BY <1>3, <3>1, <3>2 DEF Settle
  <2> QED
    BY <2>1, <1>a, <1>b, <1>c
<1>4. CASE SettleThrows(c) \/ Release(c) \/ Abandon(c)
  <2>1. pc'[c] \in {"release", "done"} /\ pc[c] \notin Activating
    BY <1>4, GotoMoves, AnswerMoves DEF SettleThrows, Release, Abandon, Activating
  <2> QED
    BY <2>1, <1>a, <1>b, <1>c
<1>5. CASE Find(c) \/ Mark(c)
  <2>1. pc'[c] \in {"mark", "invoice", "done"} /\ pc[c] \in Activating
    <3>1. CASE Find(c)
      BY <3>1, GotoMoves, ConcludedMoves DEF Find
    <3>2. CASE Mark(c)
      BY <3>2, GotoMoves, ConcludedMoves DEF Mark
    <3> QED
      BY <1>5, <3>1, <3>2
  <2> QED
    BY <2>1, <1>a, <1>b, <1>c
<1>6. CASE PayInvoice(c) \/ ReadSubscription(c) \/ WriteSubscription(c)
  <2>1. pc'[c] \in {"subread", "subwrite", "done"} /\ pc[c] \in Activating
    <3>1. CASE PayInvoice(c)
      BY <3>1, GotoMoves DEF PayInvoice
    <3>2. CASE ReadSubscription(c)
      BY <3>2, GotoMoves DEF ReadSubscription
    <3>3. CASE WriteSubscription(c)
      BY <3>3, ConcludedMoves DEF WriteSubscription
    <3> QED
      BY <1>6, <3>1, <3>2, <3>3
  <2> QED
    BY <2>1, <1>a, <1>b, <1>c
<1>7. CASE LegacyMark(c) \/ LegacyFind(c) \/ Reconcile(c) \/ Refund(c) \/ RefundMark(c)
  <2>1. pc[c] \in {"legacymark", "legacyfind", "reconcile", "refund", "refundmark"}
    BY <1>7 DEF LegacyMark, LegacyFind, Reconcile, Refund, RefundMark
  <2> QED
    BY <2>1, <1>a
<1>8. CASE Throws(c) \/ Crash(c)
  <2>1. pc'[c] = "done"
    BY <1>8, AnswerMoves, ThrownMoves DEF Throws, Crash
  <2>2. granted' = granted
    BY <1>8 DEF Throws, Crash
  <2> QED
    BY <2>1, <2>2, <1>a, <1>b
<1> QED
  BY <1>1, <1>2, <1>3, <1>4, <1>5, <1>6, <1>7, <1>8 DEF SomeStep, Step

LEMMA GrantedSteps ==
  ASSUME TypeOK, NEW c \in Calls,
         SomeStep(c)
  PROVE  granted' \subseteq granted \cup {c}
BY DEF SomeStep, Receive, Step, SettleThrows, Abandon, Throws, Crash, ClaimLookup,
       Claim, Settle, Release, Find, Mark, PayInvoice, ReadSubscription,
       WriteSubscription, LegacyMark, LegacyFind, Reconcile, Refund, RefundMark

LEMMA StepSettlement ==
  ASSUME TypeOK, SettlementInv, [Next]_vars
  PROVE  SettlementInv'
<1>0. CASE UNCHANGED vars
  BY <1>0 DEF vars, SettlementInv, SettledIsFinal, GuardedCallsSettle, OneCallbackWins,
              CallsFor, AtMostOne, Row, Kind, Payment
<1> SUFFICES ASSUME NEW c \in Calls,
                    SomeStep(c)
             PROVE  SettlementInv'
  BY <1>0 DEF Next, SomeStep
<1>a. /\ req' = req
      /\ \A p : CallsFor(p)' = CallsFor(p)
      /\ \A d \in Calls : Kind(d)' = Kind(d) /\ Payment(d)' = Payment(d)
  BY StatusSteps DEF CallsFor, Payment, Kind
<1>b. settled \subseteq Calls /\ granted \subseteq Calls
  BY DEF TypeOK
\* A terminal status is left by no step: a claim wants pending, a release processing.
<1>1. \A p \in Payments : tx[p].status \in TERMINAL_STATES =>
                             tx'[p].status \in TERMINAL_STATES
  BY StatusSteps DEF Claimable, Releasable, Row, TERMINAL_STATES
<1>2. SettledIsFinal'
  <2> SUFFICES ASSUME NEW d \in settled' PROVE tx'[Payment(d)].status \in TERMINAL_STATES
    BY <1>a, <1>b, SettledSteps DEF SettledIsFinal, Row
  <2>1. CASE d \in settled
    BY <2>1, <1>1, <1>b, CallTypes DEF SettledIsFinal, SettlementInv, Row
  <2>2. CASE d \notin settled
    BY <2>2, SettledSteps
  <2> QED
    BY <2>1, <2>2
<1>3. GuardedCallsSettle'
  <2> SUFFICES ASSUME NEW d \in Calls, Kind(d) = "ipn"
               PROVE  /\ pc'[d] \in {"idle", "lookup", "claim", "settle", "release", "done"}
                                    \cup Activating
                      /\ pc'[d] \in Activating \/ d \in granted' => d \in settled'
    BY <1>a DEF GuardedCallsSettle, Activating
  <2>1. CASE d = c
    BY <2>1, GuardedSteps DEF SettlementInv
  <2>2. CASE d # c
    BY <2>2, StatusSteps, GrantedSteps, SettledSteps DEF SettlementInv, GuardedCallsSettle
  <2> QED
    BY <2>1, <2>2
\* The fence lets nobody settle a payment that has been settled.
<1>4. OneCallbackWins'
  <2> SUFFICES ASSUME NEW p \in Payments
               PROVE  /\ AtMostOne(settled' \cap CallsFor(p))
                      /\ {d \in granted' \cap CallsFor(p) : Kind(d) = "ipn"}
                           \subseteq settled'
    BY <1>a, <1>b, GrantedSteps DEF OneCallbackWins, CallsFor, AtMostOne
  <2>1. AtMostOne(settled \cap CallsFor(p))
    BY DEF SettlementInv, OneCallbackWins
  <2>2. CASE settled' # settled /\ p = Payment(c)
    <3>1. Fence(c) /\ settled' = settled \cup {c}
      BY <2>2, SettledSteps
    <3>2. settled \cap CallsFor(p) = {}
      BY <2>2, <3>1 DEF Fence, Row, CallsFor, SettlementInv, SettledIsFinal, TERMINAL_STATES
    <3> QED
      BY <3>1, <3>2, <1>3, <1>a DEF AtMostOne, GuardedCallsSettle, CallsFor
  <2>3. CASE ~(settled' # settled /\ p = Payment(c))
    <3>1. settled' \cap CallsFor(p) = settled \cap CallsFor(p)
      BY <2>3, SettledSteps DEF CallsFor
    <3> QED
      BY <3>1, <2>1, <1>3, <1>a DEF GuardedCallsSettle, CallsFor
  <2> QED
    BY <2>2, <2>3
<1> QED
  BY <1>2, <1>3, <1>4 DEF SettlementInv

\* However often a gateway delivers its callback, one delivery settles the payment and
\* only that one goes on to add a subscription period.
THEOREM SettlementSafety == Spec => []OneCallbackWins
<1>1. SettlementInv => OneCallbackWins
  BY DEF SettlementInv
<1> QED
  BY TypeCorrect, InitSettlement, StepSettlement, <1>1, PTL DEF Spec

(***************************************************************************)
(* Nothing counts as paid without evidence, every period is earned, no row *)
(* is orphaned and a status only moves forward.                            *)
(*                                                                         *)
(* All but the periods rest on one invariant, EvidenceInv: of every row,   *)
(* what its two keys say of its status and of who has written it; of every *)
(* call, what it has behind it and what the row it works on is by now.     *)
(***************************************************************************)

\* Paid for, whether or not it has been refunded since.
Good(p) == tx[p].status \in {"success", "refunded"}

\* A legacy handler has been at work on the payment.
Legacy(p) == \E d \in CallsFor(p) : Kind(d) = "legacy" /\ req[d].paid /\ pc[d] # "idle"

Evidence(p) == \E c \in CallsFor(p) : Vouches(c)

RowInv(p) ==
  /\ p \in MomoPayments => tx[p].meta = "orderId" /\ tx[p].gatewayTxId # "order"
  /\ p \notin MomoPayments =>
       /\ tx[p].meta # "orderId" => tx[p].status \in TERMINAL_STATES
       /\ \/ tx[p].gatewayTxId = "order" \/ tx[p].meta = "txnRef" \/ Legacy(p)
          \/ ClaimedUnsettled(p)
  /\ tx[p].gatewayTxId = "order" => tx[p].status = "pending"
  /\ Good(p) => Evidence(p)

\* What a call has come past, by where it stands.
Behind(c) ==
  /\ pc[c] \in {"lookup", "claim", "settle", "release"} => Kind(c) = "ipn"
  /\ pc[c] \in {"claim", "settle", "release"} => req[c].amountMatches
  /\ pc[c] \in {"legacymark", "legacyfind"} => Kind(c) = "legacy" /\ req[c].paid
  /\ pc[c] = "reconcile" => Kind(c) = "reconcile"
  /\ pc[c] \in {"find", "mark"} =>
       /\ Vouches(c) /\ Kind(c) # "legacy"
       /\ Kind(c) = "reconcile" => Momo(c)
  /\ given[c] # "order" /\ (Kind(c) # "reconcile" => given[c] = "number")
  /\ Momo(c) => found[c].meta = "orderId"
  /\ pc[c] = "mark" /\ ~Momo(c) => found[c].meta = "txnRef" \/ Legacy(Payment(c))

\* What it may rely on in the row, whoever has written it since.
Relies(c) ==
  /\ pc[c] \in {"find", "mark"} /\ Kind(c) = "ipn" => Good(Payment(c))
  /\ pc[c] \in {"find", "mark"} /\ ~Momo(c) =>
       Row(c).meta = "txnRef" \/ Legacy(Payment(c))
  /\ pc[c] = "legacyfind" => Row(c).gatewayTxId # "order"
  /\ pc[c] \in {"invoice", "subread", "subwrite", "refundmark"} \/ c \in granted =>
       Good(Payment(c))
  /\ pc[c] \in {"subread", "subwrite"} \/ c \in granted => invoice[Payment(c)] = "paid"

EvidenceInv ==
  /\ req \in Workloads
  /\ \A p \in Payments : RowInv(p)
  /\ \A c \in Calls : Behind(c) /\ Relies(c)

LEMMA InitEvidence == Init => EvidenceInv
<1> SUFFICES ASSUME Init PROVE EvidenceInv
  OBVIOUS
<1>1. TypeOK
  BY InitTypeOK
<1>2. ASSUME NEW p \in Payments PROVE RowInv(p)
  <2>1. tx[p] = NewRow(p)
    BY DEF Init
  <2> QED
    BY <2>1 DEF RowInv, NewRow, Good
<1>3. ASSUME NEW c \in Calls PROVE Behind(c) /\ Relies(c)
  <2>1. pc[c] = "idle" /\ found[c] = NewRow(Payment(c)) /\ given[c] = "number"
        /\ c \notin granted
    BY DEF Init
  <2> QED
    BY <2>1 DEF Behind, Relies, NewRow, Momo
<1>4. req \in Workloads
  BY DEF Init
<1> QED
  BY <1>2, <1>3, <1>4 DEF EvidenceInv

(***************************************************************************)
(* What a step leaves alone and what it only adds to.                      *)
(***************************************************************************)

LEMMA Frame ==
  ASSUME TypeOK, NEW c \in Calls, SomeStep(c)
  PROVE  /\ pc'[c] # "idle"
         /\ \A d \in Calls \ {c} : found'[d] = found[d] /\ given'[d] = given[d]
         /\ \A d \in Calls \ {c} : answer'[d] = answer[d]
         /\ \A p \in Payments : invoice[p] = "paid" => invoice'[p] = "paid"
         /\ \/ granted' = granted
            \/ granted' = granted \cup {c} /\ pc[c] = "subwrite"
<1>1. pc'[c] # "idle"
  <2>a. ASSUME NEW label \in PCs \ {"idle"}, Goto(c, label) PROVE pc'[c] # "idle"
    BY <2>a, GotoMoves
  <2>b. ASSUME NEW what, Answer(c, what) PROVE pc'[c] # "idle"
    BY <2>b, AnswerMoves
  <2>c. ASSUME NEW activated, Concluded(c, activated) PROVE pc'[c] # "idle"
    BY <2>c, ConcludedMoves
  <2>0. CASE Receive(c) \/ ClaimLookup(c)
    BY <2>0, <2>a, <2>b DEF Receive, ClaimLookup, PCs
  <2>1. CASE Claim(c) \/ Settle(c)
    BY <2>1, <2>a, <2>b DEF Claim, Settle, PCs
  <2>2. CASE SettleThrows(c) \/ Release(c) \/ Abandon(c)
    BY <2>2, <2>a, <2>b DEF SettleThrows, Release, Abandon, PCs
  <2>3. CASE Find(c) \/ Mark(c)
    BY <2>3, <2>a, <2>c DEF Find, Mark, PCs
  <2>4. CASE PayInvoice(c) \/ ReadSubscription(c) \/ WriteSubscription(c)
    BY <2>4, <2>a, <2>c DEF PayInvoice, ReadSubscription, WriteSubscription, PCs
  <2>5. CASE LegacyMark(c) \/ LegacyFind(c) \/ Reconcile(c) \/ Refund(c) \/ RefundMark(c)
    BY <2>5, GotoMoves, AnswerMoves DEF LegacyMark, LegacyFind, Reconcile, Refund, RefundMark
  <2>6. CASE Throws(c) \/ Crash(c)
    BY <2>6, AnswerMoves, ThrownMoves DEF Throws, Crash
  <2> QED
    BY <2>0, <2>1, <2>2, <2>3, <2>4, <2>5, <2>6 DEF SomeStep, Step
<1>2. \A d \in Calls \ {c} : found'[d] = found[d] /\ given'[d] = given[d]
  BY DEF TypeOK, SomeStep, Receive, Step, SettleThrows, Abandon, Throws, Crash,
         ClaimLookup, Claim, Settle, Release, Find, Mark, PayInvoice, ReadSubscription,
         WriteSubscription, LegacyMark, LegacyFind, Reconcile, Refund, RefundMark
<1>5. \A d \in Calls \ {c} : answer'[d] = answer[d]
  BY DEF TypeOK, SomeStep, Receive, Step, SettleThrows, Abandon, Throws, Crash,
         ClaimLookup, Claim, Settle, Release, Find, Mark, PayInvoice, ReadSubscription,
         WriteSubscription, LegacyMark, LegacyFind, Reconcile, Refund, RefundMark, Goto,
         Answer, Concluded, Thrown
<1>3. \A p \in Payments : invoice[p] = "paid" => invoice'[p] = "paid"
  BY DEF TypeOK, SomeStep, Receive, Step, SettleThrows, Abandon, Throws, Crash,
         ClaimLookup, Claim, Settle, Release, Find, Mark, PayInvoice, ReadSubscription,
         WriteSubscription, LegacyMark, LegacyFind, Reconcile, Refund, RefundMark
<1>4. granted' = granted \/ (granted' = granted \cup {c} /\ pc[c] = "subwrite")
  BY DEF SomeStep, Receive, Step, SettleThrows, Abandon, Throws, Crash,
         ClaimLookup, Claim, Settle, Release, Find, Mark, PayInvoice, ReadSubscription,
         WriteSubscription, LegacyMark, LegacyFind, Reconcile, Refund, RefundMark
<1> QED
  BY <1>1, <1>2, <1>3, <1>4, <1>5

\* Evidence and a legacy handler's work stay on record.
LEMMA Lasting ==
  ASSUME TypeOK, NEW c \in Calls, SomeStep(c)
  PROVE  /\ \A d \in Calls : /\ Kind(d)' = Kind(d) /\ Payment(d)' = Payment(d)
                             /\ Momo(d)' = Momo(d) /\ (Vouches(d) => Vouches(d)')
         /\ \A p : /\ CallsFor(p)' = CallsFor(p)
                   /\ Legacy(p) => Legacy(p)'
                   /\ Evidence(p) => Evidence(p)'
<1>1. req' = req /\ \A d \in Calls : pc[d] # "idle" => pc'[d] # "idle"
  BY StatusSteps, Frame
<1>2. \A d \in Calls : /\ Kind(d)' = Kind(d) /\ Payment(d)' = Payment(d)
                       /\ Momo(d)' = Momo(d) /\ (Vouches(d) => Vouches(d)')
  BY <1>1 DEF Kind, Payment, Momo, Vouches
<1>3. \A p : CallsFor(p)' = CallsFor(p)
  BY <1>1 DEF CallsFor, Payment
<1>4. \A p : Legacy(p) => Legacy(p)'
  BY <1>1, <1>2, <1>3 DEF Legacy, CallsFor
<1>5. \A p : Evidence(p) => Evidence(p)'
  BY <1>2, <1>3 DEF Evidence, CallsFor
<1> QED
  BY <1>2, <1>3, <1>4, <1>5

(***************************************************************************)
(* What a step does to the row of its payment.                             *)
(***************************************************************************)

SameKeys(p) == tx'[p].meta = tx[p].meta /\ tx'[p].gatewayTxId = tx[p].gatewayTxId

Claims(c) ==
  /\ pc[c] = "claim" /\ Claimable(c) /\ tx'[Payment(c)] = ClaimedRow(c)
  /\ pc'[c] = "settle" \/ (pc'[c] = "done" /\ answer'[c] = "abandoned")

GivesBack(c) ==
  /\ SameKeys(Payment(c))
  /\ tx[Payment(c)].status = "processing" /\ tx'[Payment(c)].status = "pending"
  /\ pc[c] = "release" /\ pc'[c] = "done" /\ answer'[c] = "retry"

Settles(c) == pc[c] = "settle" /\ Fence(c) /\ tx'[Payment(c)] = SettledRow(c)

Marks(c) ==
  /\ pc[c] = "mark" /\ pc'[c] # pc[c]
  /\ tx'[Payment(c)].status = "success"
  /\ tx'[Payment(c)].meta = found[c].meta
  /\ tx'[Payment(c)].gatewayTxId = given[c]

Renames(c) ==
  /\ pc[c] = "legacymark" /\ pc'[c] # pc[c]
  /\ tx[Payment(c)].gatewayTxId = "order"
  /\ tx'[Payment(c)] = [status |-> "success", gatewayTxId |-> "number", meta |-> "raw"]

Refunds(c) ==
  pc[c] = "refundmark" /\ SameKeys(Payment(c)) /\ tx'[Payment(c)].status = "refunded"

LEMMA RewriteStatus ==
  ASSUME TypeOK, NEW c \in Calls, NEW status,
         Write(c, [Row(c) EXCEPT !.status = status])
  PROVE  tx'[Payment(c)].status = status /\ SameKeys(Payment(c))
<1> PICK row : row = [Row(c) EXCEPT !.status = status]
  OBVIOUS
<1>1. row.status = status /\ row.meta = Row(c).meta /\ row.gatewayTxId = Row(c).gatewayTxId
  BY CallTypes DEF Rows
<1>2. tx'[Payment(c)] = row
  BY WriteEffect
<1> QED
  BY <1>1, <1>2 DEF SameKeys, Row

LEMMA MarkWrites ==
  ASSUME TypeOK, NEW c \in Calls, Mark(c)
  PROVE  Marks(c) /\ pc'[c] \in {"invoice", "done"}
<1> PICK row : row = [status |-> "success", gatewayTxId |-> given[c], meta |-> found[c].meta]
  OBVIOUS
<1>1. row.status = "success" /\ row.meta = found[c].meta /\ row.gatewayTxId = given[c]
  OBVIOUS
<1>2. tx'[Payment(c)] = row
  BY WriteEffect DEF Mark
<1>3. pc[c] = "mark" /\ pc'[c] \in {"invoice", "done"}
  BY GotoMoves, ConcludedMoves DEF Mark
<1> QED
  BY <1>1, <1>2, <1>3 DEF Marks

\* reconcile never has to mark a row its activator did not find: it finds MoMo rows only,
\* by the key that MoMo rows keep.
LEMMA RowSteps ==
  ASSUME TypeOK, EvidenceInv, NEW c \in Calls, SomeStep(c)
  PROVE  \/ tx'[Payment(c)] = tx[Payment(c)]
         \/ Claims(c) \/ GivesBack(c) \/ Settles(c) \/ Marks(c) \/ Renames(c)
         \/ Refunds(c)
<1>1. CASE \/ Receive(c) \/ ClaimLookup(c) \/ PayInvoice(c) \/ ReadSubscription(c)
           \/ WriteSubscription(c) \/ LegacyFind(c) \/ Reconcile(c) \/ Refund(c)
           \/ Throws(c) \/ Crash(c)
  BY <1>1 DEF Receive, ClaimLookup, PayInvoice, ReadSubscription, WriteSubscription,
              LegacyFind, Reconcile, Refund, Throws, Crash
<1>2. CASE Claim(c) \/ Abandon(c)
  <2>1. CASE /\ pc[c] = "claim" /\ Claimable(c) /\ Write(c, ClaimedRow(c))
             /\ Goto(c, "settle") \/ Answer(c, "abandoned")
    <3>1. tx'[Payment(c)] = ClaimedRow(c)
      BY <2>1, WriteEffect
    <3>2. pc'[c] = "settle" \/ (pc'[c] = "done" /\ answer'[c] = "abandoned")
      BY <2>1, GotoMoves, AnswerMoves DEF Answer, TypeOK
    <3> QED
      BY <2>1, <3>1, <3>2 DEF Claims
  <2>2. CASE tx' = tx
    BY <2>2
  <2> QED
    BY <1>2, <2>1, <2>2 DEF Claim, Abandon
<1>3. CASE Release(c)
  <2>1. CASE Releasable(c) /\ Write(c, [Row(c) EXCEPT !.status = "pending"])
    <3>1. tx'[Payment(c)].status = "pending" /\ SameKeys(Payment(c))
      BY <2>1, RewriteStatus
    <3>2. pc[c] = "release" /\ pc'[c] = "done" /\ answer'[c] = "retry"
      BY <1>3, AnswerMoves DEF Release, Answer, TypeOK
    <3> QED
      BY <2>1, <3>1, <3>2 DEF Releasable, Row, GivesBack
  <2> QED
    BY <1>3, <2>1 DEF Release
<1>4. CASE Settle(c) \/ SettleThrows(c)
  BY <1>4, WriteEffect DEF Settle, SettleThrows, CommitSettle, Settles
<1>5. CASE Find(c)
  <2>1. Behind(c) /\ RowInv(Payment(c))
    BY CallTypes DEF EvidenceInv
  <2>2. Kind(c) = "reconcile" => ActivatorFinds(c)
    BY <1>5, <2>1 DEF Find, Behind, RowInv, Momo, ActivatorFinds, Row
  <2> QED
    BY <1>5, <2>2 DEF Find
<1>6. CASE Mark(c)
  BY <1>6, MarkWrites
<1>7. CASE LegacyMark(c)
  <2>1. pc[c] = "legacymark" /\ pc'[c] = "legacyfind"
    BY <1>7, GotoMoves DEF LegacyMark
  <2> QED
    BY <1>7, <2>1, WriteEffect DEF LegacyMark, Renames, Row
<1>8. CASE RefundMark(c)
  BY <1>8, RewriteStatus DEF RefundMark, Refunds
<1> QED
  BY <1>1, <1>2, <1>3, <1>4, <1>5, <1>6, <1>7, <1>8 DEF SomeStep, Step

LEMMA ClaimedKeys ==
  ASSUME TypeOK, NEW c \in Calls
  PROVE  /\ ClaimedRow(c).status = "processing" /\ ClaimedRow(c).meta = Row(c).meta
         /\ ClaimedRow(c).gatewayTxId = IF Momo(c) THEN Row(c).gatewayTxId ELSE "number"
<1>1. Row(c) \in Rows
  BY CallTypes
<1> QED
  BY <1>1 DEF ClaimedRow, Rows

\* What the row of a payment keeps, whoever writes it.
LEMMA RowKeeps ==
  ASSUME TypeOK, EvidenceInv, NEW c \in Calls, SomeStep(c), NEW p \in Payments
  PROVE  /\ Good(p) => Good(p)'
         /\ tx'[p].gatewayTxId = "order" => tx[p].gatewayTxId = "order"
         /\ p \notin MomoPayments /\ tx[p].meta = "txnRef" =>
              tx'[p].meta = "txnRef" \/ Legacy(p)
<1>1. CASE tx'[p] = tx[p]
  BY <1>1 DEF Good
<1> SUFFICES ASSUME tx'[p] # tx[p]
             PROVE  /\ Good(p) => Good(p)'
                    /\ tx'[p].gatewayTxId = "order" => tx[p].gatewayTxId = "order"
                    /\ p \notin MomoPayments /\ tx[p].meta = "txnRef" =>
                         tx'[p].meta = "txnRef" \/ Legacy(p)
  BY <1>1
<1>2. p = Payment(c) /\ Row(c) = tx[p] /\ (Momo(c) <=> p \in MomoPayments)
  BY StatusSteps DEF Row, Momo
<1>3. Behind(c) /\ Relies(c)
  BY DEF EvidenceInv
<1>4. CASE GivesBack(c) \/ Refunds(c)
  BY <1>2, <1>4 DEF GivesBack, Refunds, SameKeys, Good, TERMINAL_STATES
<1>8. CASE Claims(c)
  BY <1>2, <1>8, ClaimedKeys DEF Claims, Claimable, Good
<1>5. CASE Settles(c)
  BY <1>2, <1>5 DEF Settles, SettledRow, Fence, Good
<1>6. CASE Marks(c)
  BY <1>2, <1>3, <1>6 DEF Marks, Behind, Good
<1>7. CASE Renames(c)
  <2>1. Legacy(p)
    BY <1>2, <1>3, <1>7 DEF Renames, Behind, Legacy, CallsFor
  <2> QED
    BY <1>2, <1>7, <2>1 DEF Renames, Good
<1> QED
  BY <1>2, <1>4, <1>5, <1>6, <1>7, <1>8, RowSteps

\* A callback that has claimed a payment stays on record until it has settled it.
LEMMA ClaimLasts ==
  ASSUME TypeOK, NEW c \in Calls, SomeStep(c), NEW p \in Payments, tx'[p] = tx[p],
         ClaimedUnsettled(p)
  PROVE  ClaimedUnsettled(p)'
<1> PICK d \in CallsFor(p) :
           /\ Kind(d) = "ipn" /\ req[d].amountMatches
           /\ \/ pc[d] \in {"settle", "release"}
              \/ pc[d] = "done" /\ answer[d] \in {"retry", "abandoned", "none"}
  BY DEF ClaimedUnsettled
<1>1. /\ d \in Calls /\ d \in CallsFor(p)' /\ tx[p].status \notin TERMINAL_STATES
      /\ Kind(d)' = "ipn" /\ req'[d].amountMatches
  BY Lasting, StatusSteps DEF ClaimedUnsettled, CallsFor
<1> SUFFICES \/ pc'[d] \in {"settle", "release"}
             \/ pc'[d] = "done" /\ answer'[d] \in {"retry", "abandoned", "none"}
  BY <1>1 DEF ClaimedUnsettled
<1>2. CASE d # c
  BY <1>1, <1>2, StatusSteps, Frame
<1>a. ASSUME NEW what, Answer(c, what) PROVE pc'[c] = "done" /\ answer'[c] = what
  BY <1>a, AnswerMoves DEF Answer, TypeOK
<1>3. CASE d = c /\ pc[c] = "done"
  BY <1>3 DEF SomeStep, Step, Receive, ClaimLookup, Claim, Settle, SettleThrows, Release,
     Abandon, Find, Mark, PayInvoice, ReadSubscription, WriteSubscription, LegacyMark,
     LegacyFind, Reconcile, Refund, RefundMark, Throws, Activating, Crash
<1>4. CASE d = c /\ pc[c] = "settle"
  <2>1. Settle(c) \/ SettleThrows(c) \/ Crash(c)
    BY <1>4 DEF SomeStep, Step, Receive, ClaimLookup, Claim, Release, Abandon, Find, Mark,
       PayInvoice, ReadSubscription, WriteSubscription, LegacyMark, LegacyFind, Reconcile,
       Refund, RefundMark, Throws, Activating
  <2>2. CASE SettleThrows(c)
    BY <1>4, <2>2, GotoMoves DEF SettleThrows
  <2>3. CASE Crash(c)
    BY <1>4, <2>3, <1>a DEF Crash
  <2>4. CASE Settle(c)
    <3>1. p = Payment(c)
      BY <1>4 DEF CallsFor
    <3>2. ~CommitSettle(c)
      <4>1. ASSUME CommitSettle(c) PROVE tx'[p].status \in TERMINAL_STATES
        BY <3>1, <4>1, WriteEffect DEF CommitSettle, SettledRow, TERMINAL_STATES
      <4> QED
        BY <1>1, <4>1
    <3> QED
      BY <1>4, <2>4, <3>2, <1>a DEF Settle
  <2> QED
    BY <2>1, <2>2, <2>3, <2>4
<1>5. CASE d = c /\ pc[c] = "release"
  <2>1. Release(c) \/ Abandon(c) \/ Crash(c)
    BY <1>5 DEF SomeStep, Step, Receive, ClaimLookup, Claim, Settle, SettleThrows, Find,
       Mark, PayInvoice, ReadSubscription, WriteSubscription, LegacyMark, LegacyFind,
       Reconcile, Refund, RefundMark, Throws, Activating
  <2> QED
    BY <1>5, <2>1, <1>a DEF Release, Abandon, Crash
<1> QED
  BY <1>2, <1>3, <1>4, <1>5

LEMMA StepRow ==
  ASSUME TypeOK, EvidenceInv, NEW c \in Calls, SomeStep(c), NEW p \in Payments
  PROVE  RowInv(p)'
<1>0. /\ RowInv(p) /\ Behind(c) /\ Relies(c)
      /\ Legacy(p) => Legacy(p)'
      /\ Evidence(p) => Evidence(p)'
  BY Lasting DEF EvidenceInv
<1>1. CASE tx'[p] = tx[p]
  BY <1>0, <1>1, ClaimLasts DEF RowInv, Good
<1> SUFFICES ASSUME tx'[p] # tx[p] PROVE RowInv(p)'
  BY <1>1
<1>2. p = Payment(c) /\ Row(c) = tx[p] /\ (Momo(c) <=> p \in MomoPayments) /\ c \in CallsFor(p)
  BY StatusSteps DEF Row, Momo, CallsFor
<1>b. ASSUME tx'[p].status \notin TERMINAL_STATES,
             Kind(c) = "ipn", req[c].amountMatches,
             \/ pc'[c] = "settle"
             \/ pc'[c] = "done" /\ answer'[c] \in {"retry", "abandoned"}
      PROVE  ClaimedUnsettled(p)'
  <2>1. c \in CallsFor(p)' /\ Kind(c)' = "ipn" /\ req'[c].amountMatches
    BY <1>2, <1>b, Lasting, StatusSteps
  <2> QED
    BY <1>b, <2>1 DEF ClaimedUnsettled
<1>3. CASE GivesBack(c)
  <2>1. tx'[p].status = "pending" /\ SameKeys(p)
    BY <1>2, <1>3 DEF GivesBack
  <2>2. ClaimedUnsettled(p)'
    BY <1>0, <1>3, <1>b, <2>1 DEF GivesBack, Behind, TERMINAL_STATES
  <2>3. tx[p].status = "processing"
    BY <1>2, <1>3 DEF GivesBack
  <2> QED
    BY <1>0, <2>1, <2>2, <2>3 DEF RowInv, SameKeys, Good, TERMINAL_STATES
<1>8. CASE Claims(c)
  <2>1. tx'[p].status = "processing" /\ tx'[p].meta = tx[p].meta
    BY <1>2, <1>8, ClaimedKeys DEF Claims
  <2>2. tx'[p].gatewayTxId = IF p \in MomoPayments THEN tx[p].gatewayTxId ELSE "number"
    BY <1>2, <1>8, ClaimedKeys DEF Claims
  <2>3. tx[p].status = "pending"
    BY <1>2, <1>8 DEF Claims, Claimable
  <2>4. ClaimedUnsettled(p)'
    BY <1>0, <1>8, <1>b, <2>1 DEF Claims, Behind, TERMINAL_STATES
  <2> QED
    BY <1>0, <2>1, <2>2, <2>3, <2>4 DEF RowInv, Good, TERMINAL_STATES
<1>4. CASE Settles(c)
  <2>1. tx'[p].status = "success" => Vouches(c)
    BY <1>0, <1>2, <1>4 DEF Settles, SettledRow, Behind, Vouches
  <2>2. Good(p)' => Evidence(p)
    BY <1>2, <1>4, <2>1 DEF Settles, SettledRow, Good, Evidence
  <2> QED
    BY <1>0, <1>2, <1>4, <2>2 DEF RowInv, Settles, SettledRow, TERMINAL_STATES, Fence
<1>5. CASE Marks(c)
  <2>1. Evidence(p)
    BY <1>0, <1>2, <1>5 DEF Marks, Behind, Evidence
  <2> QED
    BY <1>0, <1>2, <1>5, <2>1 DEF RowInv, Marks, Behind, TERMINAL_STATES
<1>6. CASE Renames(c)
  <2>1. Evidence(p) /\ Legacy(p)
    BY <1>0, <1>2, <1>6 DEF Renames, Behind, Evidence, Vouches, Legacy
  <2> QED
    BY <1>0, <1>2, <1>6, <2>1 DEF RowInv, Renames, TERMINAL_STATES
<1>7. CASE Refunds(c)
  <2>1. Evidence(p)
    BY <1>0, <1>2, <1>7 DEF Refunds, Relies, RowInv
  <2> QED
    BY <1>0, <1>2, <1>7, <2>1
    DEF RowInv, Refunds, SameKeys, Relies, Good, ClaimedUnsettled, TERMINAL_STATES
<1> QED
  BY <1>2, <1>3, <1>4, <1>5, <1>6, <1>7, <1>8, RowSteps

(***************************************************************************)
(* What a step does to its own call and to the others.                     *)
(***************************************************************************)

\* Another call keeps what it has behind it, and may still rely on its row.
LEMMA OthersStand ==
  ASSUME TypeOK, EvidenceInv, NEW c \in Calls, SomeStep(c), NEW d \in Calls, d # c
  PROVE  Behind(d)' /\ Relies(d)'
<1> PICK p \in Payments : p = Payment(d)
  BY CallTypes
<1>1. /\ pc'[d] = pc[d] /\ found'[d] = found[d] /\ given'[d] = given[d] /\ req'[d] = req[d]
      /\ d \in granted' <=> d \in granted
  BY StatusSteps, Frame
<1>2. /\ Kind(d)' = Kind(d) /\ p = Payment(d)' /\ Momo(d)' = Momo(d)
      /\ Vouches(d) => Vouches(d)'
      /\ Legacy(p) => Legacy(p)'
  BY Lasting
<1>3. Behind(d) /\ Relies(d)
  BY DEF EvidenceInv
<1>4. /\ Good(p) => Good(p)'
      /\ tx'[p].gatewayTxId = "order" => tx[p].gatewayTxId = "order"
      /\ ~Momo(d) /\ tx[p].meta = "txnRef" => tx'[p].meta = "txnRef" \/ Legacy(p)
      /\ invoice[p] = "paid" => invoice'[p] = "paid"
  BY RowKeeps, Frame DEF Momo
<1>5. Behind(d)'
  BY <1>1, <1>2, <1>3 DEF Behind
<1>6. Relies(d)'
  BY <1>1, <1>2, <1>3, <1>4 DEF Relies, Row
<1> QED
  BY <1>5, <1>6

\* The row a call has found was there, and rows keep what is said of them.
LEMMA OwnStands ==
  ASSUME TypeOK, EvidenceInv, NEW c \in Calls, SomeStep(c)
  PROVE  Behind(c)' /\ Relies(c)'
<1> PICK p \in Payments : p = Payment(c)
  BY CallTypes
<1>1. /\ req' = req /\ pc'[c] # "idle"
      /\ Kind(c)' = Kind(c) /\ p = Payment(c)' /\ Momo(c)' = Momo(c)
      /\ Vouches(c) => Vouches(c)'
      /\ Legacy(p) => Legacy(p)'
  BY StatusSteps, Frame, Lasting
<1>2. Behind(c) /\ Relies(c) /\ RowInv(p) /\ (Momo(c) <=> p \in MomoPayments)
  BY DEF EvidenceInv, Momo
<1>3. /\ Good(p) => Good(p)'
      /\ tx'[p].gatewayTxId = "order" => tx[p].gatewayTxId = "order"
      /\ ~Momo(c) /\ tx[p].meta = "txnRef" => tx'[p].meta = "txnRef" \/ Legacy(p)
      /\ invoice[p] = "paid" => invoice'[p] = "paid"
  BY RowKeeps, Frame DEF Momo
<1>a. ASSUME NEW label, Goto(c, label) PROVE pc'[c] = label
  BY <1>a, GotoMoves
<1>b. ASSUME NEW what, Answer(c, what) PROVE pc'[c] = "done"
  BY <1>b, AnswerMoves
\* A call that has ended relies on its row only if it has added a period.
<1>c. ASSUME pc'[c] = "done", found' = found, given' = given, granted' = granted
      PROVE  Behind(c)' /\ Relies(c)'
  <2>1. Behind(c)'
    BY <1>1, <1>2, <1>c DEF Behind
  <2>2. Relies(c)'
    BY <1>1, <1>2, <1>3, <1>c DEF Relies
  <2> QED
    BY <2>1, <2>2
<1>4. CASE Receive(c)
  <2>1. /\ found' = found /\ given' = given /\ granted' = granted
        /\ \/ pc'[c] = "lookup" /\ Kind(c) = "ipn"
           \/ pc'[c] = "legacymark" /\ Kind(c) = "legacy" /\ req[c].paid
           \/ pc'[c] = "find" /\ Kind(c) = "webhook" /\ req[c].paid
           \/ pc'[c] = "reconcile" /\ Kind(c) = "reconcile"
           \/ pc'[c] \in {"refund", "done"}
    BY <1>4, <1>a, <1>b DEF Receive
  <2>2. Kind(c) = "webhook" => Momo(c)
    BY SettlementConstants DEF EvidenceInv, Kind, Momo, Payment
  <2>3. Kind(c) = "webhook" /\ req[c].paid => Vouches(c)'
    BY <1>1 DEF Vouches
  <2>4. Behind(c)'
    BY <1>1, <1>2, <2>1, <2>2, <2>3 DEF Behind
  <2>5. Relies(c)'
    BY <1>1, <1>2, <1>3, <2>1, <2>2 DEF Relies
  <2> QED
    BY <2>4, <2>5
<1>5. CASE ClaimLookup(c) \/ Claim(c) \/ SettleThrows(c) \/ Release(c) \/ Abandon(c)
  <2>1. /\ found' = found /\ given' = given /\ granted' = granted
        /\ pc[c] \in {"lookup", "claim", "settle", "release"}
        /\ \/ pc'[c] = "claim" /\ req[c].amountMatches
           \/ pc'[c] = "settle" /\ pc[c] = "claim"
           \/ pc'[c] = "release" /\ pc[c] = "settle"
           \/ pc'[c] = "done"
    BY <1>5, <1>a, <1>b DEF ClaimLookup, Precheck, Claim, SettleThrows, Release, Abandon
  <2>2. Behind(c)'
    BY <1>1, <1>2, <2>1 DEF Behind
  <2>3. Relies(c)'
    BY <1>1, <1>2, <1>3, <2>1 DEF Relies
  <2> QED
    BY <2>2, <2>3
<1>6. CASE Settle(c)
  <2>1. CASE CommitSettle(c) /\ req[c].paid
    <3>1. /\ found' = found /\ given' = given /\ granted' = granted
          /\ pc[c] = "settle" /\ pc'[c] = "find"
          /\ tx'[p] = SettledRow(c)
      BY <1>6, <1>a, <2>1, WriteEffect DEF Settle, CommitSettle
    <3>2. Kind(c) = "ipn" /\ Vouches(c)
      BY <1>2, <2>1, <3>1 DEF Behind, Vouches
    <3>3. tx'[p].status = "success" /\ (~Momo(c) => tx'[p].meta = "txnRef")
      BY <2>1, <3>1 DEF SettledRow
    <3>4. Behind(c)'
      BY <1>1, <1>2, <3>1, <3>2 DEF Behind
    <3>5. Relies(c)'
      BY <1>1, <1>2, <1>3, <3>1, <3>3 DEF Relies, Row, Good
    <3> QED
      BY <3>4, <3>5
  <2>2. CASE ~(CommitSettle(c) /\ req[c].paid)
    BY <1>6, <1>b, <1>c, <2>2 DEF Settle
  <2> QED
    BY <2>1, <2>2
<1>7. CASE Find(c)
  <2>1. CASE ActivatorFinds(c)
    <3>1. /\ pc[c] = "find" /\ pc'[c] = "mark" /\ granted' = granted
          /\ tx' = tx /\ found'[c] = tx[p] /\ given' = given
      BY <1>7, <1>a, <2>1 DEF Find, Row, TypeOK
    <3>2. Behind(c)'
      BY <1>1, <1>2, <3>1 DEF Behind, Relies, Row, RowInv
    <3>3. Relies(c)'
      BY <1>1, <1>2, <1>3, <3>1 DEF Relies, Row
    <3> QED
      BY <3>2, <3>3
  <2>2. CASE ~ActivatorFinds(c)
    BY <1>7, <1>c, <2>2, ConcludedMoves DEF Find
  <2> QED
    BY <2>1, <2>2
<1>8. CASE Mark(c)
  <2>1. /\ found' = found /\ given' = given /\ granted' = granted /\ pc[c] = "mark"
        /\ pc'[c] \in {"invoice", "done"}
    BY <1>8, GotoMoves, ConcludedMoves DEF Mark
  <2>2. CASE pc'[c] = "invoice"
    <3>1. tx'[p].status = "success"
      BY <1>8, MarkWrites DEF Marks
    <3>2. Behind(c)'
      BY <1>1, <1>2, <2>1, <2>2 DEF Behind
    <3>3. Relies(c)'
      BY <1>1, <1>2, <1>3, <2>1, <2>2, <3>1 DEF Relies, Good
    <3> QED
      BY <3>2, <3>3
  <2> QED
    BY <1>c, <2>1, <2>2
<1>9. CASE PayInvoice(c) \/ ReadSubscription(c)
  <2>1. /\ found' = found /\ given' = given /\ granted' = granted
        /\ pc[c] \in {"invoice", "subread"}
        /\ pc'[c] \in {"subread", "subwrite"}
        /\ pc[c] = "invoice" => invoice'[p] = "paid"
    BY <1>9, <1>a DEF PayInvoice, ReadSubscription, TypeOK
  <2>2. Behind(c)'
    BY <1>1, <1>2, <2>1 DEF Behind
  <2>3. Relies(c)'
    BY <1>1, <1>2, <1>3, <2>1 DEF Relies
  <2> QED
    BY <2>2, <2>3
<1>10. CASE WriteSubscription(c)
  <2>1. found' = found /\ given' = given /\ pc[c] = "subwrite" /\ pc'[c] = "done"
    BY <1>10, ConcludedMoves DEF WriteSubscription
  <2>2. Behind(c)'
    BY <1>1, <1>2, <2>1 DEF Behind
  <2>3. Relies(c)'
    BY <1>1, <1>2, <1>3, <2>1 DEF Relies
  <2> QED
    BY <2>2, <2>3
<1>11. CASE LegacyMark(c)
  <2>1. /\ found' = found /\ given' = given /\ granted' = granted /\ pc[c] = "legacymark"
        /\ pc'[c] = "legacyfind"
    BY <1>11, <1>a DEF LegacyMark
  <2>2. tx'[p].gatewayTxId # "order"
    BY <1>11, WriteEffect DEF LegacyMark, Row
  <2>3. Behind(c)'
    BY <1>1, <1>2, <2>1 DEF Behind
  <2>4. Relies(c)'
    BY <1>1, <1>2, <1>3, <2>1, <2>2 DEF Relies, Row
  <2> QED
    BY <2>3, <2>4
\* The legacy handler's second look is under a key that no row has any more.
<1>12. CASE LegacyFind(c)
  <2>1. Row(c).gatewayTxId # "order"
    BY <1>2, <1>12 DEF LegacyFind, Relies
  <2> QED
    BY <1>12, <1>b, <1>c, <2>1 DEF LegacyFind
<1>13. CASE Reconcile(c)
  <2>1. CASE Goto(c, "find")
    <3>1. /\ pc[c] = "reconcile" /\ pc'[c] = "find" /\ granted' = granted
          /\ tx' = tx /\ found' = found /\ ReconcileFinds(c)
          /\ given'[c] \in {tx[p].gatewayTxId, "number"}
          /\ tx[p].status \notin TERMINAL_STATES
      BY <1>13, <1>a, <1>b, <2>1 DEF Reconcile, Row, TypeOK
    <3>2. Kind(c) = "reconcile" /\ Momo(c)
      BY <1>2, <3>1 DEF Behind, RowInv, ReconcileFinds, Row
    <3>3. Vouches(c)
      BY <3>1, <3>2 DEF Vouches
    <3>4. Behind(c)'
      BY <1>1, <1>2, <3>1, <3>2, <3>3 DEF Behind, RowInv
    <3>5. Relies(c)'
      BY <1>1, <1>2, <1>3, <3>1, <3>2 DEF Relies
    <3> QED
      BY <3>4, <3>5
  <2> QED
    BY <1>13, <1>b, <1>c, <2>1 DEF Reconcile
<1>14. CASE Refund(c)
  <2>1. CASE Goto(c, "refundmark")
    <3>1. /\ found' = found /\ given' = given /\ granted' = granted /\ tx' = tx
          /\ pc[c] = "refund" /\ pc'[c] = "refundmark" /\ tx[p].status = "success"
      BY <1>14, <1>a, <1>b, <2>1 DEF Refund, Row
    <3>2. Behind(c)'
      BY <1>1, <1>2, <3>1 DEF Behind
    <3>3. Relies(c)'
      BY <1>1, <1>2, <1>3, <3>1 DEF Relies, Good
    <3> QED
      BY <3>2, <3>3
  <2> QED
    BY <1>14, <1>b, <1>c, <2>1 DEF Refund
<1>15. CASE RefundMark(c) \/ Throws(c) \/ Crash(c)
  BY <1>15, <1>b, <1>c, ThrownMoves DEF RefundMark, Throws, Crash
<1> QED
  BY <1>4, <1>5, <1>6, <1>7, <1>8, <1>9, <1>10, <1>11, <1>12, <1>13, <1>14, <1>15
     DEF SomeStep, Step

LEMMA StepEvidence == TypeOK /\ EvidenceInv /\ [Next]_vars => EvidenceInv'
<1>1. ASSUME TypeOK, EvidenceInv, UNCHANGED vars PROVE EvidenceInv'
  BY <1>1 DEF vars, EvidenceInv, RowInv, Behind, Relies, Good, Legacy, Evidence, Vouches,
              ClaimedUnsettled,
              CallsFor, Kind, Momo, Payment, Row
<1>2. ASSUME TypeOK, EvidenceInv, NEW c \in Calls, SomeStep(c) PROVE EvidenceInv'
  <2>1. \A p \in Payments : RowInv(p)'
    BY <1>2, StepRow
  <2>2. \A d \in Calls : Behind(d)' /\ Relies(d)'
    BY <1>2, OthersStand, OwnStands
  <2>3. req' = req
    BY <1>2, StatusSteps
  <2> QED
    BY <1>2, <2>1, <2>2, <2>3 DEF EvidenceInv
<1> QED
  BY <1>1, <1>2 DEF Next, SomeStep

LEMMA EvidenceHolds == Spec => [](TypeOK /\ EvidenceInv)
BY TypeCorrect, InitEvidence, StepEvidence, PTL DEF Spec

\* Nothing counts as paid without a call that vouches for it, and no period is added for
\* a payment that is not paid.
THEOREM EvidenceSafety == Spec => []PaidOnEvidence
<1>1. EvidenceInv => PaidOnEvidence
  <2> SUFFICES ASSUME EvidenceInv, NEW p \in Payments
               PROVE  /\ tx[p].status \in {"success", "refunded"} =>
                           \E c \in CallsFor(p) : Vouches(c)
                      /\ granted \cap CallsFor(p) # {} =>
                           tx[p].status \in {"success", "refunded"} /\ invoice[p] = "paid"
    BY DEF PaidOnEvidence
  <2>1. RowInv(p)
    BY DEF EvidenceInv
  <2>2. ASSUME NEW c \in granted \cap CallsFor(p)
        PROVE  Good(p) /\ invoice[p] = "paid"
    BY DEF EvidenceInv, Relies, CallsFor
  <2> QED
    BY <2>1, <2>2 DEF RowInv, Good, Evidence
<1> QED
  BY <1>1, EvidenceHolds, PTL

\* The guard's two keys find every MoMo payment, and every VNPay payment that no legacy
\* handler has renamed and no callback has claimed without settling it.
THEOREM LookupSafety == Spec => []FindableUnlessRenamed
<1>1. TypeOK /\ EvidenceInv => FindableUnlessRenamed
  <2> SUFFICES ASSUME TypeOK, EvidenceInv, NEW c \in Calls, ~ClaimFinds(c)
               PROVE  ~Momo(c) /\ (Legacy(Payment(c)) \/ ClaimedUnsettled(Payment(c)))
    BY DEF FindableUnlessRenamed, Legacy
  <2>1. RowInv(Payment(c))
    BY CallTypes DEF EvidenceInv
  <2> QED
    BY <2>1 DEF RowInv, ClaimFinds, Momo, Row
<1> QED
  BY <1>1, EvidenceHolds, PTL

\* A terminal status is left only by a refund of what was paid, or for success by a
\* legacy handler or an activator; never from failed by the guard's own activation.
THEOREM StatusSafety == Spec => StatusMovesForward
<1>1. TypeOK /\ EvidenceInv /\ [Next]_vars =>
        [\A p \in Payments :
           LET old == tx[p].status
               new == tx'[p].status
           IN  old \in TERMINAL_STATES /\ new # old =>
                 \/ old = "success" /\ new = "refunded"
                 \/ /\ new = "success"
                    /\ \E c \in CallsFor(p) :
                         /\ pc[c] \in {"mark", "legacymark"} /\ pc'[c] # pc[c]
                         /\ old = "failed" => Kind(c) # "ipn"]_vars
  <2> SUFFICES ASSUME TypeOK, EvidenceInv, NEW c \in Calls, SomeStep(c), NEW p \in Payments,
                      tx[p].status \in TERMINAL_STATES, tx'[p].status # tx[p].status
               PROVE  \/ tx[p].status = "success" /\ tx'[p].status = "refunded"
                      \/ /\ tx'[p].status = "success"
                         /\ c \in CallsFor(p)
                         /\ pc[c] \in {"mark", "legacymark"} /\ pc'[c] # pc[c]
                         /\ tx[p].status = "failed" => Kind(c) # "ipn"
    BY DEF Next, SomeStep
  <2>1. p = Payment(c) /\ c \in CallsFor(p) /\ Behind(c) /\ Relies(c)
    BY StatusSteps DEF CallsFor, EvidenceInv
  <2>2. CASE GivesBack(c) \/ Claims(c)
    BY <2>1, <2>2 DEF GivesBack, Claims, Claimable, Row, TERMINAL_STATES
  <2>3. CASE Settles(c)
    BY <2>1, <2>3 DEF Settles, Fence, Row, TERMINAL_STATES
  <2>4. CASE Marks(c)
    BY <2>1, <2>4 DEF Marks, Relies, Good
  <2>5. CASE Renames(c)
    BY <2>1, <2>5 DEF Renames, Behind
  <2>6. CASE Refunds(c)
    BY <2>1, <2>6 DEF Refunds, Relies, Good
  <2> QED
    BY <2>1, <2>2, <2>3, <2>4, <2>5, <2>6, RowSteps
<1> QED
  BY <1>1, EvidenceHolds, PTL DEF Spec, StatusMovesForward

(***************************************************************************)
(* Periods.                                                                *)
(***************************************************************************)

\* A call adds its period as the last thing it does.
PeriodInv ==
  /\ IsFiniteSet(granted)
  /\ \A c \in granted : pc[c] = "done"
  /\ PeriodsAreEarned

LEMMA InitPeriods == Init => PeriodInv
<1> SUFFICES ASSUME Init PROVE PeriodInv
  OBVIOUS
<1>1. granted = {} /\ expiry = opening /\ opening \in Nat
      /\ \A c \in Calls : pc[c] = "idle"
  BY SettlementConstants DEF Init
<1>2. IsFiniteSet({}) /\ Cardinality({}) = 0
  BY FS_EmptySet
<1> QED
  BY <1>1, <1>2 DEF PeriodInv, PeriodsAreEarned

LEMMA StepPeriods == TypeOK /\ PeriodInv /\ [Next]_vars => PeriodInv'
<1> SUFFICES ASSUME TypeOK, PeriodInv, [Next]_vars PROVE PeriodInv'
  OBVIOUS
<1> PICK n : n = Cardinality(granted)
  OBVIOUS
<1>0. n \in Nat /\ opening \in Nat /\ expiry \in Nat /\ base \in [Calls -> Nat]
  BY FS_CardinalityType, SettlementConstants DEF PeriodInv, TypeOK
<1>1. CASE UNCHANGED vars
  BY <1>1 DEF vars, PeriodInv, PeriodsAreEarned
<1>2. ASSUME NEW c \in Calls, WriteSubscription(c) PROVE PeriodInv'
  <2>1. /\ pc[c] = "subwrite" /\ c \notin granted /\ pc'[c] = "done"
        /\ \A d \in Calls \ {c} : pc'[d] = pc[d]
        /\ base' = base /\ opening' = opening /\ expiry' = base[c] + 1
        /\ granted' = granted \cup {c} /\ granted \subseteq Calls
    BY <1>2, ConcludedMoves DEF WriteSubscription, computeExpiry, PeriodInv, TypeOK
  <2>2. IsFiniteSet(granted') /\ Cardinality(granted') = n + 1
    BY <2>1, FS_AddElement DEF PeriodInv
  <2>3. opening <= base[c] /\ base[c] <= opening + n
    BY <2>1 DEF PeriodInv, PeriodsAreEarned
  <2>4. /\ opening <= expiry' /\ expiry' <= opening + (n + 1)
        /\ expiry' # opening /\ granted' # {}
    BY <1>0, <2>1, <2>3
  <2>5. \A d \in Calls : pc'[d] = "subwrite" =>
          opening <= base[d] /\ base[d] <= opening + (n + 1)
    BY <1>0, <2>1 DEF PeriodInv, PeriodsAreEarned
  <2> QED
    BY <2>1, <2>2, <2>4, <2>5 DEF PeriodInv, PeriodsAreEarned
<1>3. ASSUME NEW c \in Calls, ReadSubscription(c) PROVE PeriodInv'
  <2>1. /\ pc[c] = "subread" /\ pc'[c] = "subwrite" /\ \A d \in Calls \ {c} : pc'[d] = pc[d]
        /\ base' = [base EXCEPT ![c] = expiry] /\ opening' = opening /\ expiry' = expiry
        /\ granted' = granted
    BY <1>3, GotoMoves DEF ReadSubscription
  <2>2. \A d \in Calls : pc'[d] = "subwrite" =>
          opening <= base'[d] /\ base'[d] <= opening + n
    BY <1>0, <2>1 DEF PeriodInv, PeriodsAreEarned
  <2>3. \A d \in granted : pc'[d] = "done"
    BY <2>1 DEF PeriodInv, TypeOK
  <2> QED
    BY <2>1, <2>2, <2>3 DEF PeriodInv, PeriodsAreEarned
<1>4. ASSUME NEW c \in Calls, SomeStep(c), ~WriteSubscription(c), ~ReadSubscription(c)
      PROVE  PeriodInv'
  <2>1. /\ UNCHANGED <<base, opening, expiry, granted>>
        /\ pc[c] # "done" /\ pc'[c] # "subwrite"
    <3>a. ASSUME NEW label \in PCs \ {"subwrite"}, Goto(c, label)
          PROVE  pc'[c] # "subwrite"
      BY <3>a, GotoMoves
    <3>b. ASSUME NEW what, Answer(c, what) PROVE pc'[c] # "subwrite"
      BY <3>b, AnswerMoves
    <3>c. ASSUME NEW activated, Concluded(c, activated) PROVE pc'[c] # "subwrite"
      BY <3>c, ConcludedMoves
    <3>d. Thrown(c) => pc'[c] # "subwrite"
      BY ThrownMoves
    <3>1. CASE Receive(c) \/ ClaimLookup(c)
      BY <3>1, <3>a, <3>b DEF Receive, ClaimLookup, PCs
    <3>2. CASE Claim(c) \/ Settle(c)
      BY <3>2, <3>a, <3>b DEF Claim, Settle, PCs
    <3>3. CASE SettleThrows(c) \/ Release(c) \/ Abandon(c)
      BY <3>3, <3>a, <3>b DEF SettleThrows, Release, Abandon, PCs
    <3>4. CASE Find(c) \/ Mark(c) \/ PayInvoice(c)
      BY <3>4, <3>a, <3>c DEF Find, Mark, PayInvoice, PCs
    <3>5. CASE LegacyMark(c) \/ LegacyFind(c) \/ Reconcile(c)
      BY <3>5, <3>a, <3>b DEF LegacyMark, LegacyFind, Reconcile, PCs
    <3>6. CASE Refund(c) \/ RefundMark(c)
      BY <3>6, <3>a, <3>b DEF Refund, RefundMark, PCs
    <3>7. CASE Throws(c) \/ Crash(c)
      BY <3>7, <3>b, <3>d DEF Throws, Crash, Activating
    <3> QED
      BY <1>4, <3>1, <3>2, <3>3, <3>4, <3>5, <3>6, <3>7 DEF SomeStep, Step
  <2>2. \A d \in Calls \ {c} : pc'[d] = pc[d]
    BY <1>4, StatusSteps
  <2>3. \A d \in granted : pc'[d] = "done"
    BY <2>1, <2>2 DEF PeriodInv, TypeOK
  <2> QED
    BY <2>1, <2>2, <2>3 DEF PeriodInv, PeriodsAreEarned
<1> QED
  BY <1>1, <1>2, <1>3, <1>4 DEF Next, SomeStep

\* activateBySubscriptionId: the subscription never runs longer than the periods that were
\* added to it, however renewals interleave.
THEOREM PeriodSafety == Spec => []PeriodsAreEarned
<1>1. PeriodInv => PeriodsAreEarned
  BY DEF PeriodInv
<1> QED
  BY <1>1, TypeCorrect, InitPeriods, StepPeriods, PTL DEF Spec

(***************************************************************************)
(* What is left of the claims that the code contradicts.                   *)
(*                                                                         *)
(* Three comments promise more than the code gives.  Each promise is kept  *)
(* exactly as long as one hazard stays away, and these theorems name it:   *)
(* renewals stack unless one is written over another's, a payment adds one *)
(* period unless a caller outside the guard takes part, and a reconcile    *)
(* that reports an activation is right unless an earlier call was cut off. *)
(***************************************************************************)

\* No renewal is written over one that it has not read.
RenewsInTurn == \A c \in Calls : WriteSubscription(c) => base[c] = expiry

LEMMA StepStacks ==
  TypeOK /\ PeriodInv /\ RenewalsStack /\ [Next /\ RenewsInTurn]_vars => RenewalsStack'
<1> SUFFICES ASSUME TypeOK, PeriodInv, RenewalsStack, [Next /\ RenewsInTurn]_vars
             PROVE  RenewalsStack'
  OBVIOUS
<1> PICK n : n = Cardinality(granted)
  OBVIOUS
<1>0. n \in Nat /\ opening \in Nat /\ expiry = opening + n
  BY FS_CardinalityType, SettlementConstants DEF PeriodInv, TypeOK, RenewalsStack
<1>1. CASE UNCHANGED vars
  BY <1>1 DEF vars, RenewalsStack
<1>2. ASSUME NEW c \in Calls, WriteSubscription(c), base[c] = expiry PROVE RenewalsStack'
  <2>1. /\ c \notin granted /\ opening' = opening /\ expiry' = base[c] + 1
        /\ granted' = granted \cup {c}
    BY <1>2 DEF WriteSubscription, computeExpiry, PeriodInv
  <2>2. Cardinality(granted') = n + 1
    BY <2>1, FS_AddElement DEF PeriodInv
  <2> QED
    BY <1>0, <1>2, <2>1, <2>2 DEF RenewalsStack
<1>3. ASSUME NEW c \in Calls, SomeStep(c), ~WriteSubscription(c) PROVE RenewalsStack'
  <2>1. UNCHANGED <<opening, expiry, granted>>
    BY <1>3 DEF SomeStep, Receive, Step, SettleThrows, Abandon, Throws, Crash,
         ClaimLookup, Claim, Settle, Release, Find, Mark, PayInvoice, ReadSubscription,
         LegacyMark, LegacyFind, Reconcile, Refund, RefundMark
  <2> QED
    BY <2>1 DEF RenewalsStack
<1> QED
  BY <1>1, <1>2, <1>3 DEF Next, SomeStep, RenewsInTurn

\* activateBySubscriptionId stacks each period on the ones before it as long as no two
\* activations of the subscription overlap between its read and its write.
THEOREM RenewalsStackInTurn == Spec /\ [][RenewsInTurn]_vars => []RenewalsStack
<1>1. Init => RenewalsStack
  <2>1. Cardinality({}) = 0
    BY FS_EmptySet
  <2> QED
    BY <2>1, SettlementConstants DEF Init, RenewalsStack
<1>2. TypeOK /\ PeriodInv /\ RenewalsStack /\ [Next]_vars /\ [RenewsInTurn]_vars
        => RenewalsStack'
  BY StepStacks
<1> QED
  BY <1>1, <1>2, TypeCorrect, InitPeriods, StepPeriods, PTL DEF Spec

\* Every call comes through the idempotency guard, or is a refund's status change.
OnlyGuardedCalls ==
  \A w \in Workloads : \A c \in Calls : w[c].kind \in {"ipn", "refund"}

\* A refund never gets to the activator.
RefundsAddNothing ==
  \A c \in Calls : Kind(c) = "refund" =>
    pc[c] \in {"idle", "refund", "refundmark", "done"} /\ c \notin granted

LEMMA StepRefundsAddNothing ==
  TypeOK /\ RefundsAddNothing /\ [Next]_vars => RefundsAddNothing'
<1> SUFFICES ASSUME TypeOK, RefundsAddNothing, [Next]_vars PROVE RefundsAddNothing'
  OBVIOUS
<1>0. CASE UNCHANGED vars
  BY <1>0 DEF vars, RefundsAddNothing, Kind
<1> SUFFICES ASSUME NEW c \in Calls, SomeStep(c), NEW d \in Calls, Kind(d) = "refund"
             PROVE  pc'[d] \in {"idle", "refund", "refundmark", "done"} /\ d \notin granted'
  BY <1>0, StatusSteps DEF Next, SomeStep, RefundsAddNothing, Kind
<1>1. pc[d] \in {"idle", "refund", "refundmark", "done"} /\ d \notin granted
  BY DEF RefundsAddNothing
<1>2. CASE d # c
  BY <1>1, <1>2, StatusSteps, Frame
<1>3. CASE d = c
  <2>1. c \notin granted'
    BY <1>1, <1>3, Frame
  <2>2. CASE Receive(c)
    BY <1>1, <1>3, <2>1, <2>2, GotoMoves, AnswerMoves DEF Receive
  <2>3. CASE Refund(c) \/ RefundMark(c)
    BY <1>1, <1>3, <2>1, <2>3, GotoMoves, AnswerMoves DEF Refund, RefundMark
  <2>4. CASE Throws(c) \/ Crash(c)
    BY <1>1, <1>3, <2>1, <2>4, AnswerMoves, ThrownMoves DEF Throws, Crash
  <2>5. CASE ~(Receive(c) \/ Refund(c) \/ RefundMark(c) \/ Throws(c) \/ Crash(c))
    BY <1>1, <1>3, <2>5 DEF SomeStep, Step, SettleThrows, Abandon, ClaimLookup, Claim,
       Settle, Release, Find, Mark, PayInvoice, ReadSubscription, WriteSubscription,
       LegacyMark, LegacyFind, Reconcile
  <2> QED
    BY <2>2, <2>3, <2>4, <2>5
<1> QED
  BY <1>2, <1>3

\* A payment adds at most one period, however often its callback is delivered, as long as
\* every caller comes through MomoIpnGuard or VnpayIpnGuard; the webhook service, the
\* legacy handlers and reconcile are what the claim does not hold for.
THEOREM GuardedPaymentsAddOnePeriod ==
  OnlyGuardedCalls => (Spec => []OnePeriodPerPayment)
<1> SUFFICES ASSUME OnlyGuardedCalls PROVE Spec => []OnePeriodPerPayment
  OBVIOUS
<1>1. Init => RefundsAddNothing
  BY DEF Init, RefundsAddNothing
<1>2. TypeOK /\ EvidenceInv /\ SettlementInv /\ RefundsAddNothing => OnePeriodPerPayment
  <2> SUFFICES ASSUME TypeOK, EvidenceInv, SettlementInv, RefundsAddNothing,
                      NEW p \in Payments,
                      NEW c \in granted \cap CallsFor(p), NEW d \in granted \cap CallsFor(p)
               PROVE  c = d
    BY DEF OnePeriodPerPayment, AtMostOne
  <2>1. c \in Calls /\ d \in Calls
    BY DEF CallsFor
  <2>2. \A b \in Calls : Kind(b) \in {"ipn", "refund"}
    BY DEF OnlyGuardedCalls, EvidenceInv, Kind
  <2>3. Kind(c) = "ipn" /\ Kind(d) = "ipn"
    BY <2>1, <2>2 DEF RefundsAddNothing
  <2>4. c \in settled \cap CallsFor(p) /\ d \in settled \cap CallsFor(p)
    BY <2>3 DEF SettlementInv, OneCallbackWins
  <2> QED
    BY <2>4 DEF SettlementInv, OneCallbackWins, AtMostOne
<1> QED
  BY <1>1, <1>2, StepRefundsAddNothing, EvidenceHolds, InitSettlement, StepSettlement,
     TypeCorrect, PTL DEF Spec

\* No activation is cut off: nothing throws and the process does not die between a paid
\* settlement and the end of its activation.
NothingCutOff ==
  \A c \in Calls :
    /\ pc[c] \in Activating => ~Throws(c) /\ ~Crash(c)
    /\ SettleThrows(c) /\ req[c].paid => UNCHANGED tx

\* The period of a payment is added, or a call is about to add it.
Attended(p) ==
  \/ invoice[p] = "none"
  \/ \E d \in CallsFor(p) : pc[d] \in Activating \/ d \in granted

\* A paid row that reconcile can find is attended to, and so is one it reported; a VNPay
\* row never loses the transaction number under which its activation looks it up.
RecoveryInv ==
  /\ \A p \in Payments : p \notin MomoPayments =>
       /\ tx[p].gatewayTxId # "request"
       /\ tx[p].meta = "txnRef" => tx[p].gatewayTxId = "number"
  /\ \A p \in Payments :
       Good(p) /\ (p \in MomoPayments \/ tx[p].meta = "txnRef") => Attended(p)
  /\ \A c \in Calls :
       /\ pc[c] \in {"find", "mark"} /\ ~Momo(c) => Row(c).gatewayTxId = "number"
       /\ Kind(c) = "reconcile" /\ answer[c] = "activated" => Attended(Payment(c))

LEMMA InitRecovery == Init => RecoveryInv
BY DEF Init, RecoveryInv, NewRow, Good

\* An activation that is not cut off goes on until its period is added, unless the payment
\* is for no invoice.
LEMMA ActivationGoesOn ==
  ASSUME TypeOK, EvidenceInv, RecoveryInv, NEW c \in Calls, SomeStep(c), NothingCutOff,
         pc[c] \in Activating
  PROVE  \/ invoice'[Payment(c)] = "none"
         \/ pc'[c] \in Activating \/ c \in granted'
<1>1. CASE Find(c)
  <2>1. Behind(c) /\ RowInv(Payment(c))
    BY CallTypes DEF EvidenceInv
  <2>2. ActivatorFinds(c)
    BY <1>1, <2>1 DEF Find, Behind, RowInv, Momo, ActivatorFinds, Row, RecoveryInv
  <2> QED
    BY <1>1, <2>2, GotoMoves DEF Find, Activating
<1>2. CASE Mark(c)
  BY <1>2, GotoMoves DEF Mark, Activating
<1>3. CASE PayInvoice(c) \/ ReadSubscription(c)
  BY <1>3, GotoMoves DEF PayInvoice, ReadSubscription, Activating
<1>4. CASE WriteSubscription(c)
  BY <1>4 DEF WriteSubscription
<1>5. CASE Throws(c) \/ Crash(c)
  BY <1>5 DEF NothingCutOff
<1> QED
  BY <1>1, <1>2, <1>3, <1>4, <1>5
     DEF SomeStep, Step, Activating, Receive, ClaimLookup, Claim, Settle, SettleThrows,
         Release, Abandon, LegacyMark, LegacyFind, Reconcile, Refund, RefundMark

LEMMA AttendedLasts ==
  ASSUME TypeOK, EvidenceInv, RecoveryInv, NEW c \in Calls, SomeStep(c), NothingCutOff,
         NEW p \in Payments, Attended(p)
  PROVE  Attended(p)'
<1>1. CallsFor(p)' = CallsFor(p) /\ granted \subseteq granted'
  BY Lasting, Frame
<1>2. CASE invoice[p] = "none"
  <2>1. CASE invoice'[p] = "none"
    BY <2>1 DEF Attended
  <2>2. CASE invoice'[p] # "none"
    <3>1. PayInvoice(c) /\ p = Payment(c)
      BY <1>2, <2>2 DEF TypeOK, SomeStep, Receive, Step, SettleThrows, Abandon, Throws,
         Crash, ClaimLookup, Claim, Settle, Release, Find, Mark, PayInvoice,
         ReadSubscription, WriteSubscription, LegacyMark, LegacyFind, Reconcile, Refund,
         RefundMark
    <3>2. pc'[c] \in Activating /\ c \in CallsFor(p)
      BY <3>1, GotoMoves DEF PayInvoice, Activating, CallsFor
    <3> QED
      BY <1>1, <3>2 DEF Attended
  <2> QED
    BY <2>1, <2>2
<1>3. ASSUME NEW d \in CallsFor(p), pc[d] \in Activating \/ d \in granted
      PROVE  Attended(p)'
  <2>1. CASE d = c /\ pc[c] \in Activating
    BY <1>1, <2>1, ActivationGoesOn DEF Attended, CallsFor
  <2>2. CASE d # c \/ d \in granted
    BY <1>1, <1>3, <2>2, StatusSteps DEF Attended, CallsFor
  <2> QED
    BY <1>3, <2>1, <2>2
<1> QED
  BY <1>2, <1>3 DEF Attended

\* The keys of a VNPay row.
LEMMA StepKeys ==
  ASSUME TypeOK, EvidenceInv, RecoveryInv, NEW c \in Calls, SomeStep(c), NothingCutOff,
         NEW p \in Payments \ MomoPayments
  PROVE  /\ tx'[p].gatewayTxId # "request"
         /\ tx'[p].meta = "txnRef" => tx'[p].gatewayTxId = "number"
         /\ tx[p].gatewayTxId = "number" => tx'[p].gatewayTxId = "number"
<1>0. /\ tx[p].gatewayTxId # "request"
      /\ tx[p].meta = "txnRef" => tx[p].gatewayTxId = "number"
  BY DEF RecoveryInv
<1>1. CASE tx'[p] = tx[p]
  BY <1>0, <1>1
<1>2. CASE tx'[p] # tx[p]
  <2>1. p = Payment(c) /\ ~Momo(c) /\ Behind(c)
    BY <1>2, StatusSteps DEF Momo, EvidenceInv
  <2>2. CASE GivesBack(c) \/ Refunds(c)
    BY <1>0, <2>1, <2>2 DEF GivesBack, Refunds, SameKeys
  <2>6. CASE Claims(c)
    BY <2>1, <2>6, ClaimedKeys DEF Claims
  <2>3. CASE Settles(c)
    BY <2>1, <2>3 DEF Settles, SettledRow
  <2>4. CASE Marks(c)
    BY <2>1, <2>4 DEF Marks, Behind
  <2>5. CASE Renames(c)
    BY <2>1, <2>5 DEF Renames
  <2> QED
    BY <1>2, <2>1, <2>2, <2>3, <2>4, <2>5, <2>6, RowSteps
<1> QED
  BY <1>1, <1>2

\* A row becomes paid for by a settlement or a mark, which then activates, or by the
\* legacy handler, after which reconcile does not find it.
LEMMA StepAttended ==
  ASSUME TypeOK, EvidenceInv, RecoveryInv, NEW c \in Calls, SomeStep(c), NothingCutOff,
         NEW p \in Payments, Good(p)', p \in MomoPayments \/ tx'[p].meta = "txnRef"
  PROVE  Attended(p)'
<1>0. CallsFor(p)' = CallsFor(p)
  BY Lasting
<1>1. CASE tx'[p] = tx[p]
  BY <1>1, AttendedLasts DEF RecoveryInv, Good
<1>2. CASE tx'[p] # tx[p]
  <2>1. p = Payment(c) /\ c \in CallsFor(p) /\ Behind(c) /\ Relies(c) /\ RowInv(p)
        /\ (Momo(c) <=> p \in MomoPayments)
    BY <1>2, StatusSteps DEF Momo, EvidenceInv, CallsFor
  <2>2. CASE GivesBack(c) \/ Claims(c)
    BY <2>1, <2>2, ClaimedKeys DEF GivesBack, Claims, Good
  <2>3. CASE Settles(c)
    <3>1. pc[c] = "settle" /\ req[c].paid
      BY <2>1, <2>3 DEF Settles, SettledRow, Good
    <3>2. CASE Settle(c)
      <4>1. Goto(c, "find")
        BY <1>2, <2>3, <3>1, <3>2 DEF Settle, CommitSettle, Settles
      <4> QED
        BY <1>0, <2>1, <4>1, GotoMoves DEF Attended, Activating
    <3>3. CASE ~Settle(c)
      BY <1>2, <3>1, <3>3
         DEF SomeStep, Step, NothingCutOff, Receive, ClaimLookup, Claim, Release, Abandon,
             Find, Mark, PayInvoice, ReadSubscription, WriteSubscription, LegacyMark,
             LegacyFind, Reconcile, Refund, RefundMark, Throws, Crash
    <3> QED
      BY <3>2, <3>3
  <2>4. CASE Marks(c)
    <3>1. pc[c] \in Activating
      BY <2>4 DEF Marks, Activating
    <3> QED
      BY <1>0, <2>1, <3>1, ActivationGoesOn DEF Attended
  <2>5. CASE Renames(c)
    BY <2>1, <2>5 DEF Renames, RowInv
  <2>6. CASE Refunds(c)
    BY <2>1, <2>6, AttendedLasts DEF Refunds, SameKeys, Relies, RecoveryInv
  <2> QED
    BY <1>2, <2>1, <2>2, <2>3, <2>4, <2>5, <2>6, RowSteps
<1> QED
  BY <1>1, <1>2

LEMMA AnswerGiven ==
  ASSUME TypeOK, NEW c \in Calls, NEW what, Answer(c, what)
  PROVE  answer'[c] = what /\ \A d \in Calls \ {c} : answer'[d] = answer[d]
BY DEF TypeOK, Answer

\* Only a period that is added, or a row that is successful already, is reported as an
\* activation.
LEMMA ActivatedAnswers ==
  ASSUME TypeOK, NEW c \in Calls, SomeStep(c), NEW d \in Calls, answer'[d] = "activated"
  PROVE  \/ answer[d] = "activated"
         \/ d = c /\ c \in granted'
         \/ d = c /\ ReconcileFinds(c) /\ Row(c).status = "success"
<1>1. ASSUME NEW what, Answer(c, what), what # "activated"
      PROVE  answer[d] = "activated"
  BY <1>1, AnswerGiven
<1>2. ASSUME NEW label, Goto(c, label)
      PROVE  answer[d] = "activated"
  BY <1>2 DEF Goto
<1>3. ASSUME Concluded(c, FALSE) PROVE answer[d] = "activated"
  BY <1>1, <1>3 DEF Concluded
<1>4. ASSUME Thrown(c) PROVE answer[d] = "activated"
  BY <1>1, <1>4 DEF Thrown
<1>5. CASE Receive(c) \/ ClaimLookup(c)
  BY <1>1, <1>2, <1>5 DEF Receive, ClaimLookup
<1>6. CASE Claim(c) \/ Settle(c)
  BY <1>1, <1>2, <1>6 DEF Claim, Settle
<1>7. CASE SettleThrows(c) \/ Release(c) \/ Abandon(c)
  BY <1>1, <1>2, <1>7 DEF SettleThrows, Release, Abandon
<1>8. CASE Find(c) \/ Mark(c) \/ PayInvoice(c) \/ ReadSubscription(c)
  BY <1>2, <1>3, <1>8 DEF Find, Mark, PayInvoice, ReadSubscription
<1>9. CASE WriteSubscription(c)
  <2>1. \E what : Answer(c, what)
    BY <1>9 DEF WriteSubscription, Concluded
  <2> QED
    BY <1>9, <2>1, AnswerGiven DEF WriteSubscription
<1>10. CASE LegacyMark(c) \/ LegacyFind(c) \/ Refund(c) \/ RefundMark(c)
  BY <1>1, <1>2, <1>10 DEF LegacyMark, LegacyFind, Refund, RefundMark
<1>11. CASE Reconcile(c)
  <2>1. CASE ReconcileFinds(c) /\ Row(c).status \in TERMINAL_STATES
             /\ Answer(c, IF Row(c).status = "success" THEN "activated" ELSE "final")
    BY <1>1, <2>1, AnswerGiven
  <2>2. CASE Answer(c, "notfound") \/ Goto(c, "find")
    BY <1>1, <1>2, <2>2
  <2> QED
    BY <1>11, <2>1, <2>2 DEF Reconcile
<1>12. CASE Throws(c) \/ Crash(c)
  BY <1>1, <1>4, <1>12 DEF Throws, Crash
<1> QED
  BY <1>5, <1>6, <1>7, <1>8, <1>9, <1>10, <1>11, <1>12 DEF SomeStep, Step

LEMMA StepRecovery ==
  TypeOK /\ EvidenceInv /\ RecoveryInv /\ [Next]_vars /\ [NothingCutOff]_vars
    => RecoveryInv'
<1> SUFFICES ASSUME TypeOK, EvidenceInv, RecoveryInv, [Next]_vars, [NothingCutOff]_vars
             PROVE  RecoveryInv'
  OBVIOUS
<1>0. CASE UNCHANGED vars
  BY <1>0 DEF vars, RecoveryInv, Attended, Good, CallsFor, Momo, Kind, Payment, Row
<1> SUFFICES ASSUME NEW c \in Calls, SomeStep(c), NothingCutOff PROVE RecoveryInv'
  BY <1>0 DEF Next, SomeStep
<1>1. \A p \in Payments \ MomoPayments :
        /\ tx'[p].gatewayTxId # "request"
        /\ tx'[p].meta = "txnRef" => tx'[p].gatewayTxId = "number"
        /\ tx[p].gatewayTxId = "number" => tx'[p].gatewayTxId = "number"
  BY StepKeys
<1>2. \A p \in Payments :
        Good(p)' /\ (p \in MomoPayments \/ tx'[p].meta = "txnRef") => Attended(p)'
  BY StepAttended
<1>3. ASSUME NEW d \in Calls, pc'[d] \in {"find", "mark"}, ~Momo(d)
      PROVE  tx'[Payment(d)].gatewayTxId = "number"
  <2>0. Payment(d) \in Payments \ MomoPayments
    BY <1>3, CallTypes DEF Momo
  <2>1. CASE pc[d] \in {"find", "mark"}
    BY <1>1, <1>3, <2>0, <2>1 DEF RecoveryInv, Row
  <2>2. CASE pc[d] \notin {"find", "mark"}
    <3>1. d = c
      BY <1>3, <2>2, StatusSteps
    <3>a. Behind(d)'
      BY OwnStands, <3>1
    <3>b. Kind(d)' = Kind(d) /\ Momo(d)' = Momo(d)
      BY Lasting
    <3>2. Kind(d) # "reconcile" /\ Kind(d) # "webhook"
      BY <1>3, <3>a, <3>b, SettlementConstants
         DEF Behind, EvidenceInv, Kind, Momo, Payment
    <3>3. Settle(c)
      <4>1. CASE Receive(c)
        BY <1>3, <3>1, <3>2, <4>1, GotoMoves, AnswerMoves DEF Receive
      <4>2. CASE Reconcile(c)
        <5>1. Kind(c) = "reconcile"
          BY <4>2 DEF Reconcile, EvidenceInv, Behind
        <5> QED
          BY <3>1, <3>2, <5>1
      <4>3. CASE Find(c) \/ Mark(c)
        BY <2>2, <3>1, <4>3 DEF Find, Mark
      <4>4. CASE ClaimLookup(c) \/ Claim(c) \/ SettleThrows(c) \/ Release(c) \/ Abandon(c)
        BY <1>3, <3>1, <4>4, GotoMoves, AnswerMoves
           DEF ClaimLookup, Claim, SettleThrows, Release, Abandon
      <4>5. CASE PayInvoice(c) \/ ReadSubscription(c)
        BY <1>3, <3>1, <4>5, GotoMoves DEF PayInvoice, ReadSubscription
      <4>8. CASE WriteSubscription(c)
        BY <1>3, <3>1, <4>8, ConcludedMoves DEF WriteSubscription
      <4>6. CASE LegacyMark(c) \/ LegacyFind(c) \/ Refund(c) \/ RefundMark(c)
        BY <1>3, <3>1, <4>6, GotoMoves, AnswerMoves
           DEF LegacyMark, LegacyFind, Refund, RefundMark
      <4>7. CASE Throws(c) \/ Crash(c)
        BY <1>3, <3>1, <4>7, AnswerMoves, ThrownMoves DEF Throws, Crash
      <4> QED
        BY <4>1, <4>2, <4>3, <4>4, <4>5, <4>6, <4>7, <4>8 DEF SomeStep, Step
    <3>4. CommitSettle(c)
      BY <1>3, <3>1, <3>3, AnswerMoves DEF Settle
    <3> QED
      BY <3>1, <3>4, WriteEffect DEF CommitSettle, SettledRow
  <2> QED
    BY <2>1, <2>2
<1>4. ASSUME NEW d \in Calls, Kind(d) = "reconcile", answer'[d] = "activated"
      PROVE  Attended(Payment(d))'
  <2>0. Payment(d) \in Payments /\ CallsFor(Payment(d))' = CallsFor(Payment(d))
        /\ d \in CallsFor(Payment(d))
    BY CallTypes, Lasting DEF CallsFor
  <2>a. Attended(Payment(d)) => Attended(Payment(d))'
    <3> PICK p \in Payments : p = Payment(d)
      BY <2>0
    <3>1. Payment(d)' = Payment(d)
      BY Lasting
    <3>2. Attended(p) => Attended(p)'
      BY AttendedLasts
    <3> QED
      BY <3>1, <3>2 DEF Attended
  <2>1. CASE answer[d] = "activated"
    BY <1>4, <2>1, <2>a DEF RecoveryInv
  <2>2. CASE d = c /\ c \in granted'
    BY <2>0, <2>2 DEF Attended
  <2>3. CASE d = c /\ ReconcileFinds(c) /\ Row(c).status = "success"
    BY <2>0, <2>3, <2>a DEF RecoveryInv, ReconcileFinds, Row, Momo, Good
  <2> QED
    BY <1>4, <2>1, <2>2, <2>3, ActivatedAnswers
<1>5. \A d \in Calls : Kind(d)' = Kind(d) /\ Payment(d)' = Payment(d) /\ Momo(d)' = Momo(d)
  BY Lasting
<1> QED
  BY <1>1, <1>2, <1>3, <1>4, <1>5 DEF RecoveryInv, Row, Attended

\* VnpayController.handleIpn and reconcile: as long as no activation is cut off between the
\* settlement and the subscription's write, a reconcile that reports an activation is right.
THEOREM ReconcileTellsTheTruth ==
  Spec /\ [][NothingCutOff]_vars => []ReconcileRecovers
<1>1. TypeOK /\ RecoveryInv => ReconcileRecovers
  BY CallTypes DEF RecoveryInv, ReconcileRecovers, Attended, CallsFor, Activating
<1> QED
  BY <1>1, EvidenceHolds, InitRecovery, StepRecovery, PTL DEF Spec

(***************************************************************************)
(* Refinement.                                                             *)
(***************************************************************************)

\* Only a refund comes to mark a payment refunded, and only with an invoice does a call
\* come to pay it.
BookInv ==
  \A c \in Calls :
    /\ pc[c] \in {"refund", "refundmark"} => Kind(c) = "refund"
    /\ pc[c] = "invoice" => invoice[Payment(c)] # "none"

LEMMA StepBookInv == TypeOK /\ BookInv /\ [Next]_vars => BookInv'
<1> SUFFICES ASSUME TypeOK, BookInv, [Next]_vars PROVE BookInv'
  OBVIOUS
<1>0. CASE UNCHANGED vars
  BY <1>0 DEF vars, BookInv, Kind, Payment
<1> SUFFICES ASSUME NEW c \in Calls, SomeStep(c), NEW d \in Calls
             PROVE  /\ pc'[d] \in {"refund", "refundmark"} => Kind(d) = "refund"
                    /\ pc'[d] = "invoice" => invoice'[Payment(d)] # "none"
  BY <1>0, StatusSteps DEF Next, SomeStep, BookInv, Kind, Payment
<1>1. /\ pc[d] \in {"refund", "refundmark"} => Kind(d) = "refund"
      /\ pc[d] = "invoice" => invoice[Payment(d)] # "none"
  BY DEF BookInv
<1>2. invoice[Payment(d)] # "none" => invoice'[Payment(d)] # "none"
  <2>1. Payment(d) \in Payments /\ Payment(c) \in Payments
    BY CallTypes
  <2>2. CASE PayInvoice(c)
    BY <2>1, <2>2 DEF PayInvoice, TypeOK
  <2>3. CASE ~PayInvoice(c)
    BY <2>3 DEF SomeStep, Receive, Step, SettleThrows, Abandon, Throws, Crash, ClaimLookup,
       Claim, Settle, Release, Find, Mark, ReadSubscription, WriteSubscription, LegacyMark,
       LegacyFind, Reconcile, Refund, RefundMark
  <2> QED
    BY <2>2, <2>3
<1>3. CASE d # c
  BY <1>1, <1>2, <1>3, StatusSteps
<1>4. CASE d = c
  <2>a. ASSUME NEW what, Answer(c, what) PROVE pc'[c] = "done"
    BY <2>a, AnswerMoves
  <2>b. ASSUME NEW activated, Concluded(c, activated) PROVE pc'[c] = "done"
    BY <2>b, ConcludedMoves
  <2>c. Thrown(c) => pc'[c] = "done"
    BY ThrownMoves
  <2>d. ASSUME NEW label, Goto(c, label) PROVE pc'[c] = label
    BY <2>d, GotoMoves
  <2>1. CASE Receive(c)
    BY <1>4, <2>1, <2>a, <2>d DEF Receive
  <2>2. CASE ClaimLookup(c) \/ Claim(c) \/ Settle(c)
    BY <1>4, <2>2, <2>a, <2>d DEF ClaimLookup, Claim, Settle
  <2>3. CASE SettleThrows(c) \/ Release(c) \/ Abandon(c)
    BY <1>4, <2>3, <2>a, <2>d DEF SettleThrows, Release, Abandon
  <2>4. CASE Find(c)
    BY <1>4, <2>4, <2>b, <2>d DEF Find
  <2>5. CASE Mark(c)
    BY <1>2, <1>4, <2>5, <2>b, <2>d DEF Mark
  <2>6. CASE PayInvoice(c) \/ ReadSubscription(c) \/ WriteSubscription(c)
    BY <1>4, <2>6, <2>b, <2>d DEF PayInvoice, ReadSubscription, WriteSubscription
  <2>7. CASE LegacyMark(c) \/ Reconcile(c)
    BY <1>4, <2>7, <2>a, <2>d DEF LegacyMark, Reconcile
  <2>8. CASE LegacyFind(c)
    BY <1>2, <1>4, <2>8, <2>a, <2>d DEF LegacyFind
  <2>9. CASE Refund(c) \/ RefundMark(c)
    BY <1>1, <1>4, <2>9, <2>a, <2>d DEF Refund, RefundMark
  <2>10. CASE Throws(c) \/ Crash(c)
    BY <1>4, <2>10, <2>a, <2>c DEF Throws, Crash
  <2> QED
    BY <2>1, <2>2, <2>3, <2>4, <2>5, <2>6, <2>7, <2>8, <2>9, <2>10 DEF SomeStep, Step
<1> QED
  BY <1>3, <1>4

Refining == TypeOK /\ SettlementInv /\ EvidenceInv /\ PeriodInv /\ BookInv

LEMMA InitRefines == Init => Book!Init
<1> SUFFICES ASSUME Init PROVE Book!Init
  OBVIOUS
<1>1. State = [p \in Payments |-> "open"]
  <2>1. \A p \in Payments : tx[p].status = "pending"
    BY DEF Init, NewRow
  <2> QED
    BY <2>1 DEF State, TERMINAL_STATES
<1>2. Arrived = {} /\ Marking = {}
  BY DEF Init, Arrived, Marking
<1> QED
  BY <1>1, <1>2 DEF Init, Book!Init

\* The calls that have reached the API stay there; Receive adds its own.
LEMMA ArrivedSteps ==
  ASSUME TypeOK, NEW c \in Calls, SomeStep(c)
  PROVE  Arrived' = Arrived \cup {c}
BY StatusSteps, Frame DEF Arrived

\* Nobody else comes to mark a payment, or has done so.
LEMMA MarkingSteps ==
  ASSUME TypeOK, NEW c \in Calls, SomeStep(c)
  PROVE  /\ c \in Marking' => Marking' = Marking \cup {c}
         /\ c \notin Marking' => Marking' = Marking \ {c}
BY StatusSteps DEF Marking

\* What the book sees of a payment.
LEMMA StateAt ==
  ASSUME TypeOK, NEW p \in Payments
  PROVE  /\ tx[p].status \in TERMINAL_STATES => State[p] = tx[p].status
         /\ tx[p].status \notin TERMINAL_STATES => State[p] = "open"
         /\ Book!Paid(p) <=> Good(p)
BY DEF State, Book!Paid, Good, TERMINAL_STATES

\* A row that is claimed or released stays what it is in the book.
LEMMA StateKept ==
  ASSUME TypeOK, NEW c \in Calls, SomeStep(c),
         tx'[Payment(c)] = tx[Payment(c)] \/ Claims(c) \/ GivesBack(c)
  PROVE  State' = State
<1>1. ASSUME NEW p \in Payments
      PROVE  \/ tx'[p].status = tx[p].status
             \/ tx'[p].status \notin TERMINAL_STATES /\ tx[p].status \notin TERMINAL_STATES
  BY StatusSteps, ClaimedKeys DEF Claims, Claimable, GivesBack, Row, TERMINAL_STATES
<1> QED
  BY <1>1 DEF State

LEMMA StateWritten ==
  ASSUME TypeOK, NEW c \in Calls, SomeStep(c), NEW status \in TERMINAL_STATES,
         tx'[Payment(c)].status = status
  PROVE  State' = [State EXCEPT ![Payment(c)] = status]
<1>1. \A p \in Payments \ {Payment(c)} : tx'[p] = tx[p]
  BY StatusSteps
<1> QED
  BY <1>1, CallTypes DEF State

\* A step of a call that has arrived, with nothing to be seen in the book but that the
\* call may have given up.
LEMMA QuietRefines ==
  ASSUME TypeOK, NEW c \in Calls, SomeStep(c), pc[c] # "idle",
         tx'[Payment(c)] = tx[Payment(c)] \/ Claims(c) \/ GivesBack(c),
         c \in Marking' => c \in Marking,
         UNCHANGED <<invoice, opening, expiry, settled, granted>>
  PROVE  [Book!Next]_Book!vars
<1>1. State' = State /\ req' = req
  BY StateKept, StatusSteps
<1>2. Arrived' = Arrived
  BY ArrivedSteps DEF Arrived
<1>3. CASE c \in Marking /\ c \notin Marking'
  <2>1. Book!GiveUp(c)
    BY <1>1, <1>2, <1>3, MarkingSteps DEF Book!GiveUp, Book!Conclude
  <2> QED
    BY <2>1 DEF Book!Next
<1>4. CASE ~(c \in Marking /\ c \notin Marking')
  <2>1. Marking' = Marking
    BY <1>4, MarkingSteps
  <2> QED
    BY <1>1, <1>2, <2>1 DEF Book!vars
<1> QED
  BY <1>3, <1>4

LEMMA ReceiveRefines ==
  ASSUME TypeOK, NEW c \in Calls, Receive(c)
  PROVE  [Book!Next]_Book!vars
<1>1. /\ pc[c] = "idle" /\ SomeStep(c)
      /\ UNCHANGED <<tx, invoice, opening, expiry, settled, granted, req>>
  BY DEF Receive, SomeStep
<1>2. Arrived' = Arrived \cup {c} /\ c \notin Arrived
  BY <1>1, ArrivedSteps DEF Arrived
<1>3. State' = State
  BY <1>1 DEF State
<1>4. c \notin Marking
  BY <1>1 DEF Marking
<1>5. c \in Marking' <=> Kind(c) \in {"legacy", "webhook"} /\ req[c].paid
  BY GotoMoves, AnswerMoves, CallTypes DEF Receive, Marking, Kinds
<1>6. Marking' = IF Kind(c) \in {"legacy", "webhook"} /\ req[c].paid
                   THEN Marking \cup {c} ELSE Marking
  BY <1>1, <1>4, <1>5, MarkingSteps
<1>7. Book!Hear(c)
  BY <1>1, <1>2, <1>3, <1>6 DEF Book!Hear, Kind
<1> QED
  BY <1>7 DEF Book!Next

\* reconcile goes on only with a payment that it has found open.
LEMMA ReconcileRefines ==
  ASSUME TypeOK, EvidenceInv, NEW c \in Calls, Reconcile(c)
  PROVE  [Book!Next]_Book!vars
<1>1. /\ pc[c] = "reconcile" /\ SomeStep(c)
      /\ UNCHANGED <<tx, invoice, opening, expiry, settled, granted, req>>
  BY DEF Reconcile, SomeStep, Step
<1>2. CASE c \notin Marking'
  BY <1>1, <1>2, QuietRefines
<1>3. CASE c \in Marking'
  <2> PICK p \in Payments : p = Payment(c)
    BY CallTypes
  <2>1. c \in Arrived /\ Arrived' = Arrived
    BY <1>1, ArrivedSteps DEF Arrived
  <2>2. State' = State
    BY <1>1, StateKept
  <2>3. tx[p].status \notin TERMINAL_STATES
    BY <1>3, AnswerMoves DEF Reconcile, Marking, Row
  <2>4. Kind(c) = "reconcile" /\ State[p] = "open"
    BY <1>1, <2>3, StateAt DEF EvidenceInv, Behind
  <2>5. Book!TakeUp(c)
    BY <1>1, <1>3, <2>1, <2>2, <2>4, MarkingSteps DEF Book!TakeUp, Kind, Payment
  <2> QED
    BY <2>5 DEF Book!Next
<1> QED
  BY <1>2, <1>3

\* The fence lets the one callback through that finds its payment open.
LEMMA SettleRefines ==
  ASSUME Refining, NEW c \in Calls, Settle(c) \/ SettleThrows(c)
  PROVE  [Book!Next]_Book!vars
<1> USE DEF Refining
<1>1. /\ pc[c] = "settle" /\ SomeStep(c)
      /\ UNCHANGED <<invoice, opening, expiry, granted, req>>
  BY DEF Settle, SettleThrows, SomeStep, Step
<1>a. c \in Marking' => CommitSettle(c) /\ req[c].paid
  BY GotoMoves, AnswerMoves DEF Settle, SettleThrows, Marking
<1>2. CASE ~CommitSettle(c)
  <2>1. tx' = tx /\ settled' = settled
    BY <1>2 DEF Settle, SettleThrows
  <2> QED
    BY <1>1, <1>2, <1>a, <2>1, QuietRefines
<1>3. CASE CommitSettle(c)
  <2> PICK p \in Payments : p = Payment(c)
    BY CallTypes
  <2>1. c \in Arrived /\ Arrived' = Arrived
    BY <1>1, ArrivedSteps DEF Arrived
  <2>2. Kind(c) = "ipn" /\ req[c].amountMatches
    BY <1>1 DEF EvidenceInv, Behind
  <2>3. tx[p].status = "processing" /\ State[p] = "open"
    BY <1>3, StateAt DEF CommitSettle, Fence, Row, TERMINAL_STATES
  <2>4. \A d \in settled : Payment(d) # p
    BY <2>3 DEF SettlementInv, SettledIsFinal, Row, TERMINAL_STATES
  <2>5. State' = [State EXCEPT ![p] = IF req[c].paid THEN "success" ELSE "failed"]
    <3>1. tx'[p].status = IF req[c].paid THEN "success" ELSE "failed"
      BY <1>3, WriteEffect DEF CommitSettle, SettledRow
    <3>2. {"success", "failed"} \subseteq TERMINAL_STATES
      BY DEF TERMINAL_STATES
    <3> QED
      BY <1>1, <3>1, <3>2, StateWritten
  <2>7. (req[c].paid /\ Marking' = Marking \cup {c}) \/ Marking' = Marking
    <3>1. c \notin Marking
      BY <1>1 DEF Marking
    <3> QED
      BY <1>1, <1>a, <3>1, MarkingSteps
  <2>6. Book!Settle(c)
    BY <1>1, <1>3, <2>1, <2>2, <2>3, <2>4, <2>5, <2>7
       DEF Book!Settle, Book!Guarded, CommitSettle, Kind, Payment
  <2> QED
    BY <2>6 DEF Book!Next
<1> QED
  BY <1>2, <1>3 DEF Settle, SettleThrows

\* A call that marks its payment successful is under way; a guarded one has settled it
\* as paid, and a legacy one has found it open.
LEMMA MarkingRefines ==
  ASSUME Refining, NEW c \in Calls, SomeStep(c), Marks(c) \/ Renames(c), c \notin Marking',
         UNCHANGED <<invoice, opening, expiry, settled, granted>>
  PROVE  [Book!Next]_Book!vars
<1> USE DEF Refining
<1> PICK p \in Payments : p = Payment(c)
  BY CallTypes
<1>1. Behind(c) /\ Relies(c) /\ pc[c] \in {"mark", "legacymark"} /\ req' = req
  BY StatusSteps DEF EvidenceInv, Marks, Renames
<1>2. Book!Conclude(c)
  <2>1. c \in Marking /\ Marking' = Marking \ {c}
    BY <1>1, MarkingSteps DEF Marking
  <2>2. Arrived' = Arrived
    BY <1>1, ArrivedSteps DEF Arrived
  <2> QED
    BY <1>1, <2>1, <2>2 DEF Book!Conclude
<1>3. State' = [State EXCEPT ![p] = "success"]
  <2>1. tx'[p].status = "success"
    BY DEF Marks, Renames
  <2> QED
    BY <2>1, StateWritten DEF TERMINAL_STATES
<1>4. CASE Marks(c) /\ Kind(c) = "ipn"
  <2>1. State[p] \in {"success", "refunded"}
    BY <1>1, <1>4, StateAt DEF Marks, Relies, Good, TERMINAL_STATES
  <2>2. Book!MarkPaid(c) \/ Book!TakeBack(c)
    BY <1>2, <1>3, <1>4, <2>1
    DEF Book!MarkPaid, Book!TakeBack, Book!Guarded, Kind, Payment
  <2> QED
    BY <2>2 DEF Book!Next
<1>5. CASE Marks(c) /\ Kind(c) # "ipn"
  <2>1. Kind(c) \in {"webhook", "reconcile"}
    BY <1>1, <1>5 DEF Marks, Behind, Vouches
  <2>2. Book!MarkPaid(c) \/ Book!TakeBack(c)
    BY <1>2, <1>3, <1>5, <2>1
    DEF Book!MarkPaid, Book!TakeBack, Book!Guarded, Kind, Payment
  <2> QED
    BY <2>2 DEF Book!Next
<1>6. CASE Renames(c)
  <2>1. Kind(c) = "legacy"
    BY <1>1, <1>6 DEF Renames, Behind
  <2>2. tx[p].status = "pending"
    BY <1>6 DEF Renames, EvidenceInv, RowInv
  <2>3. State[p] = "open"
    BY <2>2, StateAt DEF TERMINAL_STATES
  <2>4. Book!MarkPaid(c)
    BY <1>2, <1>3, <2>1, <2>3 DEF Book!MarkPaid, Book!Guarded, Kind, Payment
  <2> QED
    BY <2>4 DEF Book!Next
<1> QED
  BY <1>4, <1>5, <1>6

LEMMA RefundRefines ==
  ASSUME Refining, NEW c \in Calls, RefundMark(c)
  PROVE  [Book!Next]_Book!vars
<1> USE DEF Refining
<1> PICK p \in Payments : p = Payment(c)
  BY CallTypes
<1>1. /\ pc[c] = "refundmark" /\ SomeStep(c)
      /\ UNCHANGED <<invoice, opening, expiry, settled, granted, req>>
      /\ Write(c, [Row(c) EXCEPT !.status = "refunded"])
  BY DEF RefundMark, SomeStep, Step
<1>2. c \in Arrived /\ Arrived' = Arrived
  BY <1>1, ArrivedSteps DEF Arrived
<1>3. Kind(c) = "refund" /\ Book!Paid(p)
  BY <1>1, StateAt DEF BookInv, EvidenceInv, Relies
<1>4. State' = [State EXCEPT ![p] = "refunded"]
  <2>1. tx'[p].status = "refunded"
    BY <1>1, RewriteStatus
  <2> QED
    BY <1>1, <2>1, StateWritten DEF TERMINAL_STATES
<1>6. Marking' = Marking
  BY <1>1, MarkingSteps, AnswerMoves DEF RefundMark, Marking
<1>5. Book!Refund(c)
  BY <1>1, <1>2, <1>3, <1>4, <1>6 DEF Book!Refund, Kind, Payment
<1> QED
  BY <1>5 DEF Book!Next

LEMMA InvoiceRefines ==
  ASSUME Refining, NEW c \in Calls, PayInvoice(c)
  PROVE  [Book!Next]_Book!vars
<1> USE DEF Refining
<1> PICK p \in Payments : p = Payment(c)
  BY CallTypes
<1>1. /\ pc[c] = "invoice" /\ SomeStep(c)
      /\ UNCHANGED <<tx, opening, expiry, settled, granted, req>>
      /\ invoice' = [invoice EXCEPT ![p] = "paid"]
  BY DEF PayInvoice, SomeStep, Step
<1>2. invoice[p] \in {"open", "paid"}
  BY <1>1 DEF BookInv, TypeOK
<1>5. c \notin Marking'
  BY GotoMoves DEF PayInvoice, Marking
<1>6. Marking' = Marking
  BY <1>1, <1>5, MarkingSteps DEF Marking
<1>3. CASE invoice[p] = "paid"
  <2>1. invoice' = invoice
    BY <1>1, <1>3 DEF TypeOK
  <2> QED
    BY <1>1, <1>5, <2>1, QuietRefines
<1>4. CASE invoice[p] = "open"
  <2>1. State' = State /\ Arrived' = Arrived
    BY <1>1, StateKept, ArrivedSteps DEF Arrived
  <2>2. Book!Paid(p)
    BY <1>1, StateAt DEF EvidenceInv, Relies
  <2>3. Book!PayInvoice(p)
    BY <1>1, <1>4, <1>6, <2>1, <2>2 DEF Book!PayInvoice
  <2> QED
    BY <2>3 DEF Book!Next
<1> QED
  BY <1>2, <1>3, <1>4

LEMMA PeriodRefines ==
  ASSUME Refining, NEW c \in Calls, WriteSubscription(c)
  PROVE  [Book!Next]_Book!vars
<1> USE DEF Refining
<1> PICK p \in Payments : p = Payment(c)
  BY CallTypes
<1> PICK n : n = Cardinality(granted)
  OBVIOUS
<1>1. /\ pc[c] = "subwrite" /\ SomeStep(c)
      /\ UNCHANGED <<tx, invoice, opening, settled, req>>
      /\ expiry' = base[c] + 1 /\ granted' = granted \cup {c}
  BY DEF WriteSubscription, computeExpiry, SomeStep, Step
<1>2. /\ State' = State /\ Arrived' = Arrived /\ c \in Arrived
  BY <1>1, StateKept, ArrivedSteps DEF Arrived
<1>3. c \notin granted
  BY <1>1 DEF PeriodInv
<1>4. Kind(c) = "ipn" => c \in settled
  BY <1>1 DEF SettlementInv, GuardedCallsSettle, Activating
<1>5. Book!Paid(p) /\ invoice[p] = "paid"
  BY <1>1, StateAt DEF EvidenceInv, Relies
<1>6. opening < expiry' /\ expiry' <= opening + n + 1
  <2>1. opening <= base[c] /\ base[c] <= opening + n
    BY <1>1 DEF PeriodInv, PeriodsAreEarned
  <2>2. n \in Nat /\ opening \in Nat /\ base[c] \in Nat
    BY FS_CardinalityType, SettlementConstants DEF PeriodInv, TypeOK
  <2> QED
    BY <1>1, <2>1, <2>2
\* The book counts with the same Cardinality.
<1>7. n = Book!Cardinality(granted)
  BY DEF Book!Cardinality, Cardinality
<1>9. Marking' = Marking
  BY <1>1, MarkingSteps, ConcludedMoves DEF WriteSubscription, Marking
<1>8. Book!AddPeriod(c)
  BY <1>1, <1>2, <1>3, <1>4, <1>5, <1>6, <1>7, <1>9
  DEF Book!AddPeriod, Book!Guarded, Kind, Payment
<1> QED
  BY <1>8 DEF Book!Next

LEMMA StepRefines == Refining /\ [Next]_vars => [Book!Next]_Book!vars
<1> SUFFICES ASSUME Refining, [Next]_vars PROVE [Book!Next]_Book!vars
  OBVIOUS
<1> USE DEF Refining
<1>0. CASE UNCHANGED vars
  BY <1>0 DEF vars, Book!vars, State, Arrived, Marking
<1> SUFFICES ASSUME NEW c \in Calls, SomeStep(c) PROVE [Book!Next]_Book!vars
  BY <1>0 DEF Next, SomeStep
<1>1. CASE ClaimLookup(c) \/ ReadSubscription(c) \/ LegacyFind(c) \/ Refund(c)
           \/ Throws(c) \/ Crash(c)
  <2>1. pc[c] # "idle" /\ UNCHANGED <<tx, invoice, opening, expiry, settled, granted>>
    BY <1>1 DEF ClaimLookup, ReadSubscription, LegacyFind, Refund, Throws, Activating, Crash
  <2>2. pc'[c] \in {"claim", "subwrite", "invoice", "refundmark", "done"}
    BY <1>1, GotoMoves, AnswerMoves, ThrownMoves
    DEF ClaimLookup, ReadSubscription, LegacyFind, Refund, Throws, Crash
  <2> QED
    BY <2>1, <2>2, QuietRefines DEF Marking
<1>2. CASE Claim(c) \/ Release(c) \/ Abandon(c) \/ Find(c)
  <2>1. /\ pc[c] \notin {"idle", "settle", "mark", "legacymark", "refundmark"}
        /\ UNCHANGED <<invoice, opening, expiry, settled, granted>>
    BY <1>2 DEF Claim, Release, Abandon, Find
  <2>2. tx'[Payment(c)] = tx[Payment(c)] \/ Claims(c) \/ GivesBack(c)
    BY <2>1, RowSteps DEF Settles, Marks, Renames, Refunds
  <2>3. pc[c] = "find" \/ pc'[c] \in {"settle", "done"}
    BY <1>2, GotoMoves, AnswerMoves DEF Claim, Release, Abandon, Find
  <2> QED
    BY <2>1, <2>2, <2>3, QuietRefines DEF Marking
<1>3. CASE LegacyMark(c)
  <2>1. /\ pc[c] = "legacymark" /\ pc'[c] = "legacyfind"
        /\ UNCHANGED <<invoice, opening, expiry, settled, granted>>
    BY <1>3, GotoMoves DEF LegacyMark
  <2>2. tx'[Payment(c)] = tx[Payment(c)] \/ Renames(c)
    BY <2>1, RowSteps DEF Claims, GivesBack, Settles, Marks, Refunds
  <2>3. c \notin Marking'
    BY <2>1 DEF Marking
  <2> QED
    BY <2>1, <2>2, <2>3, QuietRefines, MarkingRefines
<1>4. CASE Mark(c)
  <2>1. UNCHANGED <<invoice, opening, expiry, settled, granted>>
    BY <1>4 DEF Mark
  <2>2. Marks(c) /\ c \notin Marking'
    BY <1>4, MarkWrites DEF Marking
  <2> QED
    BY <2>1, <2>2, MarkingRefines
<1> QED
  BY <1>1, <1>2, <1>3, <1>4, ReceiveRefines, ReconcileRefines, SettleRefines, RefundRefines,
     InvoiceRefines, PeriodRefines DEF SomeStep, Step

\* Guarded and legacy callbacks, webhooks, reconcile and refunds, with everything that
\* fails and dies between their steps, do nothing PaymentBook does not allow.
THEOREM Refinement == Spec => RefinesPaymentBook
<1>1. Init => BookInv
  BY DEF Init, BookInv
<1>2. Spec => []Refining
  BY <1>1, TypeCorrect, InitSettlement, StepSettlement, EvidenceHolds, InitPeriods,
     StepPeriods, StepBookInv, PTL DEF Spec, Refining
<1> QED
  BY <1>2, InitRefines, StepRefines, PTL DEF Spec, RefinesPaymentBook, Book!Spec

(***************************************************************************)
(* Callers that activate nothing.                                          *)
(*                                                                         *)
(* The legacy handlers rename a VNPay row and then look for its old name,  *)
(* and a MoMo row never had the name they look for.  Reconcile finds a     *)
(* VNPay payment by a key that only its settlement writes, so that there   *)
(* is nothing left to do when it is found.                                 *)
(***************************************************************************)

Fruitless(c) == Kind(c) = "legacy" \/ (Kind(c) = "reconcile" /\ ~Momo(c))

FruitlessCallsAddNothing ==
  \A c \in Calls : Fruitless(c) => pc[c] \notin Activating /\ c \notin granted

LEMMA StepFruitless ==
  TypeOK /\ EvidenceInv /\ FruitlessCallsAddNothing /\ [Next]_vars
    => FruitlessCallsAddNothing'
<1> SUFFICES ASSUME TypeOK, EvidenceInv, FruitlessCallsAddNothing, [Next]_vars
             PROVE  FruitlessCallsAddNothing'
  OBVIOUS
<1>0. CASE UNCHANGED vars
  BY <1>0 DEF vars, FruitlessCallsAddNothing, Fruitless, Kind, Momo, Payment
<1> SUFFICES ASSUME NEW c \in Calls, SomeStep(c), NEW d \in Calls, Fruitless(d)
             PROVE  pc'[d] \notin Activating /\ d \notin granted'
  BY <1>0, StatusSteps
  DEF Next, SomeStep, FruitlessCallsAddNothing, Fruitless, Kind, Momo, Payment
<1>1. pc[d] \notin Activating /\ d \notin granted
  BY DEF FruitlessCallsAddNothing
<1>2. CASE d # c
  BY <1>1, <1>2, StatusSteps, Frame
<1>3. CASE d = c
  <2>1. c \notin granted'
    BY <1>1, <1>3, Frame DEF Activating
  <2>2. CASE Receive(c)
    BY <1>3, <2>1, <2>2, GotoMoves, AnswerMoves DEF Receive, Fruitless, Activating
  <2>3. CASE LegacyMark(c)
    BY <1>3, <2>1, <2>3, GotoMoves DEF LegacyMark, Activating
  <2>4. CASE LegacyFind(c)
    <3>1. Row(c).gatewayTxId # "order"
      BY <2>4 DEF LegacyFind, EvidenceInv, Relies
    <3> QED
      BY <1>3, <2>1, <2>4, <3>1, AnswerMoves DEF LegacyFind, Activating
  <2>5. CASE Reconcile(c)
    <3>1. Kind(c) = "reconcile" /\ ~Momo(c)
      BY <1>3, <2>5 DEF Reconcile, EvidenceInv, Behind, Fruitless
    <3>2. ReconcileFinds(c) => Row(c).status \in TERMINAL_STATES
      BY <3>1, CallTypes DEF ReconcileFinds, EvidenceInv, RowInv, Momo, Row
    <3> QED
      BY <1>3, <2>1, <2>5, <3>2, AnswerMoves DEF Reconcile, Activating
  <2>6. CASE Throws(c) \/ Crash(c)
    BY <1>3, <2>1, <2>6, AnswerMoves, ThrownMoves DEF Throws, Crash, Activating
  <2>7. CASE \/ ClaimLookup(c) \/ Claim(c) \/ Settle(c) \/ Release(c) \/ SettleThrows(c)
             \/ Abandon(c)
    BY <1>3, <2>7
    DEF ClaimLookup, Claim, Settle, Release, SettleThrows, Abandon, EvidenceInv, Behind,
        Fruitless
  <2>8. CASE Refund(c) \/ RefundMark(c)
    BY <1>3, <2>1, <2>8, GotoMoves, AnswerMoves DEF Refund, RefundMark, Activating
  <2>9. CASE Find(c) \/ Mark(c) \/ PayInvoice(c) \/ ReadSubscription(c) \/ WriteSubscription(c)
    BY <1>1, <1>3, <2>9
    DEF Find, Mark, PayInvoice, ReadSubscription, WriteSubscription, Activating
  <2> QED
    BY <2>2, <2>3, <2>4, <2>5, <2>6, <2>7, <2>8, <2>9 DEF SomeStep, Step
<1> QED
  BY <1>2, <1>3

\* PaymentsService.handleMomoIpn and handleVnpayIpn never get to the activator, and a
\* reconcile never does for VNPay: neither ever adds a period, whatever else happens.  (The
\* callback of a successful VNPay payment carries a transaction number, to which
\* LegacyMark renames the row.)
THEOREM FruitlessCallers ==
  Spec => [](\A c \in Calls : Fruitless(c) => c \notin granted)
<1>1. Init => FruitlessCallsAddNothing
  BY DEF Init, FruitlessCallsAddNothing, Activating
<1>2. FruitlessCallsAddNothing => \A c \in Calls : Fruitless(c) => c \notin granted
  BY DEF FruitlessCallsAddNothing
<1> QED
  BY <1>1, <1>2, StepFruitless, EvidenceHolds, PTL DEF Spec

(***************************************************************************)
(* Claims that are lost.                                                   *)
(*                                                                         *)
(* VNPay's claim names the row by the gateway's number and the release     *)
(* gives back the status alone, while our own order id is written to the   *)
(* metadata only by the settlement.                                        *)
(***************************************************************************)

Lost(p) ==
  /\ p \notin MomoPayments
  /\ tx[p].status \notin TERMINAL_STATES
  /\ tx[p].gatewayTxId # "order" /\ tx[p].meta = "orderId"
  /\ \A c \in CallsFor(p) : pc[c] \notin {"claim", "settle", "release"}

\* VnpayIpnGuard.claim and settle: a VNPay payment whose claim was given back, or left by
\* a worker that died, is not taken up again by anybody, unless another callback had
\* looked it up before the claim.  No redelivery, reconcile or legacy callback changes it.
THEOREM LostClaimsStayLost ==
  Spec => [][\A p \in Payments : Lost(p) => Lost(p)' /\ tx'[p] = tx[p]]_vars
<1>1. ASSUME TypeOK, EvidenceInv, NEW c \in Calls, SomeStep(c), NEW p \in Payments, Lost(p)
      PROVE  Lost(p)' /\ tx'[p] = tx[p]
  <2>1. ~Good(p) /\ CallsFor(p)' = CallsFor(p)
    BY <1>1, Lasting DEF Lost, Good, TERMINAL_STATES
  <2>2. tx'[p] = tx[p]
    <3> SUFFICES ASSUME p = Payment(c) PROVE tx'[p] = tx[p]
      BY <1>1, StatusSteps
    <3>1. Behind(c) /\ Relies(c) /\ c \in CallsFor(p) /\ ~Momo(c)
      BY <1>1 DEF EvidenceInv, CallsFor, Lost, Momo
    <3>2. pc[c] \notin {"claim", "settle", "release", "refundmark"}
      BY <1>1, <2>1, <3>1 DEF Lost, Relies
    <3>3. pc[c] # "mark"
      <4>1. Kind(c) # "webhook"
        BY <1>1, <3>1, SettlementConstants DEF EvidenceInv, Kind, Momo, Payment
      <4> QED
        BY <2>1, <3>1, <4>1 DEF Behind, Relies, Vouches
    <3>4. ~Renames(c)
      BY <1>1 DEF Renames, Lost
    <3> QED
      BY <1>1, <3>2, <3>3, <3>4, RowSteps DEF Claims, GivesBack, Settles, Marks, Refunds
  <2>3. ASSUME NEW d \in CallsFor(p) PROVE pc'[d] \notin {"claim", "settle", "release"}
    <3>1. d \in Calls /\ Payment(d) = p /\ pc[d] \notin {"claim", "settle", "release"}
      BY <1>1 DEF Lost, CallsFor
    <3>2. CASE d # c
      BY <1>1, <3>1, <3>2, StatusSteps
    <3>3. CASE d = c
      <4>1. pc'[c] \notin {"settle", "release"}
        BY <1>1, <3>1, <3>3, StatusSteps DEF Claim
      <4>2. pc'[c] # "claim"
        <5>1. ~ClaimFinds(c)
          BY <1>1, <3>1, <3>3 DEF Lost, ClaimFinds, Momo, Row
        <5>2. CASE ClaimLookup(c)
          BY <1>1, <5>1, <5>2, AnswerMoves DEF ClaimLookup, Precheck
        <5>3. CASE Receive(c)
          BY <1>1, <5>3, GotoMoves, AnswerMoves DEF Receive
        <5>4. CASE Find(c)
          <6>1. CASE Goto(c, "mark")
            BY <1>1, <6>1, GotoMoves
          <6>2. CASE Concluded(c, FALSE)
            BY <1>1, <6>2, ConcludedMoves
          <6> QED
            BY <5>4, <6>1, <6>2 DEF Find
        <5>9. CASE Mark(c)
          BY <1>1, <5>9, MarkWrites
        <5>10. CASE PayInvoice(c) \/ ReadSubscription(c)
          BY <1>1, <5>10, GotoMoves DEF PayInvoice, ReadSubscription
        <5>5. CASE WriteSubscription(c)
          BY <1>1, <5>5, ConcludedMoves DEF WriteSubscription
        <5>6. CASE LegacyMark(c) \/ LegacyFind(c) \/ Reconcile(c) \/ Refund(c) \/ RefundMark(c)
          BY <1>1, <5>6, GotoMoves, AnswerMoves
          DEF LegacyMark, LegacyFind, Reconcile, Refund, RefundMark
        <5>7. CASE Throws(c) \/ Crash(c)
          BY <1>1, <5>7, AnswerMoves, ThrownMoves DEF Throws, Crash
        <5>8. ~(Claim(c) \/ Settle(c) \/ Release(c) \/ SettleThrows(c) \/ Abandon(c))
          BY <3>1, <3>3 DEF Claim, Settle, Release, SettleThrows, Abandon
        <5> QED
          BY <1>1, <5>2, <5>3, <5>4, <5>5, <5>6, <5>7, <5>8, <5>9, <5>10
          DEF SomeStep, Step
      <4> QED
        BY <3>3, <4>1, <4>2
    <3> QED
      BY <3>2, <3>3
  <2> QED
    BY <1>1, <2>1, <2>2, <2>3 DEF Lost
<1>2. TypeOK /\ EvidenceInv /\ [Next]_vars =>
        [\A p \in Payments : Lost(p) => Lost(p)' /\ tx'[p] = tx[p]]_vars
  BY <1>1 DEF Next, SomeStep
<1> QED
  BY <1>2, EvidenceHolds, PTL DEF Spec
=============================================================================
