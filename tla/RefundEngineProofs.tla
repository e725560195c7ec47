------------------------ MODULE RefundEngineProofs ------------------------
(***************************************************************************)
(* Theorems about RefundEngine, for every set of payments, calls and       *)
(* requests, every amount paid and every limit of the wallet.              *)
(***************************************************************************)
EXTENDS RefundEngine, SumTheorems

(***************************************************************************)
(* The inductive invariant.                                                *)
(***************************************************************************)

\* The amounts of the calls, as the function whose values the records add up.
Amounts == [c \in Calls |-> Amount(c)]

\* The sum the integrity check reads is that of the payment's records.
Booked ==
  /\ IsFiniteSet(records)
  /\ \A p \in Payments : /\ refunded[p] = Total(Amounts, RecordsOf(p))
                         /\ refunded[p] <= Original[p]

\* The wallet holds the refunds on record and what others have credited.
Held == /\ wallet.balance = Total(Amounts, records) + others
        /\ wallet.balance <= MaxBalance

\* What a call about to commit has checked is still so unless the wallet row has
\* changed since: every change of it counts its version up.
Checked ==
  \A c \in Calls :
    pc[c] = "commit" =>
      /\ Positive(c)
      /\ snap[c].version <= wallet.version
      /\ SnapshotValid(c) =>
           /\ snap[c] = wallet
           /\ Fits(c)
           /\ wallet.balance + Amount(c) <= MaxBalance

\* A call has a record exactly from its commit on, and answers once.
Answered ==
  /\ AnswersAreTrue
  /\ \A c \in Calls :
       /\ pc[c] \in {"idle", "check", "begin", "commit"} => c \notin records
       /\ pc[c] \in {"reply", "mark"} => c \in records
       /\ pc[c] # "done" => answer[c] = "none"

IInv == TypeOK /\ Booked /\ Held /\ Checked /\ Answered

(***************************************************************************)
(* Type correctness.                                                       *)
(***************************************************************************)

LEMMA RequestFacts ==
  ASSUME TypeOK, NEW c \in Calls
  PROVE  Amount(c) \in Int /\ Payment(c) \in Payments /\ Kind(c) \in {"api", "webhook"}
<1>1. req[c] \in RequestType
  BY RefundConstants DEF TypeOK
<1> QED
  BY <1>1 DEF RequestType, Amount, Payment, Kind

LEMMA GotoType ==
  ASSUME TypeOK, NEW c \in Calls, NEW label \in PCs, Goto(c, label)
  PROVE  pc' \in [Calls -> PCs] /\ answer' \in [Calls -> Answers]
BY DEF TypeOK, Goto

LEMMA AnswerType ==
  ASSUME TypeOK, NEW c \in Calls, NEW what \in Answers, Answer(c, what)
  PROVE  pc' \in [Calls -> PCs] /\ answer' \in [Calls -> Answers]
BY DEF TypeOK, Answer, PCs

LEMMA BlockedType ==
  ASSUME TypeOK, NEW c \in Calls, Blocked(c)
  PROVE  pc' \in [Calls -> PCs] /\ answer' \in [Calls -> Answers]
<1>1. \E what \in Answers : Answer(c, what)
  BY DEF Blocked, Answers
<1> QED
  BY <1>1, AnswerType

LEMMA InitTypeOK == Init => TypeOK
<1> SUFFICES ASSUME Init PROVE TypeOK
  OBVIOUS
<1>1. NewWallet \in Rows
  BY DEF NewWallet, Rows
<1>2. others \in 0 .. OtherCredits
  BY RefundConstants DEF Init
<1> QED
  BY <1>1, <1>2 DEF Init, TypeOK, PCs, Answers

\* Only a positive amount keeps the sums natural, which is what Checked adds.
LEMMA StepTypeOK == TypeOK /\ Checked /\ [Next]_vars => TypeOK'
<1> SUFFICES ASSUME TypeOK, Checked, [Next]_vars PROVE TypeOK'
  OBVIOUS
<1> USE RefundConstants
<1>1. ASSUME NEW c \in Calls, Receive(c) PROVE TypeOK'
  <2>1. Blocked(c) \/ Goto(c, "check")
    BY <1>1 DEF Receive
  <2>2. pc' \in [Calls -> PCs] /\ answer' \in [Calls -> Answers]
    BY <2>1, BlockedType, GotoType DEF PCs
  <2> QED
    BY <1>1, <2>2 DEF Receive, TypeOK
<1>2. ASSUME NEW c \in Calls, Check(c) PROVE TypeOK'
  <2>1. Blocked(c) \/ Goto(c, "begin") \/ Answer(c, "skipped")
    BY <1>2 DEF Check
  <2>2. pc' \in [Calls -> PCs] /\ answer' \in [Calls -> Answers]
    BY <2>1, BlockedType, GotoType, AnswerType DEF PCs, Answers
  <2> QED
    BY <1>2, <2>2 DEF Check, TypeOK
<1>3. ASSUME NEW c \in Calls, Begin(c) PROVE TypeOK'
  <2>1. \/ Goto(c, "commit") /\ snap' = [snap EXCEPT ![c] = wallet]
        \/ Blocked(c) /\ UNCHANGED snap
    BY <1>3 DEF Begin
  <2>2. pc' \in [Calls -> PCs] /\ answer' \in [Calls -> Answers]
    BY <2>1, BlockedType, GotoType DEF PCs
  <2>3. snap' \in [Calls -> Rows]
    BY <2>1 DEF TypeOK
  <2> QED
    BY <1>3, <2>2, <2>3 DEF Begin, TypeOK
<1>4. ASSUME NEW c \in Calls, Commit(c) PROVE TypeOK'
  <2>1. Blocked(c) \/ Goto(c, "reply")
    BY <1>4 DEF Commit
  <2>2. pc' \in [Calls -> PCs] /\ answer' \in [Calls -> Answers]
    BY <2>1, BlockedType, GotoType DEF PCs
  <2>3. Amount(c) \in Nat /\ Payment(c) \in Payments
    BY <1>4, RequestFacts DEF Commit, Checked, Positive
  <2>4. snap[c] \in Rows /\ \A p \in Payments : refunded[p] \in Nat
    BY DEF TypeOK
  <2>5. wallet' \in Rows
    <3>1. snap[c].balance + Amount(c) \in Nat /\ snap[c].version + 1 \in Nat
      BY <2>3, <2>4 DEF Rows
    <3> QED
      BY <1>4, <3>1 DEF Commit, TypeOK, Rows
  <2>6. refunded' \in [Payments -> Nat]
    BY <1>4, <2>3, <2>4 DEF Commit, TypeOK
  <2>7. records' \subseteq Calls
    BY <1>4 DEF Commit, TypeOK
  <2> QED
    BY <1>4, <2>2, <2>5, <2>6, <2>7 DEF Commit, TypeOK
<1>5. ASSUME NEW c \in Calls, Reply(c) PROVE TypeOK'
  <2>1. Answer(c, "success") \/ Goto(c, "mark") \/ Blocked(c)
    BY <1>5 DEF Reply
  <2>2. pc' \in [Calls -> PCs] /\ answer' \in [Calls -> Answers]
    BY <2>1, BlockedType, GotoType, AnswerType DEF PCs, Answers
  <2> QED
    BY <1>5, <2>2 DEF Reply, TypeOK
<1>6. ASSUME NEW c \in Calls, Mark(c) PROVE TypeOK'
  <2>1. pc' \in [Calls -> PCs] /\ answer' \in [Calls -> Answers]
    BY <1>6, AnswerType DEF Mark, Answers
  <2>2. status' \in [Payments -> {"success", "refunded"}]
    BY <1>6 DEF Mark, TypeOK
  <2> QED
    BY <1>6, <2>1, <2>2 DEF Mark, TypeOK
<1>7. ASSUME NEW c \in Calls, Crash(c) PROVE TypeOK'
  <2>1. pc' \in [Calls -> PCs] /\ answer' \in [Calls -> Answers]
    BY <1>7, AnswerType DEF Crash, Answers
  <2> QED
    BY <1>7, <2>1 DEF Crash, TypeOK
<1>8. CASE OtherCredit
  BY <1>8 DEF OtherCredit, TypeOK, Rows
<1>9. CASE UNCHANGED vars
  BY <1>9 DEF vars, TypeOK
<1> QED
  BY <1>1, <1>2, <1>3, <1>4, <1>5, <1>6, <1>7, <1>8, <1>9 DEF Next

(***************************************************************************)
(* Lemmas on the parts of the invariant.                                   *)
(***************************************************************************)

LEMMA AmountsAreIntegers ==
  TypeOK => \A S \in SUBSET Calls : \A c \in S : Amounts[c] \in Int
BY RequestFacts DEF Amounts

LEMMA RecordsFinite ==
  ASSUME TypeOK, Booked, NEW p \in Payments
  PROVE  RecordsOf(p) \in SUBSET Calls /\ IsFiniteSet(RecordsOf(p))
<1>1. RecordsOf(p) \in SUBSET records
  BY DEF RecordsOf
<1> QED
  BY <1>1, FS_Subset DEF Booked, TypeOK

\* A step that leaves the books alone.
LEMMA BooksUnchanged ==
  ASSUME Booked, Held, UNCHANGED <<records, refunded, wallet, others, req>>
  PROVE  Booked' /\ Held'
<1>1. Amounts' = Amounts
  BY DEF Amounts, Amount
<1>2. \A p \in Payments : RecordsOf(p)' = RecordsOf(p)
  BY DEF RecordsOf, Payment
<1> QED
  BY <1>1, <1>2 DEF Booked, Held

\* A step of c to anywhere but its commit leaves the other calls' checks valid.
LEMMA CheckedUnchanged ==
  ASSUME TypeOK, Checked, NEW c \in Calls, pc'[c] # "commit",
         \A d \in Calls : d # c => pc'[d] = pc[d],
         UNCHANGED <<refunded, wallet, req, snap>>
  PROVE  Checked'
BY DEF Checked, Positive, SnapshotValid, Fits, Amount, Payment

LEMMA AnswerAnswered ==
  ASSUME TypeOK, Answered, NEW c \in Calls, NEW what, Answer(c, what),
         UNCHANGED <<records, req>>,
         what = "success" => c \in records,
         what = "skipped" => c \notin records /\ RecordsOf(Payment(c)) # {}
  PROVE  Answered'
<1>1. \A d \in Calls : RecordsOf(Payment(d))' = RecordsOf(Payment(d))
  BY DEF RecordsOf, Payment
<1>2. /\ pc'[c] = "done" /\ answer'[c] = what
      /\ \A d \in Calls : d # c => pc'[d] = pc[d] /\ answer'[d] = answer[d]
  BY DEF Answer, TypeOK
<1> QED
  BY <1>1, <1>2 DEF Answered, AnswersAreTrue

LEMMA BlockedAnswered ==
  ASSUME TypeOK, Answered, NEW c \in Calls, Blocked(c), UNCHANGED <<records, req>>
  PROVE  Answered'
<1>1. \E what \in {"refused", "failed"} : Answer(c, what)
  BY DEF Blocked
<1> QED
  BY <1>1, AnswerAnswered

LEMMA GotoAnswered ==
  ASSUME TypeOK, Answered, NEW c \in Calls, NEW label, Goto(c, label),
         UNCHANGED <<records, req>>, pc[c] # "done", label # "done",
         label \in {"idle", "check", "begin", "commit"} => c \notin records,
         label \in {"reply", "mark"} => c \in records
  PROVE  Answered'
<1>1. \A d \in Calls : RecordsOf(Payment(d))' = RecordsOf(Payment(d))
  BY DEF RecordsOf, Payment
<1>2. /\ pc'[c] = label /\ answer' = answer
      /\ \A d \in Calls : d # c => pc'[d] = pc[d]
  BY DEF Goto, TypeOK
<1> QED
  BY <1>1, <1>2 DEF Answered, AnswersAreTrue

(***************************************************************************)
(* The invariant holds initially and is preserved.                         *)
(***************************************************************************)

LEMMA InitIInv == Init => IInv
<1> SUFFICES ASSUME Init PROVE IInv
  OBVIOUS
<1>1. TypeOK
  BY InitTypeOK
<1>2. records = {} /\ \A p \in Payments : RecordsOf(p) = {}
  BY DEF Init, RecordsOf
<1>3. Booked
  <2>1. IsFiniteSet(records)
    BY <1>2, FS_EmptySet
  <2>2. \A p \in Payments : refunded[p] = 0 /\ 0 <= Original[p]
    BY RefundConstants DEF Init
  <2> QED
    BY <1>2, <2>1, <2>2, TotalEmpty DEF Booked
<1>4. Held
  BY <1>2, TotalEmpty, RefundConstants DEF Held, Init, NewWallet
<1>5. Checked
  BY DEF Checked, Init
<1>6. Answered
  BY <1>2 DEF Answered, AnswersAreTrue, Init
<1> QED
  BY <1>1, <1>3, <1>4, <1>5, <1>6 DEF IInv

\* The commit adds c's amount to the sums it was checked against.
LEMMA CommitIInv ==
  ASSUME IInv, NEW c \in Calls, Commit(c), TypeOK'
  PROVE  IInv'
<1> USE DEF IInv
<1>0. pc[c] = "commit" /\ UNCHANGED <<others, req, snap>>
  BY DEF Commit
<1>1. CASE Blocked(c) /\ UNCHANGED <<records, refunded, wallet>>
  <2>1. pc'[c] = "done" /\ \A d \in Calls : d # c => pc'[d] = pc[d]
    BY <1>1 DEF Blocked, Answer, TypeOK
  <2>2. Booked' /\ Held'
    BY <1>0, <1>1, BooksUnchanged
  <2>3. Checked'
    BY <1>0, <1>1, <2>1, CheckedUnchanged
  <2>4. Answered'
    BY <1>0, <1>1, BlockedAnswered
  <2> QED
    BY <2>2, <2>3, <2>4
<1>2. CASE /\ SnapshotValid(c)
           /\ wallet' = [balance |-> snap[c].balance + Amount(c),
                         version |-> snap[c].version + 1]
           /\ records' = records \cup {c}
           /\ refunded' = [refunded EXCEPT ![Payment(c)] = @ + Amount(c)]
           /\ Goto(c, "reply")
  <2>1. Amount(c) \in Int /\ Payment(c) \in Payments
    BY RequestFacts
  <2> PICK q \in Payments : q = Payment(c)
    BY <2>1
  <2>2. /\ snap[c] = wallet /\ refunded[q] + Amount(c) <= Original[q]
        /\ wallet.balance + Amount(c) <= MaxBalance
    BY <1>0, <1>2 DEF Checked, Fits
  <2>3. c \notin records /\ records \in SUBSET Calls /\ IsFiniteSet(records)
    BY <1>0 DEF Answered, TypeOK, Booked
  <2>4. Amounts' = Amounts /\ Amounts[c] = Amount(c)
    BY <1>0 DEF Amounts, Amount
  <2>5. RecordsOf(q)' = RecordsOf(q) \cup {c} /\ c \notin RecordsOf(q)
    BY <1>0, <1>2, <2>3 DEF RecordsOf, Payment
  <2>6. \A p \in Payments : p # q => RecordsOf(p)' = RecordsOf(p)
    BY <1>0, <1>2 DEF RecordsOf, Payment
  <2>7. Booked'
    <3>1. Total(Amounts, RecordsOf(q) \cup {c}) = Amounts[c] + Total(Amounts, RecordsOf(q))
      <4>1. RecordsOf(q) \in SUBSET Calls /\ IsFiniteSet(RecordsOf(q))
        BY <2>1, RecordsFinite
      <4>2. \A d \in RecordsOf(q) \cup {c} : Amounts[d] \in Int
        BY <4>1, AmountsAreIntegers
      <4> QED
        BY <4>1, <4>2, <2>5, TotalAdd
    <3>2. /\ refunded'[q] = refunded[q] + Amount(c)
          /\ \A p \in Payments : p # q => refunded'[p] = refunded[p]
      BY <1>2, <2>1 DEF TypeOK
    <3>3. refunded'[q] = Total(Amounts, RecordsOf(q))' /\ refunded'[q] <= Original[q]
      <4>1. refunded[q] = Total(Amounts, RecordsOf(q)) /\ refunded[q] \in Nat
        BY <2>1 DEF Booked, TypeOK
      <4>2. Total(Amounts, RecordsOf(q))' = Amount(c) + refunded[q]
        BY <2>4, <2>5, <3>1, <4>1
      <4> QED
        BY <2>1, <2>2, <3>2, <4>1, <4>2
    <3>4. \A p \in Payments : p # q =>
            refunded'[p] = Total(Amounts, RecordsOf(p))' /\ refunded'[p] <= Original[p]
      BY <2>4, <2>6, <3>2 DEF Booked
    <3>5. IsFiniteSet(records)'
      BY <1>2, <2>3, FS_AddElement
    <3> QED
      BY <3>3, <3>4, <3>5 DEF Booked
  <2>8. Held'
    <3>1. \A d \in records \cup {c} : Amounts[d] \in Int
      BY <2>3, AmountsAreIntegers
    <3>2. Total(Amounts, records \cup {c}) = Amounts[c] + Total(Amounts, records)
      BY <2>3, <3>1, TotalAdd
    <3>3. Total(Amounts, records)' = Amount(c) + Total(Amounts, records)
      BY <1>2, <2>4, <3>2
    <3>4. Total(Amounts, records) \in Int
      BY <2>3, <3>1, TotalType
    <3>5. wallet'.balance = wallet.balance + Amount(c)
      BY <1>2, <2>2
    <3>6. others \in Int /\ wallet.balance \in Int /\ others' = others
      BY <1>0, RefundConstants DEF TypeOK, Rows
    <3> QED
      BY <2>1, <2>2, <3>3, <3>4, <3>5, <3>6 DEF Held
  <2>9. Checked'
    <3> SUFFICES ASSUME NEW d \in Calls, pc'[d] = "commit"
                 PROVE  /\ Positive(d)'
                        /\ snap'[d].version <= wallet'.version
                        /\ ~ SnapshotValid(d)'
      BY DEF Checked
    <3>1. d # c /\ pc[d] = "commit"
      BY <1>2 DEF Goto, TypeOK
    <3>2. Positive(d)' /\ snap'[d] = snap[d]
      BY <1>0, <3>1 DEF Checked, Positive, Amount
    <3>3. wallet'.version = wallet.version + 1
      BY <1>2, <2>2
    <3>4. snap[d].version <= wallet.version /\ wallet.version \in Nat /\ snap[d].version \in Nat
      BY <3>1 DEF Checked, TypeOK, Rows
    <3> QED
      BY <3>2, <3>3, <3>4 DEF SnapshotValid
  <2>10. Answered'
    <3>1. /\ pc'[c] = "reply" /\ answer' = answer
          /\ \A d \in Calls : d # c => pc'[d] = pc[d]
      BY <1>2 DEF Goto, TypeOK
    <3>2. answer[c] = "none"
      BY <1>0 DEF Answered
    <3>3. ASSUME NEW d \in Calls PROVE RecordsOf(Payment(d)) \subseteq RecordsOf(Payment(d))'
      BY <1>0, <1>2 DEF RecordsOf, Payment
    <3>4. c \in records' /\ \A d \in Calls : d # c => (d \in records' <=> d \in records)
      BY <1>2
    <3> QED
      BY <3>1, <3>2, <3>3, <3>4 DEF Answered, AnswersAreTrue
  <2> QED
    BY <2>7, <2>8, <2>9, <2>10
<1> QED
  BY <1>1, <1>2 DEF Commit

LEMMA StepIInv == IInv /\ [Next]_vars => IInv'
<1> SUFFICES ASSUME IInv, [Next]_vars PROVE IInv'
  OBVIOUS
<1> USE DEF IInv
<1>0. TypeOK'
  BY StepTypeOK
<1>1. ASSUME NEW c \in Calls, Receive(c) PROVE IInv'
  <2>1. pc[c] = "idle" /\ UNCHANGED <<records, refunded, wallet, others, req, snap>>
    BY <1>1 DEF Receive
  <2>2. Blocked(c) \/ Goto(c, "check")
    BY <1>1 DEF Receive
  <2>3. pc'[c] # "commit" /\ \A d \in Calls : d # c => pc'[d] = pc[d]
    BY <2>2 DEF Blocked, Answer, Goto, TypeOK
  <2>4. Answered'
    BY <2>1, <2>2, BlockedAnswered, GotoAnswered DEF Answered
  <2> QED
    BY <1>0, <2>1, <2>3, <2>4, BooksUnchanged, CheckedUnchanged
<1>2. ASSUME NEW c \in Calls, Check(c) PROVE IInv'
  <2>1. pc[c] = "check" /\ UNCHANGED <<records, refunded, wallet, others, req, snap>>
    BY <1>2 DEF Check
  <2>2. \/ Blocked(c) \/ Goto(c, "begin")
        \/ Answer(c, "skipped") /\ RecordsOf(Payment(c)) # {}
    BY <1>2 DEF Check
  <2>3. pc'[c] # "commit" /\ \A d \in Calls : d # c => pc'[d] = pc[d]
    BY <2>2 DEF Blocked, Answer, Goto, TypeOK
  <2>4. c \notin records
    BY <2>1 DEF Answered
  <2>5. Answered'
    BY <2>1, <2>2, <2>4, BlockedAnswered, GotoAnswered, AnswerAnswered
  <2> QED
    BY <1>0, <2>1, <2>3, <2>5, BooksUnchanged, CheckedUnchanged
<1>3. ASSUME NEW c \in Calls, Begin(c) PROVE IInv'
  <2>1. pc[c] = "begin" /\ UNCHANGED <<records, refunded, wallet, others, req>>
    BY <1>3 DEF Begin
  <2>2. c \notin records
    BY <2>1 DEF Answered
  <2>3. CASE Blocked(c) /\ UNCHANGED snap
    <3>1. pc'[c] # "commit" /\ \A d \in Calls : d # c => pc'[d] = pc[d]
      BY <2>3 DEF Blocked, Answer, TypeOK
    <3> QED
      BY <1>0, <2>1, <2>3, <3>1, BooksUnchanged, CheckedUnchanged, BlockedAnswered
  <2>4. CASE /\ Positive(c) /\ Refundable(c) /\ wallet.balance + Amount(c) <= MaxBalance
             /\ Goto(c, "commit") /\ snap' = [snap EXCEPT ![c] = wallet]
    <3>1. Answered'
      BY <2>1, <2>2, <2>4, GotoAnswered
    <3>2. Checked'
      <4> SUFFICES ASSUME NEW d \in Calls, pc'[d] = "commit"
                   PROVE  /\ Positive(d)'
                          /\ snap'[d].version <= wallet'.version
                          /\ SnapshotValid(d)' =>
                               /\ snap'[d] = wallet'
                               /\ Fits(d)'
                               /\ wallet'.balance + Amount(d)' <= MaxBalance
        BY DEF Checked
      <4>1. CASE d = c
        <5>1. snap'[c] = wallet /\ wallet.version \in Nat
          BY <2>4 DEF TypeOK, Rows
        <5> QED
          BY <2>1, <2>4, <4>1, <5>1 DEF Positive, Refundable, Fits, Amount, Payment
      <4>2. CASE d # c
        <5>1. pc[d] = "commit" /\ snap'[d] = snap[d]
          BY <2>4, <4>2 DEF Goto, TypeOK
        <5> QED
          BY <2>1, <5>1 DEF Checked, Positive, SnapshotValid, Fits, Amount, Payment
      <4> QED
        BY <4>1, <4>2
    <3> QED
      BY <1>0, <2>1, <3>1, <3>2, BooksUnchanged
  <2> QED
    BY <1>3, <2>3, <2>4 DEF Begin
<1>4. ASSUME NEW c \in Calls, Commit(c) PROVE IInv'
  BY <1>0, <1>4, CommitIInv
<1>5. ASSUME NEW c \in Calls, Reply(c) PROVE IInv'
  <2>1. pc[c] = "reply" /\ UNCHANGED <<records, refunded, wallet, others, req, snap>>
    BY <1>5 DEF Reply
  <2>2. Answer(c, "success") \/ Goto(c, "mark") \/ Blocked(c)
    BY <1>5 DEF Reply
  <2>3. pc'[c] # "commit" /\ \A d \in Calls : d # c => pc'[d] = pc[d]
    BY <2>2 DEF Blocked, Answer, Goto, TypeOK
  <2>4. c \in records
    BY <2>1 DEF Answered
  <2>5. Answered'
    BY <2>1, <2>2, <2>4, BlockedAnswered, GotoAnswered, AnswerAnswered
  <2> QED
    BY <1>0, <2>1, <2>3, <2>5, BooksUnchanged, CheckedUnchanged
<1>6. ASSUME NEW c \in Calls, Mark(c) PROVE IInv'
  <2>1. pc[c] = "mark" /\ UNCHANGED <<records, refunded, wallet, others, req, snap>>
    BY <1>6 DEF Mark
  <2>2. Answer(c, "success") /\ c \in records
    BY <1>6, <2>1 DEF Mark, Answered
  <2>3. pc'[c] # "commit" /\ \A d \in Calls : d # c => pc'[d] = pc[d]
    BY <2>2 DEF Answer, TypeOK
  <2>4. Answered'
    BY <2>1, <2>2, AnswerAnswered
  <2> QED
    BY <1>0, <2>1, <2>3, <2>4, BooksUnchanged, CheckedUnchanged
<1>7. ASSUME NEW c \in Calls, Crash(c) PROVE IInv'
  <2>1. UNCHANGED <<records, refunded, wallet, others, req, snap>>
    BY <1>7 DEF Crash
  <2>2. Answer(c, "none")
    BY <1>7 DEF Crash
  <2>3. pc'[c] # "commit" /\ \A d \in Calls : d # c => pc'[d] = pc[d]
    BY <2>2 DEF Answer, TypeOK
  <2>4. Answered'
    BY <2>1, <2>2, AnswerAnswered
  <2> QED
    BY <1>0, <2>1, <2>3, <2>4, BooksUnchanged, CheckedUnchanged
<1>8. CASE OtherCredit
  <2>1. /\ UNCHANGED <<records, refunded, pc, req, snap, answer>>
        /\ wallet.balance < MaxBalance /\ others' = others + 1
        /\ wallet' = [balance |-> wallet.balance + 1, version |-> wallet.version + 1]
    BY <1>8 DEF OtherCredit
  <2>2. Amounts' = Amounts /\ \A p \in Payments : RecordsOf(p)' = RecordsOf(p)
    BY <2>1 DEF Amounts, Amount, RecordsOf, Payment
  <2>3. Booked'
    BY <2>1, <2>2 DEF Booked
  <2>4. Held'
    <3>1. Total(Amounts, records) \in Int
      BY AmountsAreIntegers, TotalType DEF Booked, TypeOK
    <3>2. Total(Amounts, records)' = Total(Amounts, records)
      BY <2>1, <2>2
    <3>3. wallet.balance \in Nat /\ others \in Nat /\ MaxBalance \in Nat
      BY RefundConstants DEF TypeOK, Rows
    <3> QED
      BY <2>1, <3>1, <3>2, <3>3 DEF Held
  <2>5. Checked'
    <3>1. \A d \in Calls : snap[d].version \in Nat /\ wallet.version \in Nat
      BY DEF TypeOK, Rows
    <3> QED
      BY <2>1, <3>1 DEF Checked, Positive, SnapshotValid, Amount
  <2>6. Answered'
    <3>1. \A d \in Calls : RecordsOf(Payment(d))' = RecordsOf(Payment(d))
      BY <2>1 DEF RecordsOf, Payment
    <3> QED
      BY <2>1, <3>1 DEF Answered, AnswersAreTrue
  <2> QED
    BY <1>0, <2>3, <2>4, <2>5, <2>6
<1>9. CASE UNCHANGED vars
  <2>1. UNCHANGED <<records, refunded, wallet, others, req, snap, pc, answer>>
    BY <1>9 DEF vars
  <2>2. Checked'
    BY <2>1 DEF Checked, Positive, SnapshotValid, Fits, Amount, Payment
  <2>3. \A d \in Calls : RecordsOf(Payment(d))' = RecordsOf(Payment(d))
    BY <2>1 DEF RecordsOf, Payment
  <2>4. Answered'
    BY <2>1, <2>3 DEF Answered, AnswersAreTrue
  <2> QED
    BY <1>0, <2>1, <2>2, <2>4, BooksUnchanged
<1> QED
  BY <1>1, <1>2, <1>3, <1>4, <1>5, <1>6, <1>7, <1>8, <1>9 DEF Next

\* The sums the module is about are these totals.
LEMMA SumIsTotal ==
  ASSUME TypeOK, NEW S \in SUBSET Calls, IsFiniteSet(S)
  PROVE  Sum(S) = Total(Amounts, S)
<1> DEFINE Step(f) == [s \in SUBSET S |->
                         IF s = {} THEN 0
                         ELSE LET x == CHOOSE x \in s : TRUE
                              IN Amount(x) + f[s \ {x}]]
           iter == CHOOSE f : f = Step(f)
<1>1. Sum(S) = iter[S]
  BY DEF Sum, MapThenSumSet, MapThenFoldSet
<1>2. ASSUME NEW f PROVE (f = Step(f)) <=> Recursion(Amounts, f, S)
  <2>1. \A s \in SUBSET S : s # {} =>
          Amounts[CHOOSE x \in s : TRUE] = Amount(CHOOSE x \in s : TRUE)
    BY DEF Amounts
  <2> QED
    BY <2>1 DEF Recursion
<1>3. \E f : f = Step(f)
  BY <1>2, AmountsAreIntegers, RecursionExists
<1>4. iter = Step(iter)
  BY <1>3
<1>5. Recursion(Amounts, iter, S)
  BY <1>2, <1>4
<1> HIDE DEF iter
<1> QED
  BY <1>1, <1>5, AmountsAreIntegers, RecursionTotal

(***************************************************************************)
(* The theorems.                                                           *)
(***************************************************************************)

LEMMA Invariance == Spec => []IInv
BY InitIInv, StepIInv, PTL DEF Spec

\* Type correctness: sums and balances stay natural numbers, whatever is requested.
THEOREM TypeCorrect == Spec => []TypeOK
<1>1. IInv => TypeOK
  BY DEF IInv
<1> QED
  BY <1>1, Invariance, PTL

\* No interleaving of refund requests, redelivered events, failures and crashes
\* gives back more than was paid.
THEOREM RefundSafety == Spec => []NoOverRefund
<1>1. IInv => NoOverRefund
  BY SumIsTotal, RecordsFinite DEF IInv, Booked, NoOverRefund
<1> QED
  BY <1>1, Invariance, PTL

\* The wallet holds exactly the refunds on record and the credits of others.
THEOREM WalletSafety == Spec => []WalletHoldsRefunds
<1>1. IInv => WalletHoldsRefunds
  <2> SUFFICES ASSUME IInv PROVE WalletHoldsRefunds
    OBVIOUS
  <2>1. Sum(records) = Total(Amounts, records)
    BY SumIsTotal DEF IInv, Booked, TypeOK
  <2>2. \A p \in Payments : Sum(RecordsOf(p)) = Total(Amounts, RecordsOf(p))
    BY SumIsTotal, RecordsFinite DEF IInv
  <2> QED
    BY <2>1, <2>2 DEF IInv, Booked, Held, WalletHoldsRefunds
<1> QED
  BY <1>1, Invariance, PTL

\* A caller told "success" or "skipped" is told the truth.
THEOREM AnswerSafety == Spec => []AnswersAreTrue
<1>1. IInv => AnswersAreTrue
  BY DEF IInv, Answered
<1> QED
  BY <1>1, Invariance, PTL

(***************************************************************************)
(* What is left of the router's claim.  Its header says that a payment     *)
(* becomes 'refunded' when it has been refunded in full; the code marks it *)
(* after any reported refund.  The claim holds exactly as far as gateways  *)
(* report full refunds only.                                               *)
(***************************************************************************)

FullEvents == \A r \in Requests : r.kind = "webhook" => r.amount = Original[r.payment]

\* A reported refund on record leaves nothing of its payment.
FullInv ==
  /\ \A c \in records : Kind(c) = "webhook" => refunded[Payment(c)] = Original[Payment(c)]
  /\ \A c \in Calls : pc[c] = "mark" => Kind(c) = "webhook"
  /\ \A p \in Payments : status[p] = "refunded" => refunded[p] = Original[p]

LEMMA StepFullInv ==
  ASSUME FullEvents, IInv, FullInv, [Next]_vars
  PROVE  FullInv'
<1> USE DEF IInv
<1>0. Booked'
  BY StepIInv
\* A step that books nothing, and marks only what a booked event is about.
<1>1. ASSUME UNCHANGED <<records, refunded, req>>,
             \A c \in Calls : pc'[c] = "mark" => pc[c] = "mark" \/ Kind(c) = "webhook",
             \A p \in Payments : status'[p] = "refunded" =>
               \/ status[p] = "refunded"
               \/ \E c \in records : Kind(c) = "webhook" /\ p = Payment(c)
      PROVE  FullInv'
  BY <1>1 DEF FullInv, Kind, Payment
<1>a. ASSUME NEW c \in Calls, NEW what, Answer(c, what)
      PROVE  \A d \in Calls : pc'[d] = "mark" => pc[d] = "mark"
  BY <1>a DEF Answer, TypeOK
<1>b. ASSUME NEW c \in Calls, NEW label, Goto(c, label)
      PROVE  pc'[c] = label /\ \A d \in Calls : d # c => pc'[d] = pc[d]
  BY <1>b DEF Goto, TypeOK
<1>c. ASSUME NEW c \in Calls, Blocked(c)
      PROVE  \A d \in Calls : pc'[d] = "mark" => pc[d] = "mark"
  BY <1>a, <1>c DEF Blocked
<1>2. ASSUME NEW c \in Calls, Receive(c) PROVE FullInv'
  BY <1>1, <1>2, <1>b, <1>c DEF Receive
<1>3. ASSUME NEW c \in Calls, Check(c) PROVE FullInv'
  BY <1>1, <1>3, <1>a, <1>b, <1>c DEF Check
<1>4. ASSUME NEW c \in Calls, Begin(c) PROVE FullInv'
  BY <1>1, <1>4, <1>b, <1>c DEF Begin
<1>5. ASSUME NEW c \in Calls, Commit(c) PROVE FullInv'
  <2>1. CASE Blocked(c) /\ UNCHANGED <<records, refunded, wallet>>
    BY <1>1, <1>5, <1>c, <2>1 DEF Commit
  <2>2. CASE /\ SnapshotValid(c)
             /\ records' = records \cup {c}
             /\ refunded' = [refunded EXCEPT ![Payment(c)] = @ + Amount(c)]
             /\ Goto(c, "reply")
    <3>1. PICK q \in Payments : q = Payment(c)
      BY RequestFacts
    <3>2. /\ Amount(c) \in Int /\ Amount(c) > 0
          /\ refunded[q] + Amount(c) <= Original[q]
          /\ UNCHANGED <<status, req>>
      BY <1>5, <2>2, <3>1, RequestFacts DEF Commit, Checked, Positive, Fits
    <3>3. refunded[q] \in Nat /\ Original[q] \in Nat
      BY RefundConstants DEF TypeOK
    <3>4. /\ refunded'[q] = refunded[q] + Amount(c)
          /\ \A p \in Payments \ {q} : refunded'[p] = refunded[p]
      BY <2>2, <3>1 DEF TypeOK
    \* What is refunded in full cannot be refunded any further.
    <3>5. refunded[q] # Original[q]
      BY <3>2, <3>3
    <3>6. Kind(c) = "webhook" => refunded'[q] = Original[q]
      <4>1. Kind(c) = "webhook" => Amount(c) = Original[q]
        BY <3>1 DEF FullEvents, TypeOK, Kind, Amount, Payment
      <4> QED
        BY <3>2, <3>3, <3>4, <4>1
    <3>7. ASSUME NEW d \in records', Kind(d) = "webhook"
          PROVE  refunded'[Payment(d)] = Original[Payment(d)]
      <4>0. d \in Calls /\ Payment(d) \in Payments
        BY <2>2, <3>7, RequestFacts DEF TypeOK
      <4>1. CASE d = c
        BY <3>1, <3>6, <3>7, <4>1
      <4>2. CASE d # c
        <5>1. refunded[Payment(d)] = Original[Payment(d)]
          BY <2>2, <3>7, <4>2 DEF FullInv
        <5> QED
          BY <3>4, <3>5, <4>0, <5>1
      <4> QED
        BY <4>1, <4>2
    <3>8. \A p \in Payments : status'[p] = "refunded" => refunded'[p] = Original[p]
      BY <3>2, <3>4, <3>5 DEF FullInv
    <3>9. \A d \in Calls : pc'[d] = "mark" => Kind(d) = "webhook"
      BY <1>b, <2>2 DEF FullInv
    <3> QED
      BY <3>2, <3>7, <3>8, <3>9 DEF FullInv, Kind, Payment
  <2> QED
    BY <1>5, <2>1, <2>2 DEF Commit
<1>6. ASSUME NEW c \in Calls, Reply(c) PROVE FullInv'
  BY <1>1, <1>6, <1>a, <1>b, <1>c DEF Reply
<1>7. ASSUME NEW c \in Calls, Mark(c) PROVE FullInv'
  <2>1. c \in records /\ Kind(c) = "webhook"
    BY <1>7 DEF Mark, Answered, FullInv
  <2>2. \A p \in Payments : status'[p] = "refunded" => status[p] = "refunded" \/ p = Payment(c)
    BY <1>7 DEF Mark, TypeOK
  <2> QED
    BY <1>1, <1>7, <1>a, <2>1, <2>2 DEF Mark
<1>8. ASSUME NEW c \in Calls, Crash(c) PROVE FullInv'
  BY <1>1, <1>8, <1>a DEF Crash
<1>9. CASE OtherCredit
  BY <1>1, <1>9 DEF OtherCredit
<1>10. CASE UNCHANGED vars
  BY <1>1, <1>10 DEF vars
<1> QED
  BY <1>2, <1>3, <1>4, <1>5, <1>6, <1>7, <1>8, <1>9, <1>10 DEF Next

\* RefundWebhookRouter: where gateways report full refunds only, a payment marked
\* 'refunded' has given everything back, whatever else was requested meanwhile.
THEOREM FullRefundsMarkTruly == FullEvents => (Spec => []RefundedOnlyInFull)
<1> SUFFICES ASSUME FullEvents PROVE Spec => []RefundedOnlyInFull
  OBVIOUS
<1>1. Init => FullInv
  BY DEF Init, FullInv
<1>2. IInv /\ FullInv /\ [Next]_vars => FullInv'
  BY StepFullInv
<1>3. IInv /\ FullInv => RefundedOnlyInFull
  BY SumIsTotal, RecordsFinite DEF IInv, Booked, FullInv, RefundedOnlyInFull
<1> QED
  BY <1>1, <1>2, <1>3, Invariance, PTL DEF Spec

(***************************************************************************)
(* Refinement.                                                             *)
(***************************************************************************)

LEMMA InitRefines == Init => Atomic!Init
BY DEF Init, NewWallet, Refunded, Atomic!Init

\* A call that ends without marking anything answers in the abstract engine, if at all.
LEMMA AnswerRefines ==
  ASSUME IInv, NEW c \in Calls, pc[c] # "done", NEW what, Answer(c, what),
         UNCHANGED <<status, records, refunded, wallet, req>>,
         \/ what = "none"
         \/ what = "success" /\ c \in records
         \/ what = "skipped" /\ Kind(c) = "webhook" /\ c \notin records
                             /\ RecordsOf(Payment(c)) # {}
         \/ what = IF Kind(c) = "api" THEN "refused" ELSE "failed"
  PROVE  [Atomic!Next]_Atomic!vars
<1>1. UNCHANGED <<records, refunded, wallet.balance, Refunded, req>>
  BY DEF Refunded
<1>2. answer[c] = "none" /\ answer' = [answer EXCEPT ![c] = what]
  BY DEF IInv, Answered, Answer
<1>3. CASE what = "none"
  <2>1. answer' = answer
    BY <1>2, <1>3 DEF IInv, TypeOK
  <2> QED
    BY <1>1, <2>1 DEF Atomic!vars
<1>4. CASE what # "none"
  <2>1. Atomic!Answer(c, what)
    BY <1>1, <1>2, <1>4 DEF Atomic!Answer
  <2>2. CASE what = "success" /\ c \in records
    BY <1>1, <2>1, <2>2 DEF Atomic!Succeed, Atomic!Next
  <2>3. CASE what = "skipped" /\ Kind(c) = "webhook" /\ c \notin records
             /\ RecordsOf(Payment(c)) # {}
    <3>1. \E d \in records : req[d].payment = req[c].payment
      BY <2>3 DEF RecordsOf, Payment
    <3> QED
      BY <1>1, <2>1, <2>3, <3>1 DEF Atomic!Skip, Atomic!Next, Kind
  <2>4. CASE what = IF Kind(c) = "api" THEN "refused" ELSE "failed"
    BY <1>1, <2>1, <2>4 DEF Atomic!GiveUp, Atomic!Next, Kind
  <2> QED
    BY <1>4, <2>2, <2>3, <2>4
<1> QED
  BY <1>3, <1>4

\* A call that goes on is not to be seen.
LEMMA GotoRefines ==
  ASSUME NEW c \in Calls, NEW label, Goto(c, label),
         UNCHANGED <<status, records, refunded, wallet, req>>
  PROVE  [Atomic!Next]_Atomic!vars
BY DEF Goto, Refunded, Atomic!vars

LEMMA BlockedRefines ==
  ASSUME IInv, NEW c \in Calls, pc[c] # "done", Blocked(c),
         UNCHANGED <<status, records, refunded, wallet, req>>
  PROVE  [Atomic!Next]_Atomic!vars
BY AnswerRefines DEF Blocked

\* A commit that its snapshot allows gives the money back on the state as it stands.
LEMMA CommitRefines ==
  ASSUME IInv, NEW c \in Calls, Commit(c)
  PROVE  [Atomic!Next]_Atomic!vars
<1>1. pc[c] = "commit" /\ UNCHANGED <<status, others, req, snap>>
  BY DEF Commit
<1>2. CASE Blocked(c) /\ UNCHANGED <<records, refunded, wallet>>
  BY <1>1, <1>2, BlockedRefines
<1>3. CASE /\ SnapshotValid(c)
           /\ wallet' = [balance |-> snap[c].balance + Amount(c),
                         version |-> snap[c].version + 1]
           /\ records' = records \cup {c}
           /\ refunded' = [refunded EXCEPT ![Payment(c)] = @ + Amount(c)]
           /\ Goto(c, "reply")
  <2>1. /\ Amount(c) > 0 /\ snap[c] = wallet
        /\ refunded[Payment(c)] + Amount(c) <= Original[Payment(c)]
        /\ wallet.balance + Amount(c) <= MaxBalance
    BY <1>1, <1>3 DEF IInv, Checked, Positive, Fits
  <2>2. answer[c] = "none" /\ c \notin records /\ answer' = answer
    BY <1>1, <1>3 DEF IInv, Answered, Goto
  <2>3. wallet'.balance = wallet.balance + Amount(c)
    BY <1>3, <2>1
  <2>4. Refunded' = Refunded
    BY <1>1 DEF Refunded
  <2>5. Atomic!Give(c)
    BY <1>1, <1>3, <2>1, <2>2, <2>3, <2>4 DEF Atomic!Give, Amount, Payment
  <2> QED
    BY <2>5 DEF Atomic!Next
<1> QED
  BY <1>2, <1>3 DEF Commit

LEMMA MarkRefines ==
  ASSUME IInv, NEW c \in Calls, Kind(c) = "webhook", Mark(c)
  PROVE  [Atomic!Next]_Atomic!vars
<1>1. /\ pc[c] = "mark" /\ c \in records /\ Answer(c, "success")
      /\ UNCHANGED <<records, refunded, wallet, req>>
  BY DEF Mark, IInv, Answered
<1>2. CASE UNCHANGED status
  BY <1>1, <1>2, AnswerRefines
<1>3. CASE status' = [status EXCEPT ![Payment(c)] = "refunded"]
  <2>1. Payment(c) \in Payments
    BY RequestFacts DEF IInv
  <2>2. Refunded' = Refunded \cup {Payment(c)}
    BY <1>3, <2>1 DEF Refunded, IInv, TypeOK
  <2>3. Atomic!Answer(c, "success")
    BY <1>1 DEF IInv, Answered, Answer, Atomic!Answer
  <2>4. Atomic!Succeed(c)
    BY <1>1, <2>2, <2>3 DEF Atomic!Succeed, Kind, Payment
  <2> QED
    BY <2>4 DEF Atomic!Next
<1> QED
  BY <1>2, <1>3 DEF Mark

\* Only events come to mark their payment.
EventsMark == \A c \in Calls : pc[c] = "mark" => Kind(c) = "webhook"

LEMMA StepEventsMark == TypeOK /\ EventsMark /\ [Next]_vars => EventsMark'
<1> SUFFICES ASSUME TypeOK, EventsMark, [Next]_vars PROVE EventsMark'
  OBVIOUS
<1>1. req' = req
  BY DEF Next, vars, Receive, Check, Begin, Commit, Reply, Mark, Crash, OtherCredit
<1>2. ASSUME NEW d \in Calls, pc'[d] = "mark" PROVE pc[d] = "mark" \/ Kind(d) = "webhook"
  BY <1>2 DEF Next, vars, Receive, Check, Begin, Commit, Reply, Mark, Crash, OtherCredit,
              Goto, Blocked, Answer, TypeOK
<1> QED
  BY <1>1, <1>2 DEF EventsMark, Kind

LEMMA StepRefines == IInv /\ EventsMark /\ [Next]_vars => [Atomic!Next]_Atomic!vars
<1> SUFFICES ASSUME IInv, EventsMark, [Next]_vars PROVE [Atomic!Next]_Atomic!vars
  OBVIOUS
<1>1. ASSUME NEW c \in Calls, Receive(c) PROVE [Atomic!Next]_Atomic!vars
  BY <1>1, GotoRefines, BlockedRefines DEF Receive
<1>2. ASSUME NEW c \in Calls, Check(c) PROVE [Atomic!Next]_Atomic!vars
  <2>1. /\ pc[c] = "check" /\ c \notin records
        /\ UNCHANGED <<status, records, refunded, wallet, req>>
    BY <1>2 DEF Check, IInv, Answered
  <2>2. \/ Goto(c, "begin") \/ Blocked(c)
        \/ Kind(c) = "webhook" /\ RecordsOf(Payment(c)) # {} /\ Answer(c, "skipped")
    BY <1>2 DEF Check
  <2> QED
    BY <2>1, <2>2, GotoRefines, BlockedRefines, AnswerRefines
<1>3. ASSUME NEW c \in Calls, Begin(c) PROVE [Atomic!Next]_Atomic!vars
  BY <1>3, GotoRefines, BlockedRefines DEF Begin
<1>4. ASSUME NEW c \in Calls, Commit(c) PROVE [Atomic!Next]_Atomic!vars
  BY <1>4, CommitRefines
<1>5. ASSUME NEW c \in Calls, Reply(c) PROVE [Atomic!Next]_Atomic!vars
  <2>1. /\ pc[c] = "reply" /\ c \in records
        /\ UNCHANGED <<status, records, refunded, wallet, req>>
    BY <1>5 DEF Reply, IInv, Answered
  <2>2. Answer(c, "success") \/ Goto(c, "mark") \/ Blocked(c)
    BY <1>5 DEF Reply
  <2> QED
    BY <2>1, <2>2, GotoRefines, BlockedRefines, AnswerRefines
<1>6. ASSUME NEW c \in Calls, Mark(c) PROVE [Atomic!Next]_Atomic!vars
  BY <1>6, MarkRefines DEF EventsMark, Mark
<1>7. ASSUME NEW c \in Calls, Crash(c) PROVE [Atomic!Next]_Atomic!vars
  BY <1>7, AnswerRefines DEF Crash
<1>8. CASE OtherCredit
  <2>1. Refunded' = Refunded
    BY <1>8 DEF OtherCredit, Refunded
  <2>2. Atomic!Deposit
    BY <1>8, <2>1 DEF OtherCredit, Atomic!Deposit
  <2> QED
    BY <2>2 DEF Atomic!Next
<1>9. CASE UNCHANGED vars
  BY <1>9 DEF vars, Atomic!vars, Refunded
<1> QED
  BY <1>1, <1>2, <1>3, <1>4, <1>5, <1>6, <1>7, <1>8, <1>9 DEF Next

\* Requests and events, with their checks outside the transaction, their stale
\* snapshots, lost replies and crashes, do nothing AtomicRefunds does not allow.
THEOREM Refinement == Spec => RefinesAtomicRefunds
<1>1. Init => EventsMark
  BY DEF Init, EventsMark
<1>2. IInv => TypeOK
  BY DEF IInv
<1> QED
  BY <1>1, <1>2, InitRefines, StepEventsMark, StepRefines, Invariance, PTL
     DEF Spec, RefinesAtomicRefunds, Atomic!Spec
=============================================================================
