----------------------------- MODULE MailQueue -----------------------------
(***************************************************************************)
(* What the outbox promises of a mail once it is asked for, with neither a *)
(* poller nor its batches, slices and back-offs: it is asked for once by a *)
(* call, goes out again only after its last copy went unnoted, ends as     *)
(* sent only when a copy went out and was noted (or there is no mail       *)
(* server), ends as given up only after MaxRetries + 1 failed attempts,    *)
(* and whatever ended is never touched again.  It promises nothing of the  *)
(* kind to alerts: none ever leaves the queue.  NotificationOutbox         *)
(* implements this specification.                                          *)
(***************************************************************************)
EXTENDS Integers, Sequences

CONSTANTS Calls, Asks, MaxRetries,
          Jobs      \* the places of the queue

VARIABLES queue,    \* the mails asked for, in order, each with its call
          fate,     \* fate[j]: "PENDING", "SENT" or "FAILED"
          mail,     \* mail[c]: what call c is about
          smtp,     \* there is a mail server
          out,      \* out[j]: how often the mail server took mail j
          unnoted,  \* unnoted[j]: how often that was not noted
          failed    \* failed[j]: how many attempts counted as failed

vars == <<queue, fate, mail, smtp, out, unnoted, failed>>

Init ==
  /\ queue = << >> /\ fate = << >>
  /\ \A c \in Calls : mail[c] \in Asks[c]
  /\ smtp \in BOOLEAN
  /\ out = [j \in Jobs |-> 0] /\ unnoted = out /\ failed = out

Ask(c) ==
  /\ \A j \in DOMAIN queue : queue[j].by # c
  /\ queue' = Append(queue, [mail |-> mail[c], by |-> c])
  /\ fate' = Append(fate, "PENDING")
  /\ UNCHANGED <<mail, smtp, out, unnoted, failed>>

\* Mail j is waiting, and no copy of it is on its way to being noted.
Waiting(j) == j \in DOMAIN queue /\ fate[j] = "PENDING" /\ queue[j].mail.kind = "invoice"
OnItsWay(j) == Waiting(j) /\ out[j] = unnoted[j] + 1
Here(j) == Waiting(j) /\ out[j] = unnoted[j]

GoesOut(j) ==
  /\ Here(j) /\ smtp
  /\ out' = [out EXCEPT ![j] = @ + 1]
  /\ UNCHANGED <<queue, fate, mail, smtp, unnoted, failed>>

\* The copy went out, but the attempt counts as failed.
GoesOutUnnoted(j) ==
  /\ Here(j) /\ smtp
  /\ out' = [out EXCEPT ![j] = @ + 1]
  /\ unnoted' = [unnoted EXCEPT ![j] = @ + 1]
  /\ failed' = [failed EXCEPT ![j] = @ + 1]
  /\ UNCHANGED <<queue, fate, mail, smtp>>

Fails(j) ==
  /\ Here(j) /\ smtp
  /\ failed' = [failed EXCEPT ![j] = @ + 1]
  /\ UNCHANGED <<queue, fate, mail, smtp, out, unnoted>>

NotNoted(j) ==
  /\ OnItsWay(j)
  /\ unnoted' = [unnoted EXCEPT ![j] = @ + 1]
  /\ failed' = [failed EXCEPT ![j] = @ + 1]
  /\ UNCHANGED <<queue, fate, mail, smtp, out>>

\* Everybody who could have noted what is on its way is gone.
Forget ==
  /\ \E S \in SUBSET {j \in Jobs : OnItsWay(j)} :
       unnoted' = [j \in Jobs |-> IF j \in S THEN unnoted[j] + 1 ELSE unnoted[j]]
  /\ UNCHANGED <<queue, fate, mail, smtp, out, failed>>

End(j, how) ==
  /\ fate' = [fate EXCEPT ![j] = how]
  /\ UNCHANGED <<queue, mail, smtp, out, unnoted, failed>>

Noted(j) == Waiting(j) /\ (smtp => OnItsWay(j)) /\ End(j, "SENT")

GivenUp(j) == Here(j) /\ failed[j] > MaxRetries /\ End(j, "FAILED")

Next ==
  \/ \E c \in Calls : Ask(c)
  \/ Forget
  \/ \E j \in Jobs : \/ GoesOut(j) \/ GoesOutUnnoted(j) \/ Fails(j) \/ NotNoted(j)
                     \/ Noted(j) \/ GivenUp(j)

Spec == Init /\ [][Next]_vars
=============================================================================
