------------------------ MODULE MCConnectionHealth ------------------------
(***************************************************************************)
(* ConnectionHealth for TLC: three calls.  The first verifies or runs      *)
(* diagnostics, the second also changes what the health rules read, the    *)
(* third asks for every operation there is.                                *)
(***************************************************************************)
EXTENDS ConnectionHealth

CONSTANTS c1, c2, c3

Ask(op) == [AnyRequest EXCEPT !.op = op]
T(i, r, k) == [immediate |-> i, repeated |-> r, cooldown |-> k]

\* A partial update, one whose escalation threshold is below the alert's, invalid numbers
\* only, and none at all.
ThresholdAsks ==
  {[Ask("thresholds") EXCEPT !.thresholds = t] :
     t \in {T(-1, -1, 1), T(3, 1, 1), T(0, 0, -2), NoThresholds}}

\* A client's config with a failure in its history and thresholds nobody has resolved.
Brought == [NoPlatform EXCEPT
  !.thresholds = T(3, 1, -1), !.until = 1,
  !.timeline = <<[type |-> "verification", status |-> "needs-setup", at |-> 0,
                  by |-> NoCall]>>]

Suppress == [Ask("suppress") EXCEPT !.minutes = 1]
HealthAsks == {Ask("verify"), Suppress} \cup ThresholdAsks

AllAsks ==
  {Ask(op) : op \in Ops} \cup {Suppress}
  \cup {[Ask("create") EXCEPT !.setup = Checks],
        [Ask("create") EXCEPT !.platform = Brought],
        [Ask("draft") EXCEPT !.setup = {"mapping", "sync-policy"}]}

MCAsks == [c \in Calls |-> CASE c = c1 -> {Ask("verify"), Ask("diagnose")}
                              [] c = c2 -> HealthAsks
                              [] c = c3 -> AllAsks]
=============================================================================
