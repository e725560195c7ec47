-------------------------- MODULE ConnectionHealth --------------------------
(***************************************************************************)
(* One IntegrationConnection row and every service that writes it:         *)
(* ConnectionInstancesService (the operator's calls),                      *)
(* IntegrationWorkflowService (setup drafts and diagnostic runs, which are *)
(* upserted into the same table under a slug the tenant chooses) and, as   *)
(* readers, the health timeline and IntegrationDiagnosticsService.         *)
(*                                                                         *)
(* The health record lives in one JSON column, config._platform: a record  *)
(* per kind of event (a "facet") and a timeline of the last Keep + 1       *)
(* events.  An operator's call reads the row, builds the whole new JSON    *)
(* from what it read, stamps it, and writes it back with a plain update:   *)
(* Load, Send and the operation's own action below.  No version guards the *)
(* column, so calls that overlap lose updates.                             *)
(*                                                                         *)
(* A call may stop for ever between two steps: that is a crash.  Who wrote *)
(* a facet stands for its contents, except where the health rules read it; *)
(* NoCall stands for the client whose config created the connection.       *)
(***************************************************************************)
EXTENDS Integers, Sequences, FiniteSets

CONSTANTS Calls,             \* the calls made on the connection
          NoCall,
          Asks,              \* Asks[c]: what call c may ask for
          Keep,              \* appendTimelineEntry keeps slice(-Keep) of the old entries
          DefaultImmediate, DefaultRepeated, DefaultCooldown,
          LastStamp,         \* bound: no call takes its time stamp later
          Horizon            \* bound: the clock stops there

Columns == {"credential-reference", "mapping", "sync-policy"}
Checks == Columns \cup {"endpoint"}

\* The facets of _platform, by the type of their timeline entries.
Facets == {"activation", "verification", "alert-thresholds", "acknowledgement",
           "suppression", "recovery-note", "follow-up-assignment",
           "follow-up-notification", "follow-up-state"}

Ops == {"create", "activate", "verify", "thresholds", "acknowledge", "suppress",
        "unsuppress", "note", "assign", "notify", "state", "draft", "diagnose", "history"}

\* -1: undefined, or no number at all; 0, and -2 for the cooldown: a number out of range.
Thresholds == [immediate : Nat \cup {-1}, repeated : Nat \cup {-1},
               cooldown : Nat \cup {-1, -2}]
NoThresholds == [immediate |-> -1, repeated |-> -1, cooldown |-> -1]

Statuses == {"active", "verified", "needs-setup", "noted"}
Entries == [type : Facets, status : Statuses, at : Nat, by : Calls \cup {NoCall}]
ClientEntries == [type : Facets, status : Statuses, at : Nat, by : {NoCall}]

\* The _platform key of a config a client creates a connection with, as far as the
\* health rules read it.
Platforms == [thresholds : Thresholds, until : Nat, timeline : Seq(ClientEntries)]
NoPlatform == [thresholds |-> NoThresholds, until |-> 0, timeline |-> <<>>]

RequestType == [op : Ops,
                setup : SUBSET Checks,     \* create: what it declares; draft: what AI filled
                platform : Platforms,      \* create: what the client's config brings
                thresholds : Thresholds,
                minutes : Int]             \* suppress: the duration

ASSUME ConnectionConstants ==
  /\ NoCall \notin Calls
  /\ Asks \in [Calls -> SUBSET RequestType]
  /\ Keep \in Nat \ {0}
  /\ DefaultImmediate \in Nat \ {0}
  /\ DefaultRepeated \in Nat /\ DefaultRepeated >= DefaultImmediate
  /\ DefaultCooldown \in Nat
  /\ LastStamp \in Nat /\ Horizon \in Nat

VARIABLES row,      \* the IntegrationConnection
          now,      \* the clock
          pc, req,
          loaded,   \* loaded[c]: the row as call c read it
          stamp,    \* stamp[c]: the time call c puts on what it writes
          saves,    \* history: the calls that have written the row, in order
          seen      \* history: seen[c], how many had when c read it

vars == <<row, now, pc, req, loaded, stamp, saves, seen>>

\* baseUrl: the JSON declares an endpoint; until: suppressedUntil, 0 when null.
Configs == [baseUrl : BOOLEAN, facet : [Facets -> Calls \cup {NoCall}],
            thresholds : Thresholds, until : Nat, timeline : Seq(Entries)]

EmptyConfig == [baseUrl |-> FALSE, facet |-> [f \in Facets |-> NoCall],
                thresholds |-> NoThresholds, until |-> 0, timeline |-> <<>>]

Rows == [exists : BOOLEAN, status : {"PENDING", "ACTIVE", "DEGRADED"},
         verified : BOOLEAN,               \* lastVerifiedAt is set
         columns : SUBSET Columns, config : Configs]

\* buildConnectionConfig: without a storage policy the client's config is stored as it
\* is, with the _platform it may bring; with one, a _platform is refused.
ClientConfig(setup, platform) ==
  [EmptyConfig EXCEPT !.baseUrl = "endpoint" \in setup, !.thresholds = platform.thresholds,
                      !.until = platform.until, !.timeline = platform.timeline]

NewRowUnsplit(setup, platform) ==  \* mutant
  [exists |-> TRUE, status |-> "PENDING", verified |-> FALSE, columns |-> setup,
   config |-> ClientConfig(setup, platform)]

NewRow(setup, platform) ==
  [exists |-> TRUE, status |-> "PENDING", verified |-> FALSE,
   columns |-> setup \cap Columns, config |-> ClientConfig(setup, platform)]

NoRow == [NewRow({}, NoPlatform) EXCEPT !.exists = FALSE]

TypeOK ==
  /\ row \in Rows
  /\ now \in Nat
  /\ pc \in [Calls -> {"idle", "loaded", "sent", "done", "refused"}]
  /\ req \in [Calls -> RequestType]
  /\ loaded \in [Calls -> Rows]
  /\ stamp \in [Calls -> Nat]
  /\ saves \in Seq(Calls)
  /\ seen \in [Calls -> Nat]

AnyRequest == [op |-> "verify", setup |-> {}, platform |-> NoPlatform,
               thresholds |-> NoThresholds, minutes |-> 0]

Init ==
  /\ row \in {NoRow, NewRow({}, NoPlatform), NewRow(Checks, NoPlatform)}
  /\ now = 0
  /\ pc = [c \in Calls |-> "idle"]
  /\ req = [c \in Calls |-> AnyRequest]
  /\ loaded = [c \in Calls |-> NoRow]
  /\ stamp = [c \in Calls |-> 0]
  /\ saves = <<>>
  /\ seen = [c \in Calls |-> 0]

-----------------------------------------------------------------------------
(* The health rules, as functions of the JSON. *)

Larger(a, b) == IF a >= b THEN a ELSE b

\* resolveAlertThresholds.
ResolveAlertThresholds(v) ==
  LET immediate == IF v.immediate >= 1 THEN v.immediate ELSE DefaultImmediate
  IN  [immediate |-> immediate,
       repeated  |-> IF v.repeated >= immediate THEN v.repeated
                                               ELSE Larger(DefaultRepeated, immediate),
       cooldown  |-> IF v.cooldown >= 0 THEN v.cooldown ELSE DefaultCooldown]

Failures(tl) == {i \in DOMAIN tl : tl[i].status = "needs-setup"}
LatestFailed(tl) == tl # <<>> /\ tl[Len(tl)].status = "needs-setup"

\* resolveSuppression: only the end of the window counts, not the stored flag.
SuppressionActive(cfg) == cfg.until > now

\* getConnectionHealthTimeline: shouldAlertOperator and shouldEscalateOperator.
AlertsAt(cfg, failures) ==
  /\ LatestFailed(cfg.timeline)
  /\ Cardinality(Failures(cfg.timeline)) >= failures
  /\ ~SuppressionActive(cfg)

ShouldAlertOperator(cfg) ==
  AlertsAt(cfg, ResolveAlertThresholds(cfg.thresholds).immediate)
ShouldEscalateOperator(cfg) ==
  AlertsAt(cfg, ResolveAlertThresholds(cfg.thresholds).repeated)

\* IntegrationDiagnosticsService.shouldEscalateOperator: the stored number as it is.
DiagnosticsEscalate(cfg) ==
  /\ LatestFailed(cfg.timeline)
  /\ Cardinality(Failures(cfg.timeline)) >=
       (IF cfg.thresholds.repeated = -1 THEN DefaultRepeated ELSE cfg.thresholds.repeated)

Setup(r) == r.columns \cup (IF r.config.baseUrl THEN {"endpoint"} ELSE {})

\* IntegrationDiagnosticsService.diagnose: no issue is left.
Ready(r) == Setup(r) = Checks /\ r.verified

-----------------------------------------------------------------------------
(* A call: read, stamp and send, be written. *)

Refuse(c) == pc' = [pc EXCEPT ![c] = "refused"]

\* What creates the row if it is not there.
Upserts == {"create", "draft", "history"}

\* Thresholds are checked for being given, not for being valid.
Malformed(r) ==
  \/ r.op = "suppress" /\ r.minutes <= 0
  \/ r.op = "thresholds" /\ r.thresholds = NoThresholds

\* Validation, access policy and findFirst.
Load(c) ==
  /\ pc[c] = "idle"
  /\ \E r \in Asks[c] :
       /\ req' = [req EXCEPT ![c] = r]
       /\ IF Malformed(r) \/ (~row.exists /\ r.op \notin Upserts)
            THEN Refuse(c) /\ UNCHANGED <<loaded, seen>>
            ELSE /\ pc' = [pc EXCEPT ![c] = "loaded"]
                 /\ loaded' = [loaded EXCEPT ![c] = row]
                 /\ seen' = [seen EXCEPT ![c] = Len(saves)]
  /\ UNCHANGED <<row, now, stamp, saves>>

ThresholdsUnresolved(c) == req[c].thresholds  \* mutant

\* The three inputs are spread over the stored thresholds even when undefined: what
\* is not given falls back to its default, not to what was stored.
NextThresholds(c) == ResolveAlertThresholds(req[c].thresholds)

Send(c) ==
  /\ pc[c] = "loaded"
  /\ now <= LastStamp
  /\ stamp' = [stamp EXCEPT ![c] = now]
  /\ IF req[c].op = "thresholds" /\ NextThresholds(c).repeated < NextThresholds(c).immediate
       THEN Refuse(c)
       ELSE pc' = [pc EXCEPT ![c] = "sent"]
  /\ UNCHANGED <<row, now, req, loaded, saves, seen>>

\* The database executes c's write.
Saving(c, op) ==
  /\ pc[c] = "sent" /\ req[c].op = op
  /\ pc' = [pc EXCEPT ![c] = "done"]
  /\ saves' = Append(saves, c)
  /\ UNCHANGED <<now, req, loaded, stamp, seen>>

OneFewer(tl) ==  \* mutant
  IF Len(tl) < Keep THEN tl ELSE SubSeq(tl, Len(tl) - Keep + 2, Len(tl))

\* timeline.slice(-Keep)
LastKept(tl) == IF Len(tl) <= Keep THEN tl ELSE SubSeq(tl, Len(tl) - Keep + 1, Len(tl))

RecordedOnCurrentTimeline(c, facet, status) ==  \* mutant
  [loaded[c].config EXCEPT
     !.facet[facet] = c,
     !.timeline = Append(LastKept(row.config.timeline),
                    [type |-> facet, status |-> status, at |-> stamp[c], by |-> c])]

\* { ...platform, <facet>, healthTimeline: appendTimelineEntry(...) }
Recorded(c, facet, status) ==
  [loaded[c].config EXCEPT
     !.facet[facet] = c,
     !.timeline = Append(LastKept(loaded[c].config.timeline),
                    [type |-> facet, status |-> status, at |-> stamp[c], by |-> c])]

Note(c, facet) == row' = [row EXCEPT !.config = Recorded(c, facet, "noted")]

CreateConnection(c) ==
  /\ ~row.exists
  /\ Saving(c, "create")
  /\ row' = NewRow(req[c].setup, req[c].platform)

\* The slug is taken: unique index.
CreateRefused(c) ==
  /\ pc[c] = "sent" /\ req[c].op = "create" /\ row.exists
  /\ Refuse(c)
  /\ UNCHANGED <<row, now, req, loaded, stamp, saves, seen>>

ActivateConnection(c) ==
  /\ Saving(c, "activate")
  /\ row' = [row EXCEPT !.status = "ACTIVE", !.verified = TRUE,
                        !.config = Recorded(c, "activation", "active")]

\* A verification that does not pass writes back the status it has read.
VerifyConnection(c) ==
  LET passed == Setup(loaded[c]) = Checks
  IN  /\ Saving(c, "verify")
      /\ row' = [row EXCEPT
                   !.status = IF passed THEN "ACTIVE" ELSE loaded[c].status,
                   !.verified = TRUE,
                   !.config = Recorded(c, "verification",
                                       IF passed THEN "verified" ELSE "needs-setup")]

UpdateAlertThresholds(c) ==
  /\ Saving(c, "thresholds")
  /\ row' = [row EXCEPT !.config = [Recorded(c, "alert-thresholds", "noted")
                                      EXCEPT !.thresholds = NextThresholds(c)]]

SuppressHealthAlert(c) ==
  /\ Saving(c, "suppress")
  /\ row' = [row EXCEPT !.config = [Recorded(c, "suppression", "noted")
                                      EXCEPT !.until = stamp[c] + req[c].minutes]]

UnsuppressHealthAlert(c) ==
  /\ Saving(c, "unsuppress")
  /\ row' = [row EXCEPT !.config = [Recorded(c, "suppression", "noted")
                                      EXCEPT !.until = 0]]

AcknowledgeHealthAlert(c) == Saving(c, "acknowledge") /\ Note(c, "acknowledgement")
AddRecoveryNote(c) == Saving(c, "note") /\ Note(c, "recovery-note")
AssignHealthFollowUp(c) == Saving(c, "assign") /\ Note(c, "follow-up-assignment")
RecordFollowUpNotification(c) == Saving(c, "notify") /\ Note(c, "follow-up-notification")
UpdateFollowUpState(c) == Saving(c, "state") /\ Note(c, "follow-up-state")

\* The upsert replaces the JSON and the mapping; the sync policy only when AI drafted.
SaveSetupDraft(c) ==
  /\ Saving(c, "draft")
  /\ row' = [row EXCEPT
               !.exists = TRUE, !.status = "PENDING", !.config = EmptyConfig,
               !.columns = (@ \ {"mapping"}) \cup (req[c].setup \ {"endpoint"})]

\* A diagnostic run is kept in a row of its own, under the slug runKey: the upsert takes
\* the place of whatever connection has that slug.
TakenByRun(status) ==
  row' = [row EXCEPT !.exists = TRUE, !.status = status, !.config = EmptyConfig,
                     !.columns = @ \ {"mapping"}]

\* The diagnosed connection's own slug, ...
RecordDiagnosticRun(c) ==
  /\ Saving(c, "diagnose")
  /\ TakenByRun(IF Ready(loaded[c]) THEN "ACTIVE" ELSE "DEGRADED")

\* ... or a run about another connection, whose readiness is not this row's.
RecordRunOfAnother(c) ==
  /\ Saving(c, "history")
  /\ \E status \in {"ACTIVE", "DEGRADED"} : TakenByRun(status)

Tick ==
  /\ now < Horizon
  /\ now' = now + 1
  /\ UNCHANGED <<row, pc, req, loaded, stamp, saves, seen>>

Next ==
  \/ Tick
  \/ \E c \in Calls :
       \/ Load(c) \/ Send(c)
       \/ CreateConnection(c) \/ CreateRefused(c)
       \/ ActivateConnection(c) \/ VerifyConnection(c) \/ UpdateAlertThresholds(c)
       \/ SuppressHealthAlert(c) \/ UnsuppressHealthAlert(c)
       \/ AcknowledgeHealthAlert(c) \/ AddRecoveryNote(c) \/ AssignHealthFollowUp(c)
       \/ RecordFollowUpNotification(c) \/ UpdateFollowUpState(c)
       \/ SaveSetupDraft(c) \/ RecordDiagnosticRun(c) \/ RecordRunOfAnother(c)

Spec == Init /\ [][Next]_vars

-----------------------------------------------------------------------------
(* Properties. *)

FacetsMatch(cfg) ==
  \A i \in DOMAIN cfg.timeline :
    /\ cfg.timeline[i].by # NoCall
    /\ \A j \in DOMAIN cfg.timeline : j > i => cfg.timeline[j].type # cfg.timeline[i].type
    => cfg.facet[cfg.timeline[i].type] = cfg.timeline[i].by

\* Whatever overlaps, the record an operator sees is of one piece: each facet is the
\* one the latest timeline entry of its kind announces, never an older or a newer one.
\* (What a client has written into its config itself is not an operation's record.)
FacetsMatchTimeline == FacetsMatch(row.config)

\* Drafts and diagnostic runs replace the row's JSON.
Replacing == {"draft", "diagnose", "history"}

\* An operation that was answered can vanish from the timeline only in the three ways
\* the code has: a call that had read the row before it wrote the row after, a draft
\* or a diagnostic run took the row, or more than Keep events followed.
LostOnlyToOverlap ==
  \A i \in DOMAIN saves :
    \/ \E k \in DOMAIN row.config.timeline : row.config.timeline[k].by = saves[i]
    \/ req[saves[i]].op \in Replacing \cup {"create"}
    \/ \E j \in i + 1 .. Len(saves) : \/ seen[saves[j]] < i
                                      \/ req[saves[j]].op \in Replacing
    \/ Len(saves) - i > Keep

EscalationAgrees(cfg) ==
  /\ ShouldEscalateOperator(cfg) <=> DiagnosticsEscalate(cfg) /\ ~SuppressionActive(cfg)
  /\ ShouldEscalateOperator(cfg) => ShouldAlertOperator(cfg)

\* The health timeline and the diagnostics compute the escalation apart, one from
\* resolved thresholds and one from stored ones.  They agree, but for the suppression
\* the diagnostics ignore, and what is escalated is also alerted, as long as an
\* operator has set the thresholds or nobody has.  (Thresholds a client stores with its
\* config are never resolved; once an operator sets some, the surfaces agree again.)
SurfacesAgree ==
  \/ row.config.facet["alert-thresholds"] # NoCall
  \/ row.config.thresholds = NoThresholds
  => EscalationAgrees(row.config)
=============================================================================
