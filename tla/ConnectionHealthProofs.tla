----------------------- MODULE ConnectionHealthProofs -----------------------
(***************************************************************************)
(* Theorems about ConnectionHealth, for any calls, requests, thresholds    *)
(* and length of the timeline.                                             *)
(*                                                                         *)
(* Calls lose each other's updates, so a call's snapshot need not agree    *)
(* with the row it overwrites.  HealthInv holds all the same: every JSON a *)
(* call may have in its hands, the row's or an old one, is sound in        *)
(* itself, and every operation builds a sound one from a sound one.        *)
(* What is lost is a matter of TimelineInv: the timeline of each JSON      *)
(* follows the writes that came before it was read.                        *)
(***************************************************************************)
EXTENDS ConnectionHealth, FiniteSetTheorems, SequenceTheorems, TLAPS

Resolved(t) == t.immediate >= 1 /\ t.repeated >= t.immediate /\ t.cooldown >= 0

Sound(cfg) ==
  /\ FacetsMatch(cfg)
  /\ cfg.facet["alert-thresholds"] # NoCall => Resolved(cfg.thresholds)

\* A call that was let in has a request that is well formed.
Validated == \A c \in Calls : pc[c] \in {"loaded", "sent"} => ~Malformed(req[c])

HealthInv ==
  /\ TypeOK /\ Validated
  /\ Sound(row.config)
  /\ \A c \in Calls : Sound(loaded[c].config)

(***************************************************************************)
(* The helpers.                                                            *)
(***************************************************************************)

LEMMA ResolveResolves ==
  ASSUME NEW t \in Thresholds
  PROVE  /\ ResolveAlertThresholds(t) \in Thresholds
         /\ Resolved(ResolveAlertThresholds(t))
BY ConnectionConstants DEF Thresholds, ResolveAlertThresholds, Resolved, Larger

\* What a client brings is no operation's record, and is sound as such.
LEMMA ClientConfigSound ==
  ASSUME NEW setup, NEW platform \in Platforms
  PROVE  /\ ClientConfig(setup, platform) \in Configs
         /\ Sound(ClientConfig(setup, platform))
         /\ ClientConfig(setup, platform).timeline = platform.timeline
         /\ \A k \in DOMAIN platform.timeline : platform.timeline[k].by = NoCall
<1> DEFINE b == "endpoint" \in setup
           nobody == [f \in Facets |-> NoCall]
           tl == platform.timeline
<1>1. /\ platform.thresholds \in Thresholds /\ platform.until \in Nat
      /\ tl \in Seq(ClientEntries)
  BY DEF Platforms
<1>2. Len(tl) \in Nat /\ DOMAIN tl = 1 .. Len(tl) /\ tl \in [1 .. Len(tl) -> ClientEntries]
  BY <1>1
<1>3. \A k \in 1 .. Len(tl) : tl[k] \in Entries /\ tl[k].by = NoCall
  BY <1>2 DEF ClientEntries, Entries
<1>4. tl \in Seq(Entries)
  BY <1>1, <1>2, <1>3
<1>5. ClientConfig(setup, platform) =
        [baseUrl |-> b, facet |-> nobody, thresholds |-> platform.thresholds,
         until |-> platform.until, timeline |-> tl]
  <2>1. EmptyConfig = [baseUrl |-> FALSE, facet |-> nobody, thresholds |-> NoThresholds,
                       until |-> 0, timeline |-> <<>>]
    BY DEF EmptyConfig
  <2>2. ClientConfig(setup, platform) =
          [EmptyConfig EXCEPT !.baseUrl = b, !.thresholds = platform.thresholds,
                              !.until = platform.until, !.timeline = tl]
    BY DEF ClientConfig
  <2> HIDE DEF b, nobody, tl
  <2> QED
    BY <2>1, <2>2
<1>6. b \in BOOLEAN /\ nobody \in [Facets -> Calls \cup {NoCall}]
  OBVIOUS
<1>7. nobody["alert-thresholds"] = NoCall
  BY DEF Facets
<1> HIDE DEF b, nobody, tl
<1>8. ClientConfig(setup, platform) \in Configs
  BY <1>1, <1>4, <1>5, <1>6 DEF Configs
<1>9. Sound(ClientConfig(setup, platform))
  BY <1>2, <1>3, <1>5, <1>7 DEF Sound, FacetsMatch
<1> QED
  BY <1>2, <1>3, <1>5, <1>8, <1>9 DEF tl

LEMMA NewRowSound ==
  ASSUME NEW setup, NEW platform \in Platforms
  PROVE  /\ NewRow(setup, platform) \in Rows
         /\ Sound(NewRow(setup, platform).config)
         /\ NewRow(setup, platform).config.timeline = platform.timeline
         /\ \A k \in DOMAIN platform.timeline : platform.timeline[k].by = NoCall
<1>1. NewRow(setup, platform).config = ClientConfig(setup, platform)
  BY DEF NewRow
<1>2. NewRow(setup, platform) \in Rows
  BY ClientConfigSound DEF NewRow, Rows
<1> QED
  BY <1>1, <1>2, ClientConfigSound

LEMMA NothingBrought == NoPlatform \in Platforms /\ NoThresholds \in Thresholds
<1>1. NoThresholds \in Thresholds
  BY DEF NoThresholds, Thresholds
<1> QED
  BY <1>1 DEF NoPlatform, Platforms

LEMMA EmptySound == EmptyConfig \in Configs /\ Sound(EmptyConfig)
<1>1. EmptyConfig \in Configs
  BY NothingBrought DEF EmptyConfig, Configs
<1>2. Sound(EmptyConfig)
  BY DEF EmptyConfig, Sound, FacetsMatch, Facets
<1> QED
  BY <1>1, <1>2

LEMMA NoRowSound == NoRow \in Rows /\ Sound(NoRow.config) /\ NoRow.config.timeline = <<>>
<1>1. /\ NewRow({}, NoPlatform) \in Rows /\ Sound(NewRow({}, NoPlatform).config)
      /\ NewRow({}, NoPlatform).config.timeline = NoPlatform.timeline
  BY NewRowSound, NothingBrought
<1>2. NoRow.config = NewRow({}, NoPlatform).config
  BY DEF NoRow, NewRow
<1>3. NoRow \in Rows
  BY <1>1 DEF NoRow, Rows
<1> QED
  BY <1>1, <1>2, <1>3 DEF NoPlatform

\* What is kept of a timeline is its end.
LEMMA KeptIsTheEnd ==
  ASSUME NEW tl \in Seq(Entries)
  PROVE  /\ LastKept(tl) \in Seq(Entries)
         /\ Len(LastKept(tl)) <= Len(tl)
         /\ \A i \in DOMAIN LastKept(tl) :
              LastKept(tl)[i] = tl[i + (Len(tl) - Len(LastKept(tl)))]
<1>1. Len(tl) \in Nat /\ Keep \in Nat \ {0}
  BY ConnectionConstants
<1>2. CASE Len(tl) <= Keep
  BY <1>1, <1>2 DEF LastKept
<1>3. CASE Len(tl) > Keep
  <2> DEFINE m == Len(tl) - Keep + 1
  <2>1. m \in Int /\ Len(tl) \in Int /\ \A i \in m .. Len(tl) : tl[i] \in Entries
    BY <1>1, <1>3
  <2>2. LastKept(tl) = SubSeq(tl, m, Len(tl))
    BY <1>1, <1>3 DEF LastKept
  <2>3. /\ LastKept(tl) \in Seq(Entries)
        /\ Len(LastKept(tl)) = Keep
        /\ \A i \in 1 .. Keep : LastKept(tl)[i] = tl[m + i - 1]
    BY <1>1, <1>3, <2>1, <2>2, SubSeqProperties
  <2> QED
    BY <1>1, <1>3, <2>3
<1> QED
  BY <1>1, <1>2, <1>3

\* Whatever is recorded on a sound JSON leaves a sound JSON; thresholds it takes to set
\* them as well.
LEMMA RecordedSound ==
  ASSUME HealthInv, NEW c \in Calls, NEW facet \in Facets, NEW status \in Statuses
  PROVE  /\ Recorded(c, facet, status) \in Configs
         /\ FacetsMatch(Recorded(c, facet, status))
         /\ facet # "alert-thresholds" => Sound(Recorded(c, facet, status))
<1> DEFINE old == loaded[c].config
           cfg == Recorded(c, facet, status)
           kept == LastKept(old.timeline)
           entry == [type |-> facet, status |-> status, at |-> stamp[c], by |-> c]
           n == Len(kept)
           d == Len(old.timeline) - n
<1>1. old \in Configs /\ Sound(old) /\ stamp[c] \in Nat
  BY DEF HealthInv, TypeOK, Rows
<1>2. old.timeline \in Seq(Entries) /\ old.facet \in [Facets -> Calls \cup {NoCall}]
  BY <1>1 DEF Configs
<1>3. /\ kept \in Seq(Entries) /\ n \in Nat /\ d \in Nat
      /\ DOMAIN kept = 1 .. n /\ DOMAIN old.timeline = 1 .. n + d
      /\ \A i \in 1 .. n : kept[i] = old.timeline[i + d]
  BY <1>2, KeptIsTheEnd
<1>4. entry \in Entries /\ entry.type = facet /\ entry.by = c
  BY <1>1 DEF Entries
<1>5. /\ cfg.baseUrl = old.baseUrl /\ cfg.thresholds = old.thresholds
      /\ cfg.until = old.until
      /\ cfg.facet = [old.facet EXCEPT ![facet] = c]
      /\ cfg.timeline = Append(kept, entry)
      /\ cfg = [old EXCEPT !.facet = [old.facet EXCEPT ![facet] = c],
                           !.timeline = Append(kept, entry)]
  BY <1>1 DEF Recorded, Configs
<1> HIDE DEF cfg, entry
<1>6. /\ cfg.timeline \in Seq(Entries) /\ DOMAIN cfg.timeline = 1 .. n + 1
      /\ \A i \in 1 .. n : cfg.timeline[i] = old.timeline[i + d]
      /\ cfg.timeline[n + 1] = entry
  <2> HIDE DEF kept, d
  <2>1. /\ Append(kept, entry) \in Seq(Entries) /\ Len(Append(kept, entry)) = n + 1
        /\ \A i \in 1 .. n : Append(kept, entry)[i] = kept[i]
        /\ Append(kept, entry)[n + 1] = entry
    BY <1>3, <1>4, AppendProperties
  <2> QED
    BY <1>3, <1>5, <2>1
<1>7. cfg \in Configs
  <2>1. cfg.facet \in [Facets -> Calls \cup {NoCall}]
    BY <1>2, <1>5
  <2> QED
    BY <1>1, <1>5, <1>6, <2>1 DEF Configs
<1>8. FacetsMatch(cfg)
  <2> SUFFICES ASSUME NEW i \in 1 .. n + 1,
                      \A j \in 1 .. n + 1 : j > i => cfg.timeline[j].type # cfg.timeline[i].type,
                      cfg.timeline[i].by # NoCall
               PROVE  cfg.facet[cfg.timeline[i].type] = cfg.timeline[i].by
    BY <1>6 DEF FacetsMatch
  <2> HIDE DEF old, kept, n, d
  <2>1. CASE i = n + 1
    BY <1>2, <1>4, <1>5, <1>6, <2>1
  <2>2. CASE i \in 1 .. n
    <3>1. cfg.timeline[i] = old.timeline[i + d] /\ i + d \in 1 .. n + d
      BY <1>3, <1>6, <2>2
    <3>2. old.timeline[i + d].type # facet
      BY <1>3, <1>4, <1>6, <2>2, <3>1
    <3>3. ASSUME NEW k \in 1 .. n + d, k > i + d
          PROVE  old.timeline[k].type # old.timeline[i + d].type
      <4>1. k - d \in 1 .. n /\ k - d > i /\ (k - d) + d = k
        BY <1>3, <2>2, <3>3
      <4>2. k - d \in 1 .. n + 1 /\ cfg.timeline[k - d] = old.timeline[k]
        BY <1>3, <1>6, <4>1
      <4> QED
        BY <3>1, <4>1, <4>2
    <3>4. old.facet[old.timeline[i + d].type] = old.timeline[i + d].by
      BY <1>1, <1>3, <3>1, <3>3 DEF Sound, FacetsMatch
    <3>5. old.timeline[i + d] \in Entries
      BY <1>2, <1>3, <3>1
    <3>6. old.timeline[i + d].type \in Facets
      BY <3>5 DEF Entries
    <3>7. cfg.facet[old.timeline[i + d].type] = old.facet[old.timeline[i + d].type]
      BY <1>2, <1>5, <3>2, <3>6
    <3> QED
      BY <3>1, <3>4, <3>7
  <2> QED
    BY <1>3, <2>1, <2>2
<1>9. facet # "alert-thresholds" => Sound(cfg)
  <2>1. facet # "alert-thresholds" =>
          cfg.facet["alert-thresholds"] = old.facet["alert-thresholds"]
    BY <1>2, <1>5 DEF Facets
  <2> QED
    BY <1>1, <1>5, <1>8, <2>1 DEF Sound
<1> QED
  BY <1>7, <1>8, <1>9 DEF cfg

(***************************************************************************)
(* The steps.                                                              *)
(***************************************************************************)

LEMMA InitHealth == Init => HealthInv
<1> SUFFICES ASSUME Init PROVE HealthInv
  OBVIOUS
<1>1. row \in Rows /\ Sound(row.config)
  BY NoRowSound, NewRowSound, NothingBrought DEF Init
<1>2. AnyRequest \in RequestType
  BY NothingBrought DEF AnyRequest, RequestType, Ops
<1>3. TypeOK
  BY <1>1, <1>2, NoRowSound DEF Init, TypeOK
<1>4. Validated
  BY DEF Init, Validated
<1> QED
  BY <1>1, <1>3, <1>4, NoRowSound DEF Init, HealthInv

\* A write of a sound row.
LEMMA SavingHealth ==
  ASSUME HealthInv, NEW c \in Calls, NEW op, Saving(c, op),
         row' \in Rows, Sound(row'.config)
  PROVE  HealthInv'
<1>1. TypeOK'
  BY DEF HealthInv, TypeOK, Saving
<1>2. Validated'
  BY DEF HealthInv, TypeOK, Validated, Saving
<1> QED
  BY <1>1, <1>2 DEF HealthInv, Saving

\* Every operation that writes the row writes a sound one.
RowStep(c) ==
  \/ CreateConnection(c)
  \/ ActivateConnection(c) \/ VerifyConnection(c) \/ UpdateAlertThresholds(c)
  \/ SuppressHealthAlert(c) \/ UnsuppressHealthAlert(c)
  \/ AcknowledgeHealthAlert(c) \/ AddRecoveryNote(c) \/ AssignHealthFollowUp(c)
  \/ RecordFollowUpNotification(c) \/ UpdateFollowUpState(c)
  \/ SaveSetupDraft(c) \/ RecordDiagnosticRun(c) \/ RecordRunOfAnother(c)

LEMMA RowStepHealth ==
  ASSUME HealthInv, NEW c \in Calls, RowStep(c)
  PROVE  HealthInv'
<1>0. /\ row \in Rows /\ loaded[c] \in Rows /\ req[c] \in RequestType
      /\ stamp[c] \in Nat /\ loaded[c].status \in {"PENDING", "ACTIVE", "DEGRADED"}
  BY DEF HealthInv, TypeOK, Rows
<1>1. ASSUME NEW cfg \in Configs, Sound(cfg), NEW st \in {"PENDING", "ACTIVE", "DEGRADED"},
             NEW b \in BOOLEAN, NEW cols \in SUBSET Columns, NEW e \in BOOLEAN, NEW op,
             Saving(c, op),
             row' = [row EXCEPT !.exists = e, !.status = st, !.verified = b,
                                !.columns = cols, !.config = cfg]
      PROVE  HealthInv'
  <2>1. row' \in Rows /\ row'.config = cfg
    BY <1>0, <1>1 DEF Rows
  <2> QED
    BY <1>1, <2>1, SavingHealth
<1>2. /\ row.exists \in BOOLEAN /\ row.verified \in BOOLEAN /\ row.columns \in SUBSET Columns
      /\ row.status \in {"PENDING", "ACTIVE", "DEGRADED"}
  BY <1>0 DEF Rows
<1>3. row = [row EXCEPT !.exists = row.exists, !.status = row.status,
                        !.verified = row.verified, !.columns = row.columns]
  BY <1>0 DEF Rows
<1>4. CASE CreateConnection(c)
  <2>1. req[c].platform \in Platforms
    BY <1>0 DEF RequestType
  <2>2. row' \in Rows /\ Sound(row'.config) /\ Saving(c, "create")
    BY <1>4, <2>1, NewRowSound DEF CreateConnection
  <2> QED
    BY <2>2, SavingHealth
<1>5. CASE ActivateConnection(c)
  <2>1. Recorded(c, "activation", "active") \in Configs
        /\ Sound(Recorded(c, "activation", "active"))
    BY RecordedSound DEF Facets, Statuses
  <2>2. row' = [row EXCEPT !.exists = row.exists, !.status = "ACTIVE", !.verified = TRUE,
                           !.columns = row.columns,
                           !.config = Recorded(c, "activation", "active")]
    BY <1>0, <1>5 DEF ActivateConnection, Rows
  <2> QED
    BY <1>1, <1>2, <1>5, <2>1, <2>2 DEF ActivateConnection
<1>6. CASE VerifyConnection(c)
  <2> DEFINE passed == Setup(loaded[c]) = Checks
             st == IF passed THEN "verified" ELSE "needs-setup"
             status == IF passed THEN "ACTIVE" ELSE loaded[c].status
  <2>1. Recorded(c, "verification", st) \in Configs /\ Sound(Recorded(c, "verification", st))
    BY RecordedSound DEF Facets, Statuses
  <2>2. row' = [row EXCEPT !.exists = row.exists, !.status = status, !.verified = TRUE,
                           !.columns = row.columns,
                           !.config = Recorded(c, "verification", st)]
    BY <1>0, <1>6 DEF VerifyConnection, Rows
  <2>3. status \in {"PENDING", "ACTIVE", "DEGRADED"}
    BY <1>0
  <2>4. Saving(c, "verify")
    BY <1>6 DEF VerifyConnection
  <2> HIDE DEF st, status
  <2> QED
    BY <1>1, <1>2, <2>1, <2>2, <2>3, <2>4
<1>7. ASSUME NEW cfg \in Configs, Sound(cfg), NEW op, Saving(c, op),
             row' = [row EXCEPT !.config = cfg]
      PROVE  HealthInv'
  <2>1. row' \in Rows /\ row'.config = cfg
    BY <1>0, <1>7 DEF Rows
  <2> QED
    BY <1>7, <2>1, SavingHealth
<1>8. CASE UpdateAlertThresholds(c)
  <2> DEFINE rec == Recorded(c, "alert-thresholds", "noted")
             cfg == [rec EXCEPT !.thresholds = NextThresholds(c)]
  <2>1. rec \in Configs /\ FacetsMatch(rec)
    BY RecordedSound DEF Facets, Statuses
  <2>2. NextThresholds(c) \in Thresholds /\ Resolved(NextThresholds(c))
    BY <1>0, ResolveResolves DEF NextThresholds, RequestType
  <2> HIDE DEF rec
  <2>3. cfg \in Configs /\ cfg.thresholds = NextThresholds(c)
        /\ cfg.timeline = rec.timeline /\ cfg.facet = rec.facet
    BY <2>1, <2>2 DEF Configs
  <2>4. Sound(cfg)
    BY <2>1, <2>2, <2>3 DEF Sound, FacetsMatch
  <2>5. row' = [row EXCEPT !.config = cfg]
    BY <1>8 DEF UpdateAlertThresholds, rec
  <2> HIDE DEF cfg
  <2> QED
    BY <1>7, <1>8, <2>3, <2>4, <2>5 DEF UpdateAlertThresholds
<1>9. ASSUME NEW until \in Nat, NEW op, Saving(c, op),
             row' = [row EXCEPT !.config = [Recorded(c, "suppression", "noted")
                                              EXCEPT !.until = until]]
      PROVE  HealthInv'
  <2> DEFINE rec == Recorded(c, "suppression", "noted")
             cfg == [rec EXCEPT !.until = until]
  <2>1. rec \in Configs /\ Sound(rec)
    BY RecordedSound DEF Facets, Statuses
  <2>2. row' = [row EXCEPT !.config = cfg]
    BY <1>9
  <2> HIDE DEF rec
  <2>3. cfg \in Configs /\ cfg.thresholds = rec.thresholds
        /\ cfg.timeline = rec.timeline /\ cfg.facet = rec.facet
    BY <2>1 DEF Configs
  <2>4. Sound(cfg)
    BY <2>1, <2>3 DEF Sound, FacetsMatch
  <2> HIDE DEF cfg
  <2> QED
    BY <1>7, <1>9, <2>2, <2>3, <2>4
<1>10. CASE SuppressHealthAlert(c)
  <2>1. pc[c] = "sent" /\ req[c].op = "suppress"
    BY <1>10 DEF SuppressHealthAlert, Saving
  <2>2. stamp[c] + req[c].minutes \in Nat
    BY <1>0, <2>1 DEF HealthInv, Validated, Malformed, RequestType
  <2> QED
    BY <1>9, <1>10, <2>2 DEF SuppressHealthAlert
<1>11. CASE UnsuppressHealthAlert(c)
  BY <1>9, <1>11 DEF UnsuppressHealthAlert
<1>12. ASSUME NEW facet \in Facets \ {"alert-thresholds"}, NEW op, Saving(c, op), Note(c, facet)
       PROVE  HealthInv'
  BY <1>7, <1>12, RecordedSound DEF Note, Statuses
<1>13. CASE \/ AcknowledgeHealthAlert(c) \/ AddRecoveryNote(c) \/ AssignHealthFollowUp(c)
            \/ RecordFollowUpNotification(c) \/ UpdateFollowUpState(c)
  BY <1>12, <1>13 DEF AcknowledgeHealthAlert, AddRecoveryNote, AssignHealthFollowUp,
                      RecordFollowUpNotification, UpdateFollowUpState, Facets
<1>14. CASE SaveSetupDraft(c)
  <2> DEFINE cols == (row.columns \ {"mapping"}) \cup (req[c].setup \ {"endpoint"})
  <2>1. cols \in SUBSET Columns
    BY <1>0, <1>2 DEF RequestType, Checks, Columns
  <2>2. row' = [row EXCEPT !.exists = TRUE, !.status = "PENDING", !.verified = row.verified,
                           !.columns = cols, !.config = EmptyConfig]
    BY <1>0, <1>14 DEF SaveSetupDraft, Rows
  <2> HIDE DEF cols
  <2> QED
    BY <1>1, <1>2, <1>14, <2>1, <2>2, EmptySound DEF SaveSetupDraft
<1>15. ASSUME NEW status \in {"ACTIVE", "DEGRADED"}, TakenByRun(status),
              NEW op, Saving(c, op)
       PROVE  HealthInv'
  <2> DEFINE cols == row.columns \ {"mapping"}
  <2>1. cols \in SUBSET Columns
    BY <1>2
  <2>2. row' = [row EXCEPT !.exists = TRUE, !.status = status, !.verified = row.verified,
                           !.columns = cols, !.config = EmptyConfig]
    BY <1>0, <1>15 DEF TakenByRun, Rows
  <2> HIDE DEF cols
  <2> QED
    BY <1>1, <1>2, <1>15, <2>1, <2>2, EmptySound
<1>16. CASE RecordDiagnosticRun(c)
  <2> DEFINE status == IF Ready(loaded[c]) THEN "ACTIVE" ELSE "DEGRADED"
  <2>1. status \in {"ACTIVE", "DEGRADED"}
    OBVIOUS
  <2>2. Saving(c, "diagnose") /\ TakenByRun(status)
    BY <1>16 DEF RecordDiagnosticRun
  <2> HIDE DEF status
  <2> QED
    BY <1>15, <2>1, <2>2
<1>17. CASE RecordRunOfAnother(c)
  BY <1>15, <1>17 DEF RecordRunOfAnother
<1> QED
  BY <1>4, <1>5, <1>6, <1>8, <1>10, <1>11, <1>13, <1>14, <1>16, <1>17 DEF RowStep

LEMMA StepHealth ==
  ASSUME HealthInv, [Next]_vars
  PROVE  HealthInv'
<1> USE DEF HealthInv
<1>1. ASSUME NEW c \in Calls, Load(c) PROVE HealthInv'
  <2> PICK r \in Asks[c] :
         /\ req' = [req EXCEPT ![c] = r]
         /\ IF Malformed(r) \/ (~row.exists /\ r.op \notin Upserts)
              THEN Refuse(c) /\ UNCHANGED <<loaded, seen>>
              ELSE /\ pc' = [pc EXCEPT ![c] = "loaded"]
                   /\ loaded' = [loaded EXCEPT ![c] = row]
                   /\ seen' = [seen EXCEPT ![c] = Len(saves)]
    BY <1>1 DEF Load
  <2>1. r \in RequestType
    BY ConnectionConstants
  <2>2. UNCHANGED <<row, now, stamp, saves>> /\ Len(saves) \in Nat
    BY <1>1 DEF Load, TypeOK
  <2>3. CASE Refuse(c) /\ UNCHANGED <<loaded, seen>>
    BY <2>1, <2>2, <2>3 DEF Refuse, TypeOK, Validated
  <2>4. CASE /\ ~Malformed(r) /\ pc' = [pc EXCEPT ![c] = "loaded"]
             /\ loaded' = [loaded EXCEPT ![c] = row]
             /\ seen' = [seen EXCEPT ![c] = Len(saves)]
    BY <2>1, <2>2, <2>4 DEF TypeOK, Validated
  <2> QED
    BY <2>3, <2>4
<1>2. ASSUME NEW c \in Calls, Send(c) PROVE HealthInv'
  BY <1>2 DEF Send, Refuse, TypeOK, Validated
<1>3. ASSUME NEW c \in Calls, CreateRefused(c) PROVE HealthInv'
  BY <1>3 DEF CreateRefused, Refuse, TypeOK, Validated
<1>4. CASE Tick
  BY <1>4 DEF Tick, TypeOK, Validated
<1>5. CASE UNCHANGED vars
  BY <1>5 DEF vars, TypeOK, Validated
<1> QED
  BY <1>1, <1>2, <1>3, <1>4, <1>5, RowStepHealth DEF Next, RowStep

LEMMA HealthSafety == Spec => []HealthInv
BY InitHealth, StepHealth, PTL DEF Spec

(***************************************************************************)
(* The timeline and the calls that have written the row.                   *)
(***************************************************************************)

Saved(c) == \E i \in DOMAIN saves : saves[i] = c

\* A call writes the row once, and is done then.
SavedOnce ==
  /\ \A i, j \in DOMAIN saves : saves[i] = saves[j] => i = j
  /\ \A c \in Calls : Saved(c) => pc[c] = "done"

\* The n-th write came after as many entries as precede it: who wrote an entry that
\* is the d-th from the end of the timeline has been followed by d writes.  What a
\* client brought is no write.
Late(tl, n) ==
  \A k \in DOMAIN tl :
    tl[k].by # NoCall =>
      \E j \in DOMAIN saves : saves[j] = tl[k].by /\ j + (Len(tl) - k) <= n

\* LostOnlyToOverlap for a timeline as it was after the n-th write.
Covers(tl, n) ==
  \A i \in 1 .. n :
    \/ \E k \in DOMAIN tl : tl[k].by = saves[i]
    \/ req[saves[i]].op \in Replacing \cup {"create"}
    \/ \E j \in i + 1 .. n : \/ seen[saves[j]] < i
                             \/ req[saves[j]].op \in Replacing
    \/ n - i > Keep

\* Only what creates the row is let in before there is one.
CreatedFirst ==
  /\ \A c \in Calls : pc[c] \in {"loaded", "sent"} /\ req[c].op \notin Upserts => row.exists
  /\ saves # <<>> => row.exists

Follows(tl, n) == n <= Len(saves) /\ Late(tl, n) /\ Covers(tl, n)

TimelineInv ==
  /\ HealthInv /\ SavedOnce /\ CreatedFirst
  /\ Follows(row.config.timeline, Len(saves))
  /\ \A c \in Calls : pc[c] \in {"loaded", "sent"} =>
                        Follows(loaded[c].config.timeline, seen[c])

LEMMA AppendFacts ==
  ASSUME NEW s \in Seq(Calls), NEW c \in Calls
  PROVE  /\ Append(s, c) \in Seq(Calls)
         /\ Len(Append(s, c)) = Len(s) + 1 /\ Len(s) \in Nat
         /\ DOMAIN Append(s, c) = 1 .. Len(s) + 1
         /\ Append(s, c)[Len(s) + 1] = c
         /\ \A i \in 1 .. Len(s) : Append(s, c)[i] = s[i]
BY AppendProperties

\* A timeline goes on covering the writes it was read after.
LEMMA FollowsStays ==
  ASSUME TypeOK, SavedOnce, NEW tl, NEW n \in Nat, Follows(tl, n),
         saves' = saves \/ (\E c \in Calls : saves' = Append(saves, c)),
         \A c \in Calls : Saved(c) => req'[c] = req[c] /\ seen'[c] = seen[c]
  PROVE  Follows(tl, n)'
<1>1. saves \in Seq(Calls) /\ Len(saves) \in Nat /\ DOMAIN saves = 1 .. Len(saves)
  BY DEF TypeOK
<1>2. /\ Len(saves') \in Nat /\ Len(saves) <= Len(saves')
      /\ DOMAIN saves' = 1 .. Len(saves')
      /\ \A i \in 1 .. Len(saves) : saves'[i] = saves[i]
  <2>1. CASE saves' = saves
    BY <1>1, <2>1
  <2>2. CASE \E c \in Calls : saves' = Append(saves, c)
    <3>1. PICK c \in Calls : saves' = Append(saves, c)
      BY <2>2
    <3> DEFINE longer == Append(saves, c)
    <3>2. /\ Len(longer) = Len(saves) + 1 /\ DOMAIN longer = 1 .. Len(saves) + 1
          /\ \A i \in 1 .. Len(saves) : longer[i] = saves[i]
      BY <1>1, AppendFacts
    <3>3. saves' = longer
      BY <3>1
    <3> HIDE DEF longer
    <3> QED
      BY <1>1, <3>2, <3>3
  <2> QED
    BY <2>1, <2>2
<1>0. n <= Len(saves) /\ Late(tl, n) /\ Covers(tl, n)
  BY DEF Follows
<1>3. Late(tl, n)'
  <2>1. \A j \in DOMAIN saves : j \in DOMAIN saves' /\ saves'[j] = saves[j]
    <3> SUFFICES ASSUME NEW j \in 1 .. Len(saves)
                 PROVE  j \in 1 .. Len(saves') /\ saves'[j] = saves[j]
      BY <1>1, <1>2
    <3>1. saves'[j] = saves[j]
      BY <1>2
    <3>2. Len(saves) \in Nat /\ Len(saves') \in Nat /\ Len(saves) <= Len(saves')
      BY <1>1, <1>2
    <3> QED
      BY <3>1, <3>2
  <2> QED
    BY <1>0, <2>1 DEF Late
<1>4. \A i \in 1 .. n : /\ saves'[i] = saves[i]
                        /\ req'[saves[i]] = req[saves[i]] /\ seen'[saves[i]] = seen[saves[i]]
  <2>1. \A i \in 1 .. n : i \in 1 .. Len(saves) /\ saves[i] \in Calls
    BY <1>0, <1>1
  <2> QED
    BY <1>1, <1>2, <2>1 DEF Saved
<1>5. Covers(tl, n)'
  <2> SUFFICES ASSUME NEW i \in 1 .. n
               PROVE  \/ \E k \in DOMAIN tl : tl[k].by = saves'[i]
                      \/ req'[saves'[i]].op \in Replacing \cup {"create"}
                      \/ \E j \in i + 1 .. n : \/ seen'[saves'[j]] < i
                                               \/ req'[saves'[j]].op \in Replacing
                      \/ n - i > Keep
    BY DEF Covers
  <2>1. \A j \in i + 1 .. n : j \in 1 .. n
    OBVIOUS
  <2>2. \/ \E k \in DOMAIN tl : tl[k].by = saves[i]
        \/ req[saves[i]].op \in Replacing \cup {"create"}
        \/ \E j \in i + 1 .. n : seen[saves[j]] < i \/ req[saves[j]].op \in Replacing
        \/ n - i > Keep
    BY <1>0 DEF Covers
  <2>3. saves'[i] = saves[i] /\ req'[saves'[i]] = req[saves[i]]
    BY <1>4
  <2>4. ASSUME NEW j \in i + 1 .. n, seen[saves[j]] < i \/ req[saves[j]].op \in Replacing
        PROVE  seen'[saves'[j]] < i \/ req'[saves'[j]].op \in Replacing
    <3>1. saves'[j] = saves[j] /\ req'[saves[j]] = req[saves[j]] /\ seen'[saves[j]] = seen[saves[j]]
      BY <1>4, <2>1
    <3> QED
      BY <2>4, <3>1
  <2> QED
    BY <2>2, <2>3, <2>4
<1>6. n <= Len(saves')
  <2>1. Len(saves) \in Nat /\ Len(saves') \in Nat /\ Len(saves) <= Len(saves')
    BY <1>1, <1>2
  <2>2. n <= Len(saves)
    BY <1>0
  <2> QED
    BY <2>1, <2>2
<1> QED
  BY <1>3, <1>5, <1>6 DEF Follows

OnlyBrought(tl) == \A k \in DOMAIN tl : tl[k].by = NoCall

\* A write replaces the timeline by what its call had read and one entry, or by what
\* no call has written.
LEMMA RowStepTimeline ==
  ASSUME HealthInv, CreatedFirst, NEW c \in Calls, RowStep(c)
  PROVE  /\ pc[c] = "sent" /\ pc' = [pc EXCEPT ![c] = "done"] /\ saves' = Append(saves, c)
         /\ UNCHANGED <<req, loaded, seen>>
         /\ row'.exists
         /\ \/ /\ OnlyBrought(row'.config.timeline)
               /\ \/ req[c].op \in Replacing
                  \/ req[c].op = "create" /\ saves = <<>>
            \/ \E e : e.by = c /\ row'.config.timeline =
                                    Append(LastKept(loaded[c].config.timeline), e)
<1>0. row \in Rows /\ loaded[c].config \in Configs /\ req[c] \in RequestType
  BY DEF HealthInv, TypeOK, Rows
<1>1. /\ pc[c] = "sent" /\ pc' = [pc EXCEPT ![c] = "done"] /\ saves' = Append(saves, c)
      /\ UNCHANGED <<req, loaded, seen>>
  BY DEF RowStep, Saving, CreateConnection, ActivateConnection, VerifyConnection,
         UpdateAlertThresholds, SuppressHealthAlert, UnsuppressHealthAlert,
         AcknowledgeHealthAlert, AddRecoveryNote, AssignHealthFollowUp,
         RecordFollowUpNotification, UpdateFollowUpState, SaveSetupDraft, RecordDiagnosticRun,
         RecordRunOfAnother
<1>2. ASSUME NEW facet, NEW status
      PROVE  \E e : e.by = c /\ Recorded(c, facet, status).timeline =
                                  Append(LastKept(loaded[c].config.timeline), e)
  <2> DEFINE e == [type |-> facet, status |-> status, at |-> stamp[c], by |-> c]
  <2>1. Recorded(c, facet, status).timeline = Append(LastKept(loaded[c].config.timeline), e)
    BY <1>0 DEF Recorded, Configs
  <2>2. e.by = c
    OBVIOUS
  <2> HIDE DEF e
  <2> QED
    BY <2>1, <2>2
<1>3. CASE CreateConnection(c)
  <2>1. req[c].platform \in Platforms /\ req[c].op = "create" /\ ~row.exists
    BY <1>0, <1>3 DEF CreateConnection, Saving, RequestType
  <2>2. row' = NewRow(req[c].setup, req[c].platform)
    BY <1>3 DEF CreateConnection
  <2>3. row'.exists /\ OnlyBrought(row'.config.timeline)
    <3>1. row'.exists
      BY <2>2 DEF NewRow
    <3>2. /\ row'.config.timeline = req[c].platform.timeline
          /\ \A k \in DOMAIN req[c].platform.timeline :
               req[c].platform.timeline[k].by = NoCall
      BY <2>1, <2>2, NewRowSound
    <3> QED
      BY <3>1, <3>2 DEF OnlyBrought
  <2> QED
    BY <1>1, <2>1, <2>3 DEF CreatedFirst
<1>4. ASSUME row'.exists, row'.config = EmptyConfig, req[c].op \in Replacing
      PROVE  row'.exists /\ OnlyBrought(row'.config.timeline) /\ req[c].op \in Replacing
  BY <1>4 DEF EmptyConfig, OnlyBrought
<1>5. CASE SaveSetupDraft(c) \/ RecordDiagnosticRun(c) \/ RecordRunOfAnother(c)
  <2>1. req[c].op \in Replacing
    BY <1>5 DEF SaveSetupDraft, RecordDiagnosticRun, RecordRunOfAnother, Saving, Replacing
  <2>2. row'.exists /\ row'.config = EmptyConfig
    BY <1>0, <1>5 DEF SaveSetupDraft, RecordDiagnosticRun, RecordRunOfAnother, TakenByRun, Rows
  <2> QED
    BY <1>1, <1>4, <2>1, <2>2
\* The others append.
<1>6. ASSUME req[c].op \notin Upserts, NEW facet, NEW status, NEW cfg,
             cfg.timeline = Recorded(c, facet, status).timeline,
             row'.exists = row.exists, row'.config = cfg
      PROVE  /\ row'.exists
             /\ \E e : e.by = c /\ row'.config.timeline =
                                     Append(LastKept(loaded[c].config.timeline), e)
  BY <1>1, <1>2, <1>6 DEF CreatedFirst
<1>7. CASE ActivateConnection(c)
  <2>1. /\ row'.exists = row.exists /\ row'.config = Recorded(c, "activation", "active")
        /\ req[c].op \notin Upserts
    BY <1>0, <1>7 DEF ActivateConnection, Saving, Upserts, Rows
  <2> QED
    BY <1>1, <1>6, <2>1
<1>8. CASE VerifyConnection(c)
  <2> DEFINE st == IF Setup(loaded[c]) = Checks THEN "verified" ELSE "needs-setup"
  <2>1. /\ row'.exists = row.exists /\ row'.config = Recorded(c, "verification", st)
        /\ req[c].op \notin Upserts
    BY <1>0, <1>8 DEF VerifyConnection, Saving, Upserts, Rows
  <2> HIDE DEF st
  <2> QED
    BY <1>1, <1>6, <2>1
<1>9. CASE UpdateAlertThresholds(c)
  <2> DEFINE rec == Recorded(c, "alert-thresholds", "noted")
             cfg == [rec EXCEPT !.thresholds = NextThresholds(c)]
  <2>1. rec \in Configs
    BY RecordedSound DEF Facets, Statuses
  <2>2. row' = [row EXCEPT !.config = cfg] /\ req[c].op \notin Upserts
    BY <1>9 DEF UpdateAlertThresholds, Saving, Upserts
  <2> HIDE DEF rec
  <2>3. cfg.timeline = rec.timeline
    BY <2>1 DEF Configs
  <2> HIDE DEF cfg
  <2>4. row'.exists = row.exists /\ row'.config = cfg
    BY <1>0, <2>2 DEF Rows
  <2> QED
    BY <1>1, <1>6, <2>2, <2>3, <2>4 DEF rec
<1>10. CASE SuppressHealthAlert(c) \/ UnsuppressHealthAlert(c)
  <2> DEFINE rec == Recorded(c, "suppression", "noted")
  <2>1. rec \in Configs
    BY RecordedSound DEF Facets, Statuses
  <2>2. /\ \E until : row' = [row EXCEPT !.config = [rec EXCEPT !.until = until]]
        /\ req[c].op \notin Upserts
    BY <1>10 DEF SuppressHealthAlert, UnsuppressHealthAlert, Saving, Upserts
  <2> HIDE DEF rec
  <2>3. PICK until : row' = [row EXCEPT !.config = [rec EXCEPT !.until = until]]
    BY <2>2
  <2> DEFINE cfg == [rec EXCEPT !.until = until]
  <2>4. cfg.timeline = rec.timeline
    BY <2>1 DEF Configs
  <2> HIDE DEF cfg
  <2>5. row'.exists = row.exists /\ row'.config = cfg
    BY <1>0, <2>3 DEF Rows, cfg
  <2>6. req[c].op \notin Upserts /\ cfg.timeline = Recorded(c, "suppression", "noted").timeline
    BY <2>2, <2>4 DEF rec
  <2> HIDE DEF cfg
  <2> QED
    BY <1>1, <1>6, <2>5, <2>6
<1>11. CASE \/ AcknowledgeHealthAlert(c) \/ AddRecoveryNote(c) \/ AssignHealthFollowUp(c)
            \/ RecordFollowUpNotification(c) \/ UpdateFollowUpState(c)
  <2>1. (\E facet \in Facets : Note(c, facet)) /\ req[c].op \notin Upserts
    BY <1>11 DEF AcknowledgeHealthAlert, AddRecoveryNote, AssignHealthFollowUp,
                 RecordFollowUpNotification, UpdateFollowUpState, Facets, Saving, Upserts
  <2>2. PICK facet \in Facets : Note(c, facet)
    BY <2>1
  <2>3. row'.exists = row.exists /\ row'.config = Recorded(c, facet, "noted")
    BY <1>0, <2>2 DEF Note, Rows
  <2> QED
    BY <1>1, <1>6, <2>1, <2>3
<1> QED
  BY <1>3, <1>5, <1>7, <1>8, <1>9, <1>10, <1>11 DEF RowStep

\* What LastKept drops is followed by Keep entries or more.
LEMMA DroppedIsOld ==
  ASSUME NEW tl \in Seq(Entries), NEW k \in DOMAIN tl, k + Len(LastKept(tl)) <= Len(tl)
  PROVE  Len(tl) - k >= Keep
<1>1. Len(tl) \in Nat /\ Keep \in Nat \ {0} /\ k \in 1 .. Len(tl)
  BY ConnectionConstants
<1>2. CASE Len(tl) <= Keep
  BY <1>1, <1>2 DEF LastKept
<1>3. CASE Len(tl) > Keep
  <2> DEFINE m == Len(tl) - Keep + 1
  <2>1. m \in Int /\ Len(tl) \in Int /\ \A i \in m .. Len(tl) : tl[i] \in Entries
    BY <1>1, <1>3
  <2>2. LastKept(tl) = SubSeq(tl, m, Len(tl))
    BY <1>1, <1>3 DEF LastKept
  <2>3. Len(LastKept(tl)) = Keep
    BY <1>1, <1>3, <2>1, <2>2, SubSeqProperties
  <2> QED
    BY <1>1, <2>3
<1> QED
  BY <1>1, <1>2, <1>3

LEMMA InitTimeline == Init => TimelineInv
<1> SUFFICES ASSUME Init PROVE TimelineInv
  OBVIOUS
<1>1. HealthInv
  BY InitHealth
<1>2. saves = <<>> /\ Len(saves) = 0 /\ DOMAIN saves = {} /\ \A c \in Calls : pc[c] = "idle"
  BY DEF Init
<1>3. row.config.timeline = <<>>
  BY NoRowSound, NewRowSound, NothingBrought DEF Init, NoPlatform
<1>4. SavedOnce /\ CreatedFirst
  BY <1>2 DEF SavedOnce, Saved, CreatedFirst
<1>5. Follows(row.config.timeline, Len(saves))
  BY <1>2, <1>3 DEF Follows, Late, Covers
<1> QED
  BY <1>1, <1>2, <1>4, <1>5 DEF TimelineInv

\* Call c makes the n-th write.  It appends to the timeline T it had read after m
\* writes, of which it drops d entries, and that makes tl.
Appends(c, T, tl, d, len, m, n) ==
  /\ Len(T) = len + d /\ DOMAIN T = 1 .. len + d
  /\ DOMAIN tl = 1 .. len + 1 /\ Len(tl) = len + 1 /\ tl[len + 1].by = c
  /\ \A k \in 1 .. len : tl[k] = T[k + d]
  /\ \A k \in 1 .. len + d : k <= d => len + d - k >= Keep
  /\ m < n /\ seen[c] = m /\ Late(T, m) /\ Covers(T, m)
  /\ DOMAIN saves = 1 .. n - 1 /\ DOMAIN saves' = 1 .. n /\ saves'[n] = c
  /\ \A k \in 1 .. n - 1 : saves'[k] = saves[k] /\ saves[k] # NoCall

\* It keeps what it covers, but for what was written since it read and what is dropped.
LEMMA AppendCovers ==
  ASSUME NEW c \in Calls, NEW T, NEW tl, NEW d \in Nat, NEW len \in Nat,
         NEW m \in Nat, NEW n \in Nat \ {0},
         Appends(c, T, tl, d, len, m, n), UNCHANGED <<req, seen>>, SavedOnce
  PROVE  (Late(tl, n) /\ Covers(tl, n))'
<1> USE DEF Appends
<1>1. Keep \in Nat
  BY ConnectionConstants
<1>0. ASSUME NEW k \in 1 .. len + d, T[k].by # NoCall
      PROVE  \E j \in 1 .. n - 1 : saves[j] = T[k].by /\ j + (len + d - k) <= m
  <2>1. PICK j \in 1 .. n - 1 : saves[j] = T[k].by /\ j + (Len(T) - k) <= m
    BY <1>0, Zenon DEF Late
  <2>2. j + (len + d - k) <= m
    BY <2>1
  <2> QED
    BY <2>1, <2>2
<1>2. Late(tl, n)'
  <2>1. ASSUME NEW k \in 1 .. len, tl[k].by # NoCall
        PROVE  \E j \in 1 .. n : saves'[j] = tl[k].by /\ j + (len + 1 - k) <= n
    <3>0. k + d \in 1 .. len + d /\ tl[k] = T[k + d]
      OBVIOUS
    <3>1. \E j \in 1 .. n - 1 : saves[j] = T[k + d].by /\ j + (len + d - (k + d)) <= m
      BY <1>0, <2>1, <3>0
    <3>2. PICK j \in 1 .. n - 1 : saves[j] = T[k + d].by /\ j + (len + d - (k + d)) <= m
      BY <3>1
    <3>3. j \in 1 .. n /\ saves'[j] = tl[k].by
      BY <3>0, <3>2
    <3>4. j + (len + 1 - k) <= n
      BY <3>2
    <3> QED
      BY <3>3, <3>4
  <2>2. n \in 1 .. n /\ saves'[n] = tl[len + 1].by /\ n + (len + 1 - (len + 1)) <= n
    OBVIOUS
  <2>3. ASSUME NEW k \in 1 .. len + 1, tl[k].by # NoCall
        PROVE  \E j \in 1 .. n : saves'[j] = tl[k].by /\ j + (len + 1 - k) <= n
    <3>1. k \in 1 .. len \/ k = len + 1
      OBVIOUS
    <3> QED
      BY <2>1, <2>2, <2>3, <3>1
  <2>4. \A k \in DOMAIN tl : tl[k].by # NoCall =>
          \E j \in DOMAIN saves' : saves'[j] = tl[k].by /\ j + (Len(tl) - k) <= n
    <3> SUFFICES ASSUME NEW k \in 1 .. len + 1, tl[k].by # NoCall
                 PROVE  \E j \in 1 .. n : saves'[j] = tl[k].by /\ j + (Len(tl) - k) <= n
      OBVIOUS
    <3>1. PICK j \in 1 .. n : saves'[j] = tl[k].by /\ j + (len + 1 - k) <= n
      BY <2>3
    <3>2. j + (Len(tl) - k) <= n
      BY <3>1
    <3> QED
      BY <3>1, <3>2
  <2> QED
    BY <2>4, Zenon DEF Late
<1>3. Covers(tl, n)'
  <2> SUFFICES ASSUME NEW i \in 1 .. n
               PROVE  \/ \E k \in DOMAIN tl : tl[k].by = saves'[i]
                      \/ req[saves'[i]].op \in Replacing \cup {"create"}
                      \/ \E j \in i + 1 .. n : \/ seen[saves'[j]] < i
                                               \/ req[saves'[j]].op \in Replacing
                      \/ n - i > Keep
    BY DEF Covers
  <2>1. CASE i = n
    <3>1. len + 1 \in DOMAIN tl /\ tl[len + 1].by = saves'[i]
      BY <2>1
    <3> QED
      BY <3>1
  <2>2. CASE i < n /\ m < i
    <3>1. n \in i + 1 .. n /\ seen[saves'[n]] < i
      BY <2>2
    <3> QED
      BY <3>1
  <2>3. CASE i <= m
    <3>1. i \in 1 .. m /\ i \in 1 .. n - 1 /\ saves'[i] = saves[i]
      BY <2>3
    <3>2. \/ \E k \in DOMAIN T : T[k].by = saves[i]
          \/ req[saves[i]].op \in Replacing \cup {"create"}
          \/ \E j \in i + 1 .. m : \/ seen[saves[j]] < i
                                   \/ req[saves[j]].op \in Replacing
          \/ m - i > Keep
      BY <3>1 DEF Covers
    <3>3. ASSUME NEW k \in 1 .. len + d, T[k].by = saves[i]
          PROVE  (\E b \in DOMAIN tl : tl[b].by = saves'[i]) \/ n - i > Keep
      <4>1. CASE k > d
        <5>1. k - d \in 1 .. len /\ (k - d) + d = k
          BY <4>1
        <5>2. k - d \in DOMAIN tl /\ tl[k - d] = T[k]
          BY <5>1
        <5> QED
          BY <3>1, <3>3, <5>2
      <4>2. CASE k <= d
        <5>0. T[k].by # NoCall
          BY <3>1, <3>3
        <5>1. \E j \in 1 .. n - 1 : saves[j] = T[k].by /\ j + (len + d - k) <= m
          BY <1>0, <5>0
        <5>2. PICK j \in 1 .. n - 1 : saves[j] = T[k].by /\ j + (len + d - k) <= m
          BY <5>1
        <5>3. j = i
          BY <3>1, <3>3, <5>2 DEF SavedOnce
        <5>4. len + d - k >= Keep
          BY <4>2
        <5> QED
          BY <1>1, <5>2, <5>3, <5>4
      <4> QED
        BY <4>1, <4>2
    <3>4. CASE req[saves[i]].op \in Replacing \cup {"create"}
      BY <3>1, <3>4
    <3>5. CASE \E j \in i + 1 .. m : \/ seen[saves[j]] < i
                                     \/ req[saves[j]].op \in Replacing
      <4> PICK j \in i + 1 .. m : \/ seen[saves[j]] < i
                                  \/ req[saves[j]].op \in Replacing
        BY <3>5
      <4>1. j \in i + 1 .. n /\ saves'[j] = saves[j]
        BY <3>1
      <4> QED
        BY <4>1
    <3>6. CASE m - i > Keep
      BY <1>1, <3>6
    <3> QED
      BY <3>2, <3>3, <3>4, <3>5, <3>6
  <2> QED
    BY <2>1, <2>2, <2>3
<1> QED
  BY <1>2, <1>3

LEMMA AppendFollows ==
  ASSUME TimelineInv, NEW c \in Calls, pc[c] = "sent",
         saves' = Append(saves, c), UNCHANGED <<req, seen>>,
         NEW e, e.by = c, NEW T, T = loaded[c].config.timeline,
         NEW tl, tl = Append(LastKept(T), e), NEW n, n = Len(saves) + 1
  PROVE  Follows(tl, n)'
<1> DEFINE kept == LastKept(T)
<1>1. /\ saves \in Seq(Calls) /\ Len(saves) \in Nat /\ DOMAIN saves = 1 .. Len(saves)
      /\ n \in Nat \ {0} /\ Len(saves) = n - 1
  BY DEF TimelineInv, HealthInv, TypeOK
<1>2. T \in Seq(Entries) /\ Len(T) \in Nat /\ DOMAIN T = 1 .. Len(T)
  BY DEF TimelineInv, HealthInv, TypeOK, Rows, Configs
<1>3. /\ kept \in Seq(Entries) /\ Len(kept) \in Nat /\ Len(kept) <= Len(T)
      /\ DOMAIN kept = 1 .. Len(kept)
      /\ \A i \in 1 .. Len(kept) : kept[i] = T[i + (Len(T) - Len(kept))]
  BY <1>2, KeptIsTheEnd
<1>4. \A k \in 1 .. Len(T) : k + Len(kept) <= Len(T) => Len(T) - k >= Keep
  BY <1>2, DroppedIsOld
<1> HIDE DEF kept
<1>5. PICK len \in Nat : len = Len(kept)
  BY <1>3
<1>6. PICK d \in Nat : Len(T) = len + d
  <2>1. Len(T) - len \in Nat /\ Len(T) = len + (Len(T) - len)
    BY <1>2, <1>3, <1>5
  <2> QED
    BY <2>1
<1>7. PICK m \in Nat : m = seen[c] /\ m < n /\ Late(T, m) /\ Covers(T, m)
  BY <1>1 DEF TimelineInv, HealthInv, TypeOK, Follows
<1>8. /\ Len(saves') = n /\ DOMAIN saves' = 1 .. n /\ saves'[n] = c
      /\ \A i \in 1 .. n - 1 : saves'[i] = saves[i] /\ saves[i] # NoCall
  <2> DEFINE longer == Append(saves, c)
  <2>1. /\ Len(longer) = Len(saves) + 1 /\ DOMAIN longer = 1 .. Len(saves) + 1
        /\ longer[Len(saves) + 1] = c
        /\ \A i \in 1 .. Len(saves) : longer[i] = saves[i]
    BY <1>1, AppendFacts
  <2>2. saves' = longer
    OBVIOUS
  <2>3. \A i \in 1 .. Len(saves) : saves[i] # NoCall
    BY <1>1, ConnectionConstants
  <2> HIDE DEF longer
  <2> QED
    BY <1>1, <2>1, <2>2, <2>3
<1>9. /\ Len(tl) = len + 1 /\ DOMAIN tl = 1 .. len + 1 /\ tl[len + 1] = e
      /\ \A i \in 1 .. len : tl[i] = kept[i]
  <2>1. kept \in Seq(Entries \cup {e}) /\ e \in Entries \cup {e}
    BY <1>3
  <2>2. tl = Append(kept, e)
    BY DEF kept
  <2> QED
    BY <1>3, <1>5, <2>1, <2>2, AppendProperties
<1>10. \A i \in 1 .. len : tl[i] = T[i + d]
  <2>1. Len(T) - len = d
    BY <1>6
  <2> QED
    BY <1>3, <1>5, <1>9, <2>1
<1>11. \A k \in 1 .. len + d : k <= d => len + d - k >= Keep
  <2>1. \A k \in 1 .. len + d : k + len <= len + d => len + d - k >= Keep
    BY <1>4, <1>5, <1>6
  <2> QED
    BY <2>1
<1>12. DOMAIN T = 1 .. len + d /\ DOMAIN saves = 1 .. n - 1 /\ tl[len + 1].by = c
  BY <1>1, <1>2, <1>6, <1>9
<1>13. SavedOnce
  BY DEF TimelineInv
<1>14. (Late(tl, n) /\ Covers(tl, n))'
  <2>1. /\ Len(T) = len + d /\ DOMAIN T = 1 .. len + d
        /\ DOMAIN tl = 1 .. len + 1 /\ Len(tl) = len + 1 /\ tl[len + 1].by = c
    BY <1>6, <1>9, <1>12
  <2>2. /\ n \in Nat \ {0} /\ m < n /\ seen[c] = m /\ Late(T, m) /\ Covers(T, m)
        /\ DOMAIN saves = 1 .. n - 1
    BY <1>1, <1>7, <1>12
  <2>3. /\ DOMAIN saves' = 1 .. n /\ saves'[n] = c
        /\ \A k \in 1 .. n - 1 : saves'[k] = saves[k] /\ saves[k] # NoCall
    BY <1>8
  <2>4. Appends(c, T, tl, d, len, m, n)
    BY <1>10, <1>11, <2>1, <2>2, <2>3, Zenon DEF Appends
  <2> QED
    BY <1>13, <2>2, <2>4, AppendCovers
<1>15. n <= Len(saves')
  BY <1>1, <1>8
<1> QED
  BY <1>14, <1>15 DEF Follows

\* A call that throws the timeline away covers everything.
LEMMA EmptyFollows ==
  ASSUME TimelineInv, NEW c \in Calls, saves' = Append(saves, c), UNCHANGED req,
         req[c].op \in Replacing \/ (req[c].op = "create" /\ saves = <<>>),
         NEW tl, OnlyBrought(tl), NEW n, n = Len(saves) + 1
  PROVE  Follows(tl, n)'
<1>1. saves \in Seq(Calls) /\ Len(saves) \in Nat
  BY DEF TimelineInv, HealthInv, TypeOK
<1>2. Len(saves') = n /\ saves'[n] = c /\ n \in Nat
  <2> DEFINE longer == Append(saves, c)
  <2>1. Len(longer) = Len(saves) + 1 /\ longer[Len(saves) + 1] = c
    BY <1>1, AppendFacts
  <2>2. saves' = longer
    OBVIOUS
  <2> HIDE DEF longer
  <2> QED
    BY <1>1, <2>1, <2>2
<1>3. Late(tl, n)'
  BY DEF Late, OnlyBrought
<1>4. Covers(tl, n)'
  <2> SUFFICES ASSUME NEW i \in 1 .. n
               PROVE  \/ req[saves'[i]].op \in Replacing \cup {"create"}
                      \/ \E j \in i + 1 .. n : req[saves'[j]].op \in Replacing
    BY DEF Covers
  <2>1. CASE i = n
    BY <1>2, <2>1
  <2>2. CASE i < n /\ saves # <<>>
    <3>1. n \in i + 1 .. n /\ req[saves'[n]].op \in Replacing
      BY <1>2, <2>2
    <3> QED
      BY <3>1
  <2>3. CASE i < n /\ saves = <<>>
    BY <1>2, <2>3
  <2> QED
    BY <1>2, <2>1, <2>2, <2>3
<1> QED
  BY <1>2, <1>3, <1>4 DEF Follows

LEMMA RowStepKeeps ==
  ASSUME TimelineInv, NEW c \in Calls, RowStep(c)
  PROVE  TimelineInv'
<1>1. /\ pc[c] = "sent" /\ pc' = [pc EXCEPT ![c] = "done"] /\ saves' = Append(saves, c)
      /\ UNCHANGED <<req, loaded, seen>>
      /\ row'.exists
      /\ \/ /\ OnlyBrought(row'.config.timeline)
            /\ \/ req[c].op \in Replacing
               \/ req[c].op = "create" /\ saves = <<>>
         \/ \E e : e.by = c /\ row'.config.timeline =
                                 Append(LastKept(loaded[c].config.timeline), e)
  BY RowStepTimeline DEF TimelineInv
<1>2. HealthInv'
  BY RowStepHealth DEF TimelineInv
<1>3. TypeOK /\ SavedOnce /\ CreatedFirst /\ saves \in Seq(Calls) /\ Len(saves) \in Nat
  BY DEF TimelineInv, HealthInv, TypeOK
<1>4. pc \in [Calls -> {"idle", "loaded", "sent", "done", "refused"}]
  BY <1>3 DEF TypeOK
<1>5. /\ Len(saves') = Len(saves) + 1 /\ DOMAIN saves' = 1 .. Len(saves) + 1
      /\ saves'[Len(saves) + 1] = c
      /\ \A i \in 1 .. Len(saves) : saves'[i] = saves[i]
  <2> DEFINE longer == Append(saves, c)
  <2>1. /\ Len(longer) = Len(saves) + 1 /\ DOMAIN longer = 1 .. Len(saves) + 1
        /\ longer[Len(saves) + 1] = c
        /\ \A i \in 1 .. Len(saves) : longer[i] = saves[i]
    BY <1>3, AppendFacts
  <2>2. saves' = longer
    BY <1>1
  <2> HIDE DEF longer
  <2> QED
    BY <2>1, <2>2
<1>6. SavedOnce'
  <2>1. \A i \in 1 .. Len(saves) : saves[i] # c /\ pc[saves[i]] = "done" /\ saves[i] \in Calls
    BY <1>1, <1>3 DEF SavedOnce, Saved
  <2>2. ASSUME NEW i \in 1 .. Len(saves) + 1, NEW j \in 1 .. Len(saves) + 1,
               saves'[i] = saves'[j]
        PROVE  i = j
    <3>1. CASE i \in 1 .. Len(saves) /\ j \in 1 .. Len(saves)
      BY <1>3, <1>5, <2>2, <3>1 DEF SavedOnce
    <3>2. CASE i = Len(saves) + 1 \/ j = Len(saves) + 1
      BY <1>3, <1>5, <2>1, <2>2, <3>2
    <3> QED
      BY <1>3, <3>1, <3>2
  <2>3. ASSUME NEW i \in 1 .. Len(saves) + 1
        PROVE  pc'[saves'[i]] = "done"
    <3>1. CASE i \in 1 .. Len(saves)
      BY <1>1, <1>4, <1>5, <2>1, <3>1
    <3>2. CASE i = Len(saves) + 1
      BY <1>1, <1>4, <1>5, <3>2
    <3> QED
      BY <1>3, <3>1, <3>2
  <2> QED
    BY <1>5, <2>2, <2>3 DEF SavedOnce, Saved
<1>7. CreatedFirst'
  BY <1>1 DEF CreatedFirst
<1>8. \A b \in Calls : Saved(b) => req'[b] = req[b] /\ seen'[b] = seen[b]
  BY <1>1
<1>9. Follows(row.config.timeline, Len(saves))'
  <2>1. PICK n : n = Len(saves) + 1
    OBVIOUS
  <2>2. CASE /\ OnlyBrought(row'.config.timeline)
             /\ \/ req[c].op \in Replacing
                \/ req[c].op = "create" /\ saves = <<>>
    <3>1. PICK tl : tl = row'.config.timeline
      OBVIOUS
    <3>2. OnlyBrought(tl)
      BY <2>2, <3>1
    <3>3. Follows(tl, n)'
      BY <1>1, <2>1, <2>2, <3>2, EmptyFollows
    <3> QED
      BY <1>5, <2>1, <3>1, <3>3
  <2>3. CASE \E e : e.by = c /\ row'.config.timeline =
                                  Append(LastKept(loaded[c].config.timeline), e)
    <3>1. PICK e : e.by = c /\ row'.config.timeline =
                                 Append(LastKept(loaded[c].config.timeline), e)
      BY <2>3
    <3>2. PICK T : T = loaded[c].config.timeline
      OBVIOUS
    <3>3. PICK tl : tl = Append(LastKept(T), e)
      OBVIOUS
    <3>4. Follows(tl, n)'
      BY <1>1, <2>1, <3>1, <3>2, <3>3, AppendFollows
    <3> QED
      BY <1>5, <2>1, <3>1, <3>2, <3>3, <3>4
  <2> QED
    BY <1>1, <2>2, <2>3
<1>10. ASSUME NEW b \in Calls, pc'[b] \in {"loaded", "sent"}
       PROVE  Follows(loaded[b].config.timeline, seen[b])'
  <2>1. pc[b] \in {"loaded", "sent"} /\ loaded'[b] = loaded[b] /\ seen'[b] = seen[b]
    BY <1>1, <1>4, <1>10
  <2>2. PICK tl : tl = loaded[b].config.timeline
    OBVIOUS
  <2>3. PICK n \in Nat : n = seen[b]
    BY <1>3 DEF TypeOK
  <2>4. Follows(tl, n)
    BY <2>1, <2>2, <2>3 DEF TimelineInv
  <2>5. Follows(tl, n)'
    BY <1>1, <1>3, <1>8, <2>4, FollowsStays
  <2> QED
    BY <2>1, <2>2, <2>3, <2>5
<1> QED
  BY <1>2, <1>6, <1>7, <1>9, <1>10 DEF TimelineInv

\* A step that writes no row: what follows goes on following.
LEMMA OtherStepKeeps ==
  ASSUME TimelineInv, HealthInv', UNCHANGED <<row, saves>>, NEW c \in Calls,
         \A b \in Calls \ {c} : /\ pc'[b] = pc[b] /\ req'[b] = req[b]
                                /\ loaded'[b] = loaded[b] /\ seen'[b] = seen[b],
         pc[c] = "idle" \/ (req'[c] = req[c] /\ seen'[c] = seen[c] /\ loaded'[c] = loaded[c]),
         pc[c] # "done" \/ pc'[c] = "done",
         pc'[c] \in {"loaded", "sent"} =>
           \/ pc[c] \in {"loaded", "sent"}
           \/ /\ loaded'[c] = row /\ seen'[c] = Len(saves)
              /\ req'[c].op \in Upserts \/ row.exists
  PROVE  TimelineInv'
<1>1. TypeOK /\ SavedOnce /\ CreatedFirst /\ saves \in Seq(Calls) /\ Len(saves) \in Nat
  BY DEF TimelineInv, HealthInv, TypeOK
<1>2. \A b \in Calls : Saved(b) => /\ pc'[b] = "done" /\ req'[b] = req[b]
                                   /\ seen'[b] = seen[b]
  BY <1>1 DEF SavedOnce
<1>3. SavedOnce'
  BY <1>1, <1>2 DEF SavedOnce, Saved
<1>4. CreatedFirst'
  BY <1>1 DEF CreatedFirst
<1>5. ASSUME NEW tl, NEW n \in Nat, Follows(tl, n) PROVE Follows(tl, n)'
  BY <1>1, <1>2, <1>5, FollowsStays
<1>6. PICK tl : tl = row.config.timeline
  OBVIOUS
<1>7. PICK n \in Nat : n = Len(saves)
  BY <1>1
<1>8. Follows(tl, n)'
  BY <1>5, <1>6, <1>7 DEF TimelineInv
<1>9. Follows(row.config.timeline, Len(saves))'
  BY <1>6, <1>7, <1>8
<1>10. ASSUME NEW b \in Calls, pc'[b] \in {"loaded", "sent"}
       PROVE  Follows(loaded[b].config.timeline, seen[b])'
  <2>1. CASE pc[b] \in {"loaded", "sent"}
    <3>1. loaded'[b] = loaded[b] /\ seen'[b] = seen[b]
      BY <2>1
    <3>2. PICK t : t = loaded[b].config.timeline
      OBVIOUS
    <3>3. PICK k \in Nat : k = seen[b]
      BY <1>1 DEF TypeOK
    <3>4. Follows(t, k)'
      BY <1>5, <2>1, <3>2, <3>3 DEF TimelineInv
    <3> QED
      BY <3>1, <3>2, <3>3, <3>4
  <2>2. CASE loaded'[b] = row /\ seen'[b] = Len(saves)
    BY <1>6, <1>7, <1>8, <2>2
  <2> QED
    BY <1>10, <2>1, <2>2
<1> QED
  BY <1>3, <1>4, <1>9, <1>10 DEF TimelineInv

LEMMA StepTimeline ==
  ASSUME TimelineInv, [Next]_vars
  PROVE  TimelineInv'
<1>1. HealthInv'
  BY StepHealth DEF TimelineInv
<1>2. /\ pc \in [Calls -> {"idle", "loaded", "sent", "done", "refused"}]
      /\ req \in [Calls -> RequestType] /\ loaded \in [Calls -> Rows]
      /\ seen \in [Calls -> Nat]
  BY DEF TimelineInv, HealthInv, TypeOK
<1>3. ASSUME NEW c \in Calls, Load(c) PROVE TimelineInv'
  <2> PICK r \in Asks[c] :
         /\ req' = [req EXCEPT ![c] = r]
         /\ IF Malformed(r) \/ (~row.exists /\ r.op \notin Upserts)
              THEN Refuse(c) /\ UNCHANGED <<loaded, seen>>
              ELSE /\ pc' = [pc EXCEPT ![c] = "loaded"]
                   /\ loaded' = [loaded EXCEPT ![c] = row]
                   /\ seen' = [seen EXCEPT ![c] = Len(saves)]
    BY <1>3 DEF Load
  <2>1. UNCHANGED <<row, saves>> /\ pc[c] = "idle" /\ req'[c] = r
    BY <1>2, <1>3 DEF Load
  <2>2. /\ \A b \in Calls \ {c} : /\ pc'[b] = pc[b] /\ req'[b] = req[b]
                                  /\ loaded'[b] = loaded[b] /\ seen'[b] = seen[b]
        /\ pc'[c] \in {"loaded", "sent"} =>
             /\ loaded'[c] = row /\ seen'[c] = Len(saves)
             /\ req'[c].op \in Upserts \/ row.exists
    BY <1>2, <2>1 DEF Refuse
  <2> QED
    BY <1>1, <2>1, <2>2, OtherStepKeeps
<1>4. ASSUME NEW c \in Calls, Send(c) \/ CreateRefused(c) PROVE TimelineInv'
  <2>1. /\ UNCHANGED <<row, saves, req, loaded, seen>> /\ pc[c] \in {"loaded", "sent"}
        /\ \A b \in Calls \ {c} : pc'[b] = pc[b]
    BY <1>2, <1>4 DEF Send, CreateRefused, Refuse
  <2> QED
    BY <1>1, <2>1, OtherStepKeeps
<1>5. CASE UNCHANGED <<row, pc, req, loaded, saves, seen>>
  <2>1. CASE Calls = {}
    BY <1>1, <1>5, <2>1 DEF TimelineInv, SavedOnce, Saved, CreatedFirst, Follows, Late, Covers
  <2>2. ASSUME NEW c \in Calls PROVE TimelineInv'
    BY <1>1, <1>2, <1>5, OtherStepKeeps
  <2> QED
    BY <2>1, <2>2
<1>6. CASE Tick \/ UNCHANGED vars
  BY <1>5, <1>6 DEF Tick, vars
<1> QED
  BY <1>3, <1>4, <1>6, RowStepKeeps DEF Next, RowStep

LEMMA TimelineSafety == Spec => []TimelineInv
BY InitTimeline, StepTimeline, PTL DEF Spec

(***************************************************************************)
(* The theorems.                                                           *)
(***************************************************************************)

\* A connection's row is always well typed, whatever calls overlap: in particular no
\* suppression an operator asks for ends before the epoch.
THEOREM TypeCorrect == Spec => []TypeOK
BY HealthSafety, PTL DEF HealthInv

\* ConnectionInstancesService: whatever calls overlap, each facet of the JSON is the one
\* the latest timeline entry of its kind announces.
THEOREM FacetSafety == Spec => []FacetsMatchTimeline
<1>1. HealthInv => FacetsMatchTimeline
  BY DEF HealthInv, Sound, FacetsMatchTimeline
<1> QED
  BY <1>1, HealthSafety, PTL

\* The timeline and the diagnostics agree on what is escalated once an operator has set
\* the thresholds, whichever were asked for, and while nobody has.
THEOREM SurfaceSafety == Spec => []SurfacesAgree
<1>1. HealthInv => SurfacesAgree
  <2> SUFFICES ASSUME HealthInv,
                      \/ row.config.facet["alert-thresholds"] # NoCall
                      \/ row.config.thresholds = NoThresholds
               PROVE EscalationAgrees(row.config)
    BY DEF SurfacesAgree
  <2> DEFINE t == row.config.thresholds
             r == ResolveAlertThresholds(t)
             n == Cardinality(Failures(row.config.timeline))
  <2>1. row.config \in Configs /\ t \in Thresholds /\ (t = NoThresholds \/ Resolved(t))
    BY DEF HealthInv, TypeOK, Rows, Configs, Sound
  <2>2. n \in Nat
    <3>1. row.config.timeline \in Seq(Entries)
      BY <2>1 DEF Configs
    <3>2. Len(row.config.timeline) \in Nat
      BY <3>1
    <3>3. IsFiniteSet(1 .. Len(row.config.timeline))
      BY <3>2, FS_Interval
    <3>4. Failures(row.config.timeline) \in SUBSET (1 .. Len(row.config.timeline))
      BY <3>1 DEF Failures
    <3> QED
      BY <3>3, <3>4, FS_Subset, FS_CardinalityType
  <2>3. r.repeated = IF t = NoThresholds THEN DefaultRepeated ELSE t.repeated
    BY <2>1, ConnectionConstants
       DEF NoThresholds, Resolved, ResolveAlertThresholds, Larger, Thresholds
  <2>4. r \in Thresholds /\ Resolved(r)
    BY <2>1, ResolveResolves
  <2>5. n >= r.repeated => n >= r.immediate
    BY <2>2, <2>4 DEF Resolved, Thresholds
  <2>6. r.repeated = IF t.repeated = -1 THEN DefaultRepeated ELSE t.repeated
    BY <2>1, <2>3 DEF NoThresholds, Resolved, Thresholds
  <2> QED
    BY <2>5, <2>6 DEF EscalationAgrees, ShouldEscalateOperator, ShouldAlertOperator,
                      AlertsAt, DiagnosticsEscalate
<1> QED
  BY <1>1, HealthSafety, PTL

\* What the operator was told has been done is lost only to a call that read the row
\* before it, to a draft or a diagnostic run, or to more than Keep later events.
THEOREM OverlapSafety == Spec => []LostOnlyToOverlap
<1>1. TimelineInv => LostOnlyToOverlap
  <2> SUFFICES ASSUME TimelineInv PROVE LostOnlyToOverlap
    OBVIOUS
  <2>1. DOMAIN saves = 1 .. Len(saves)
    BY DEF TimelineInv, HealthInv, TypeOK
  <2>2. Covers(row.config.timeline, Len(saves))
    BY DEF TimelineInv, Follows
  <2> QED
    BY <2>1, <2>2 DEF Covers, LostOnlyToOverlap
<1> QED
  BY <1>1, TimelineSafety, PTL
=============================================================================
