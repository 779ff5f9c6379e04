-------------------------- MODULE OperationsProofs --------------------------
(***************************************************************************)
(* What is proved of the parts that work beside the channels: the alerts,  *)
(* the backups, the programme guide, the licence and the live panel.  They *)
(* share nothing; each has its invariant and its theorems, in a section of *)
(* its own.                                                                *)
(***************************************************************************)
EXTENDS Alerts, Backups, Epg, Licensing, LivePanel,
        FiniteSetTheorems, SequenceTheorems, TLAPS

-----------------------------------------------------------------------------
(***************************************************************************)
(* What is proved of the alerts: however samples overlap, notifications of *)
(* a kind are a cooldown apart.                                            *)
(*                                                                         *)
(* The argument: lastAlertAt is noted in the very step that publishes, so  *)
(* no alert that this life of the worker has raised, wherever it is by     *)
(* now, is later than what is noted for its kind.                          *)
(***************************************************************************)

\* The alerts that are still to be told or have been.
Raised == relay \cup {d.alert : d \in dispatched} \cup notifications

Spaced(a, b) == a.kind = b.kind /\ a.life = b.life /\ a.at < b.at => b.at - a.at >= Cooldown

\* What the worker remembers covers all that it has raised since it started.
Remembered(a, now, last) == a.life <= now /\ (a.life = now => a.at <= last[a.kind])

AlertsInv ==
    /\ AlertsTypeOK
    /\ \A k \in AlertKinds : lastAlertAt[k] <= clock
    /\ \A a \in Raised : Remembered(a, life, lastAlertAt)
    /\ \A a, b \in Raised : Spaced(a, b)

LEMMA Transitive ==
    ASSUME NEW x \in Int, NEW y \in Int, NEW z \in Int, x <= y, y <= z
    PROVE  x <= z
OBVIOUS

LEMMA AlertsStart == AlertsInit => AlertsInv
BY AlertsAssumption
   DEF AlertsInit, AlertsInv, AlertsTypeOK, Raised, Alert, LongAgo, NoSample

\* A step that raises nothing and leaves the worker's memory alone.
LEMMA NothingRaised ==
    ASSUME AlertsInv, AlertsTypeOK', Raised' \subseteq Raised,
           UNCHANGED <<life, lastAlertAt>>, clock <= clock'
    PROVE  AlertsInv'
<1>1. \A k \in AlertKinds : lastAlertAt'[k] <= clock'
    BY AlertsAssumption DEF AlertsInv, AlertsTypeOK, LongAgo
<1>2. \A a \in Raised' : Remembered(a, life', lastAlertAt')
    BY DEF AlertsInv
<1>3. \A a, b \in Raised' : Spaced(a, b)
    BY DEF AlertsInv
<1> QED
    BY <1>1, <1>2, <1>3 DEF AlertsInv

LEMMA MeasureKeeps ==
    ASSUME AlertsInv, NEW s \in Samples, Measure(s)
    PROVE  AlertsInv'
<1>1. AlertsTypeOK'
    BY DEF AlertsInv, AlertsTypeOK, Measure, NoSample
<1>2. Raised' = Raised
    BY DEF Measure, Raised
<1> QED
    BY <1>1, <1>2, NothingRaised DEF Measure, AlertsInv, AlertsTypeOK

LEMMA CheckKeeps ==
    ASSUME AlertsInv, NEW s \in Samples, CheckThresholds(s)
    PROVE  AlertsInv'
<1> DEFINE due == {k \in sample[s].todo : ~Cooling(k)}
<1>0. sample[s].todo \subseteq AlertKinds
    BY DEF AlertsInv, AlertsTypeOK
<1>1. CASE due = {} /\ sample' = [sample EXCEPT ![s] = NoSample] /\ UNCHANGED <<lastAlertAt, relay>>
    <2>1. AlertsTypeOK'
        BY <1>1 DEF AlertsInv, AlertsTypeOK, CheckThresholds, NoSample
    <2>2. Raised' = Raised
        BY <1>1 DEF CheckThresholds, Raised
    <2> QED
        BY <1>1, <2>1, <2>2, NothingRaised DEF CheckThresholds, AlertsInv, AlertsTypeOK
<1>2. CASE \E k \in due :
              /\ sample' = [sample EXCEPT ![s] =
                     [pc |-> "publish", todo |-> {j \in sample[s].todo : j > k}, kind |-> k]]
              /\ lastAlertAt' = Noted(k, FALSE)
              /\ relay' = relay \cup {[kind |-> k, at |-> clock, life |-> life]}
    <2> PICK k \in due :
              /\ sample' = [sample EXCEPT ![s] =
                     [pc |-> "publish", todo |-> {j \in sample[s].todo : j > k}, kind |-> k]]
              /\ lastAlertAt' = Noted(k, FALSE)
              /\ relay' = relay \cup {[kind |-> k, at |-> clock, life |-> life]}
        BY <1>2
    <2> DEFINE a == [kind |-> k, at |-> clock, life |-> life]
    <2>1. k \in AlertKinds /\ ~Cooling(k)
        BY <1>0
    <2>2. a \in Alert
        BY <2>1 DEF Alert, AlertsInv, AlertsTypeOK
    <2>3. lastAlertAt' = [lastAlertAt EXCEPT ![k] = clock]
        BY DEF Noted
    <2>4. UNCHANGED <<clock, life, dispatched, notifications>>
        BY DEF CheckThresholds
    <2>5. AlertsTypeOK'
        BY <1>0, <2>1, <2>2, <2>3, <2>4 DEF AlertsInv, AlertsTypeOK
    <2>6. Raised' = Raised \cup {a}
        BY <2>4 DEF Raised
    <2>7. \A b \in Raised : b \in Alert
        BY DEF Raised, AlertsInv, AlertsTypeOK
    <2>8. clock \in Int /\ life \in Int /\ Cooldown \in Int
          /\ \A j \in AlertKinds : lastAlertAt[j] \in Int /\ lastAlertAt[j] <= clock
        BY AlertsAssumption DEF AlertsInv, AlertsTypeOK, LongAgo
    <2>9. \A j \in AlertKinds : lastAlertAt'[j] <= clock' /\ lastAlertAt[j] <= lastAlertAt'[j]
        <3> SUFFICES ASSUME NEW j \in AlertKinds
                     PROVE  lastAlertAt'[j] <= clock' /\ lastAlertAt[j] <= lastAlertAt'[j]
            OBVIOUS
        <3>1. lastAlertAt'[j] = IF j = k THEN clock ELSE lastAlertAt[j]
            BY <2>3 DEF AlertsInv, AlertsTypeOK
        <3>2. lastAlertAt[j] \in Int /\ lastAlertAt[j] <= clock /\ clock \in Int
            BY <2>8
        <3>3. clock <= clock /\ lastAlertAt[j] <= lastAlertAt[j]
            BY <3>2
        <3>4. CASE j = k
            BY <2>4, <3>1, <3>2, <3>3, <3>4
        <3>5. CASE j # k
            BY <2>4, <3>1, <3>2, <3>3, <3>5
        <3> QED
            BY <3>4, <3>5
    <2>10. ASSUME NEW b \in Raised'
           PROVE  Remembered(b, life', lastAlertAt')
        <3>1. CASE b = a
            <4>1. b.kind = k /\ b.life = life /\ b.at = clock
                BY <3>1
            <4>2. lastAlertAt'[k] = clock
                BY <2>1, <2>3 DEF AlertsInv, AlertsTypeOK
            <4>3. life <= life /\ clock <= clock
                BY <2>8
            <4> HIDE DEF a
            <4> QED
                BY <2>4, <4>1, <4>2, <4>3 DEF Remembered
        <3>2. CASE b \in Raised
            <4>1. b.life <= life /\ (b.life = life => b.at <= lastAlertAt[b.kind])
                BY <3>2 DEF AlertsInv, Remembered
            <4>2. b.kind \in AlertKinds /\ b.at \in Int
                BY <2>7, <3>2 DEF Alert
            <4>3. lastAlertAt[b.kind] \in Int /\ lastAlertAt'[b.kind] \in Int
                BY <2>1, <2>3, <2>8, <4>2 DEF AlertsInv, AlertsTypeOK
            <4>4. lastAlertAt[b.kind] <= lastAlertAt'[b.kind]
                BY <2>9, <4>2
            <4>5. b.life = life => b.at <= lastAlertAt'[b.kind]
                BY <4>1, <4>2, <4>3, <4>4, Transitive
            <4> QED
                BY <2>4, <4>1, <4>5 DEF Remembered
        <3> QED
            BY <2>6, <3>1, <3>2
    <2>11. ASSUME NEW b \in Raised
           PROVE  Spaced(a, b) /\ Spaced(b, a)
        <3>1. b.kind \in AlertKinds /\ b.at \in Int /\ b.life \in Int
            BY <2>7 DEF Alert
        <3>2. b.kind = k /\ b.life = life => b.at <= lastAlertAt[k]
            BY DEF AlertsInv, Remembered
        <3>3. clock - lastAlertAt[k] >= Cooldown
            BY <2>1, <2>8 DEF Cooling
        <3>4. lastAlertAt[k] <= clock /\ lastAlertAt[k] \in Int
            BY <2>1, <2>8
        <3>5. a.kind = k /\ a.life = life /\ a.at = clock
            OBVIOUS
        <3> HIDE DEF a
        <3> QED
            BY <2>8, <3>1, <3>2, <3>3, <3>4, <3>5 DEF Spaced
    <2>12. Spaced(a, a)
        BY <2>8 DEF Spaced
    <2>13. \A b, c \in Raised' : Spaced(b, c)
        BY <2>6, <2>11, <2>12 DEF AlertsInv
    <2> QED
        BY <2>5, <2>9, <2>10, <2>13 DEF AlertsInv
<1> QED
    BY <1>1, <1>2 DEF CheckThresholds

LEMMA PublishedKeeps ==
    ASSUME AlertsInv, NEW s \in Samples, AlertPublished(s)
    PROVE  AlertsInv'
<1>1. AlertsTypeOK'
    BY DEF AlertsInv, AlertsTypeOK, AlertPublished, Noted
<1>2. Raised' = Raised
    BY DEF AlertPublished, Raised
<1> QED
    BY <1>1, <1>2, NothingRaised DEF AlertPublished, Noted, AlertsInv, AlertsTypeOK

\* A new life has raised nothing yet.
LEMMA WorkerRestartsKeeps ==
    ASSUME AlertsInv, WorkerRestarts
    PROVE  AlertsInv'
<1>1. AlertsTypeOK'
    BY AlertsAssumption DEF AlertsInv, AlertsTypeOK, WorkerRestarts, NoSample, LongAgo
<1>2. Raised' = Raised
    BY DEF WorkerRestarts, Raised
<1>3. \A k \in AlertKinds : lastAlertAt'[k] <= clock'
    BY AlertsAssumption DEF AlertsInv, AlertsTypeOK, WorkerRestarts, LongAgo
<1>4. ASSUME NEW a \in Raised
      PROVE  Remembered(a, life', lastAlertAt')
    <2>1. a \in Alert
        BY DEF Raised, AlertsInv, AlertsTypeOK
    <2>2. a.life <= life /\ a.life \in Int /\ life \in Int /\ life' = life + 1
        BY <2>1 DEF AlertsInv, AlertsTypeOK, Alert, Remembered, WorkerRestarts
    <2> QED
        BY <2>2 DEF Remembered
<1> QED
    BY <1>1, <1>2, <1>3, <1>4 DEF AlertsInv

\* The API only moves what has been raised, or loses it.
LEMMA ApiKeeps ==
    ASSUME AlertsInv,
           \/ \E alert \in relay : TakeAlert(alert)
           \/ \E d \in dispatched : ReadSettings(d) \/ StoreNotification(d) \/ SendAlert(d)
           \/ ApiRestarts
    PROVE  AlertsInv'
<1>1. ASSUME NEW alert \in relay, TakeAlert(alert)
      PROVE  AlertsTypeOK' /\ Raised' \subseteq Raised
    <2> DEFINE d == [alert |-> alert, pc |-> "settings", quiet |-> FALSE]
    <2>1. d \in [alert : Alert, pc : {"settings", "store", "send"}, quiet : BOOLEAN]
        BY DEF AlertsInv, AlertsTypeOK
    <2>2. d.alert = alert /\ dispatched' = dispatched \cup {d}
        BY <1>1 DEF TakeAlert
    <2> HIDE DEF d
    <2> QED
        BY <1>1, <2>1, <2>2 DEF AlertsInv, AlertsTypeOK, TakeAlert, Raised
<1>2. ASSUME NEW d \in dispatched, ReadSettings(d)
      PROVE  AlertsTypeOK' /\ Raised' \subseteq Raised
    <2>1. PICK quiet \in BOOLEAN :
              dispatched' = (dispatched \ {d}) \cup {[d EXCEPT !.pc = "store", !.quiet = quiet]}
        BY <1>2 DEF ReadSettings
    <2> DEFINE e == [d EXCEPT !.pc = "store", !.quiet = quiet]
    <2>2. /\ e \in [alert : Alert, pc : {"settings", "store", "send"}, quiet : BOOLEAN]
          /\ e.alert = d.alert
        BY DEF AlertsInv, AlertsTypeOK
    <2> HIDE DEF e
    <2> QED
        BY <1>2, <2>1, <2>2 DEF AlertsInv, AlertsTypeOK, ReadSettings, Raised, e
<1>3. ASSUME NEW d \in dispatched, StoreNotification(d)
      PROVE  AlertsTypeOK' /\ Raised' \subseteq Raised
    <2> DEFINE e == [d EXCEPT !.pc = "send"]
    <2>1. /\ e \in [alert : Alert, pc : {"settings", "store", "send"}, quiet : BOOLEAN]
          /\ e.alert = d.alert
        BY DEF AlertsInv, AlertsTypeOK
    <2>2. dispatched' \subseteq dispatched \cup {e}
        BY <1>3 DEF StoreNotification
    <2>3. d.alert \in Alert /\ notifications' = notifications \cup {d.alert}
        BY <1>3 DEF StoreNotification, AlertsInv, AlertsTypeOK
    <2> HIDE DEF e
    <2> QED
        BY <1>3, <2>1, <2>2, <2>3 DEF AlertsInv, AlertsTypeOK, StoreNotification, Raised
<1>4. ASSUME NEW d \in dispatched, SendAlert(d)
      PROVE  AlertsTypeOK' /\ Raised' \subseteq Raised
    BY <1>4 DEF AlertsInv, AlertsTypeOK, SendAlert, Raised
<1>5. ASSUME ApiRestarts
      PROVE  AlertsTypeOK' /\ Raised' \subseteq Raised
    BY <1>5 DEF AlertsInv, AlertsTypeOK, ApiRestarts, Raised
<1>6. UNCHANGED <<clock, life, lastAlertAt>>
    BY DEF TakeAlert, ReadSettings, StoreNotification, SendAlert, ApiRestarts
<1> QED
    BY <1>1, <1>2, <1>3, <1>4, <1>5, <1>6, NothingRaised DEF AlertsInv, AlertsTypeOK

LEMMA TimePassesKeeps ==
    ASSUME AlertsInv, TimePasses
    PROVE  AlertsInv'
<1>1. clock <= clock' /\ clock' \in 0..ClockMax
    BY AlertsAssumption DEF AlertsInv, AlertsTypeOK, TimePasses
<1>2. AlertsTypeOK' /\ Raised' = Raised
    BY <1>1 DEF AlertsInv, AlertsTypeOK, TimePasses, Raised
<1> QED
    BY <1>1, <1>2, NothingRaised DEF TimePasses

LEMMA AlertsStep == AlertsInv /\ [AlertsNext]_alertVars => AlertsInv'
<1> SUFFICES ASSUME AlertsInv, [AlertsNext]_alertVars
             PROVE  AlertsInv'
    OBVIOUS
<1>1. CASE UNCHANGED alertVars
    BY <1>1, NothingRaised DEF alertVars, AlertsInv, AlertsTypeOK, Raised
<1>2. CASE AlertsNext
    BY <1>2, MeasureKeeps, CheckKeeps, PublishedKeeps, WorkerRestartsKeeps, ApiKeeps,
       TimePassesKeeps DEF AlertsNext
<1> QED
    BY <1>1, <1>2

\* The types of the alerts, and what they rest on.
THEOREM AlertsInvHolds == AlertsSpec => []AlertsInv
<1>1. AlertsInit => AlertsInv
    BY AlertsStart
<1>2. AlertsInv /\ [AlertsNext]_alertVars => AlertsInv'
    BY AlertsStep
<1> QED
    BY <1>1, <1>2, PTL DEF AlertsSpec

\* Notifications of a kind of one life of the worker are a cooldown apart, for any number
\* of overlapping samples, any kinds and any cooldown.
THEOREM AlertsStaySpaced == AlertsSpec => []AlertsSpaced
<1>1. AlertsInv => AlertsSpaced
    BY DEF AlertsInv, Raised, Spaced, AlertsSpaced
<1> QED
    BY <1>1, AlertsInvHolds, PTL
-----------------------------------------------------------------------------
(***************************************************************************)
(* What is proved of the backups: a part of a dump is never offered as a   *)
(* good one, and pruning leaves a good dump where there was one.           *)
(*                                                                         *)
(* The argument for the first: a row becomes 'done' only after its dump    *)
(* has ended, and a restore brings back only what rows were when a dump    *)
(* began, so a backup whose dump is still to end is not 'done' anywhere.   *)
(* For the second: unless there is an excuse, the backup that prunes is    *)
(* the newest, and good itself.                                            *)
(***************************************************************************)
\* b is 'done' neither in the table nor in a dump of it.
NeverDone(b) == row[b] # "done" /\ \A c \in Ids : dumped[c][b] # "done"

\* The dump of b has not ended.
Unended(b) == file[b] = "partial" \/ job[b] = "dump" \/ b > made

Whole ==
    \A b \in Ids :
        /\ Unended(b) => NeverDone(b)
        /\ job[b] \in {"stat", "save"} => file[b] # "partial"
        /\ job[b] # "none" => b <= made

BackupsInv == BackupsTypeOK /\ Whole

----------------------------------------------------------------------------
LEMMA NoRowsType == NoRows \in [Ids -> Statuses] /\ \A b \in Ids : NoRows[b] = "none"
BY DEF NoRows, Statuses

LEMMA BackupsStart == BackupInit => BackupsInv
<1> SUFFICES ASSUME BackupInit
             PROVE  BackupsInv
    OBVIOUS
<1>1. 0 \in 0..BackupMax /\ 0 \in 0..RequestMax /\ 0 \in 0..FaultMax
    BY BackupsAssumption
<1>3. row \in [Ids -> Statuses] /\ dumped \in [Ids -> [Ids -> Statuses]]
    BY NoRowsType DEF BackupInit
<1>4. /\ file \in [Ids -> {"none", "partial", "complete"}]
      /\ doomed \in [Ids -> SUBSET Ids]
      /\ job \in [Ids -> {"none", "dump", "dumping", "stat", "save", "prune", "unlink", "remove",
                         "fail"}]
    BY DEF BackupInit
<1>5. BackupsTypeOK
    BY <1>1, <1>3, <1>4 DEF BackupInit, BackupsTypeOK
<1>2. Whole
    BY NoRowsType DEF BackupInit, Whole, Unended, NeverDone
<1> QED
    BY <1>2, <1>5 DEF BackupsInv

LEMMA CreateKeeps ==
    ASSUME BackupsInv, Create
    PROVE  BackupsInv'
<1>1. made + 1 \in Ids /\ made \in Nat /\ made' = made + 1
    BY BackupsAssumption DEF Create, Ids, BackupsInv, BackupsTypeOK
<1>6. excused' \in BOOLEAN
    BY Zenon DEF Create, Excuse, BackupsInv, BackupsTypeOK
<1>7. made' \in 0..BackupMax
    BY <1>1, BackupsAssumption DEF Ids
<1>8. auto' \subseteq Ids
    BY <1>1 DEF Create, BackupsInv, BackupsTypeOK
<1>9. /\ row' \in [Ids -> Statuses]
      /\ job' \in [Ids -> {"none", "dump", "dumping", "stat", "save", "prune", "unlink", "remove",
                          "fail"}]
    BY DEF Create, Goes, BackupsInv, BackupsTypeOK, Statuses
<1>2. BackupsTypeOK'
    BY <1>6, <1>7, <1>8, <1>9, BackupsAssumption DEF Create, BackupsInv, BackupsTypeOK, Ids
<1>4. ASSUME NEW b \in Ids
      PROVE  /\ (Unended(b) => NeverDone(b))'
             /\ job'[b] \in {"stat", "save"} => file'[b] # "partial"
             /\ job'[b] # "none" => b <= made'
    <2>1. b \in Int /\ made \in Int
        BY <1>1 DEF Ids
    <2>2. (b > made' => b > made) /\ (b <= made => b <= made') /\ made + 1 <= made'
          /\ made + 1 > made
        BY <1>1, <2>1
    <2>3. CASE b = made + 1
        BY <1>1, <2>2, <2>3
           DEF Create, BackupsInv, BackupsTypeOK, Whole, Unended, NeverDone, Goes
    <2>4. CASE b # made + 1
        BY <1>1, <2>2, <2>4
           DEF Create, BackupsInv, BackupsTypeOK, Whole, Unended, NeverDone, Goes
    <2> QED
        BY <2>3, <2>4
<1>5. Whole'
    BY <1>4 DEF Whole, Ids
<1> QED
    BY <1>2, <1>5 DEF BackupsInv

LEMMA DumpKeeps ==
    ASSUME BackupsInv, NEW b \in Ids,
           DumpBegins(b) \/ DumpEnds(b) \/ DumpFails(b) \/ Stat(b) \/ SaveDone(b) \/ SaveFails(b)
    PROVE  BackupsInv'
<1>1. CASE DumpBegins(b)
    <2>1. BackupsTypeOK'
        BY <1>1 DEF DumpBegins, BackupsInv, BackupsTypeOK, Goes
    <2>2. Whole'
        BY <1>1 DEF DumpBegins, BackupsInv, BackupsTypeOK, Whole, Unended, NeverDone, Goes, At
    <2> QED
        BY <2>1, <2>2 DEF BackupsInv
<1>2. CASE DumpEnds(b)
    <2>1. BackupsTypeOK'
        BY <1>2 DEF DumpEnds, BackupsInv, BackupsTypeOK, Goes
    <2>2. Whole'
        BY <1>2 DEF DumpEnds, BackupsInv, BackupsTypeOK, Whole, Unended, NeverDone, Goes, At
    <2> QED
        BY <2>1, <2>2 DEF BackupsInv
<1>3. CASE DumpFails(b)
    <2>2. BackupsTypeOK'
        BY <1>3, NoRowsType DEF DumpFails, BackupsInv, BackupsTypeOK, Goes
    <2>3. Whole'
        BY <1>3, NoRowsType DEF DumpFails, BackupsInv, BackupsTypeOK, Whole, Unended, NeverDone, Goes, At
    <2> QED
        BY <2>2, <2>3 DEF BackupsInv
<1>4. CASE Stat(b)
    <2>1. BackupsTypeOK'
        BY <1>4 DEF Stat, BackupsInv, BackupsTypeOK, Goes
    <2>2. Whole'
        BY <1>4 DEF Stat, BackupsInv, BackupsTypeOK, Whole, Unended, NeverDone, Goes, At
    <2> QED
        BY <2>1, <2>2 DEF BackupsInv
<1>5. CASE SaveDone(b)
    <2>1. BackupsTypeOK'
        BY <1>5 DEF SaveDone, BackupsInv, BackupsTypeOK, Goes, Statuses
    <2>2. job[b] = "save" /\ file[b] # "partial"
        BY <1>5 DEF SaveDone, At, BackupsInv, Whole
    <2>3. b <= made /\ b \in Int /\ made \in Int
        BY <2>2 DEF BackupsInv, BackupsTypeOK, Whole, Ids
    <2>5. ~Unended(b)
        BY <2>2, <2>3 DEF Unended
    <2>4. Whole'
        BY <1>5, <2>2, <2>5
           DEF SaveDone, BackupsInv, BackupsTypeOK, Whole, Unended, NeverDone, Goes
    <2> QED
        BY <2>1, <2>4 DEF BackupsInv
<1>6. CASE SaveFails(b)
    <2>1. faults' \in 0..FaultMax
        BY <1>6, BackupsAssumption DEF SaveFails, BackupsInv, BackupsTypeOK
    <2>2. BackupsTypeOK'
        BY <1>6, <2>1 DEF SaveFails, BackupsInv, BackupsTypeOK, Goes
    <2>3. Whole'
        BY <1>6 DEF SaveFails, BackupsInv, BackupsTypeOK, Whole, Unended, NeverDone, Goes
    <2> QED
        BY <2>2, <2>3 DEF BackupsInv
<1> QED
    BY <1>1, <1>2, <1>3, <1>4, <1>5, <1>6

LEMMA PruneKeeps ==
    ASSUME BackupsInv, NEW b \in Ids,
           Prune(b) \/ PruneUnlink(b) \/ PruneRemove(b) \/ PruneFails(b) \/ SaveFailed(b)
    PROVE  BackupsInv'
<1>1. CASE Prune(b)
    <2>1. Surplus \subseteq Ids
        BY DEF Surplus, Rows
    <2>2. BackupsTypeOK'
        BY <1>1, <2>1 DEF Prune, BackupsInv, BackupsTypeOK, Goes
    <2>3. Whole'
        BY <1>1 DEF Prune, BackupsInv, BackupsTypeOK, Whole, Unended, NeverDone, Goes, At
    <2> QED
        BY <2>2, <2>3 DEF BackupsInv
<1>2. CASE PruneUnlink(b)
    <2>1. PICK old \in doomed[b] : Unlinked(old)
        BY <1>2 DEF PruneUnlink
    <2>2. old \in Ids
        BY DEF BackupsInv, BackupsTypeOK
    <2>3. BackupsTypeOK'
        BY <1>2, <2>1, NoRowsType DEF PruneUnlink, Unlinked, BackupsInv, BackupsTypeOK, Goes
    <2>4. Whole'
        BY <1>2, <2>1, <2>2, NoRowsType
           DEF PruneUnlink, Unlinked, BackupsInv, BackupsTypeOK, Whole, Unended, NeverDone, Goes, At
    <2> QED
        BY <2>3, <2>4 DEF BackupsInv
<1>3. CASE PruneRemove(b)
    <2>1. PICK old \in doomed[b] :
              /\ row' = [row EXCEPT ![old] = "none"]
              /\ doomed' = [doomed EXCEPT ![b] = doomed[b] \ {old}]
              /\ Goes(b, IF doomed[b] = {old} THEN "none" ELSE "unlink")
        BY <1>3 DEF PruneRemove
    <2>2. BackupsTypeOK'
        BY <1>3, <2>1 DEF PruneRemove, BackupsInv, BackupsTypeOK, Goes, Statuses
    <2>3. Whole'
        BY <1>3, <2>1
           DEF PruneRemove, BackupsInv, BackupsTypeOK, Whole, Unended, NeverDone, Goes, At
    <2> QED
        BY <2>2, <2>3 DEF BackupsInv
<1>4. CASE PruneFails(b)
    <2>1. excused' \in BOOLEAN
        BY <1>4, Zenon DEF PruneFails, Excuse, BackupsInv, BackupsTypeOK
    <2>2. faults' \in 0..FaultMax
        BY <1>4, BackupsAssumption DEF PruneFails, BackupsInv, BackupsTypeOK
    <2>3. BackupsTypeOK'
        BY <1>4, <2>1, <2>2 DEF PruneFails, BackupsInv, BackupsTypeOK, Goes
    <2>4. Whole'
        BY <1>4 DEF PruneFails, BackupsInv, BackupsTypeOK, Whole, Unended, NeverDone, Goes, At
    <2> QED
        BY <2>3, <2>4 DEF BackupsInv
<1>5. CASE SaveFailed(b)
    <2>1. BackupsTypeOK'
        BY <1>5 DEF SaveFailed, BackupsInv, BackupsTypeOK, Goes, Statuses
    <2>2. Whole'
        BY <1>5 DEF SaveFailed, BackupsInv, BackupsTypeOK, Whole, Unended, NeverDone, Goes, At
    <2> QED
        BY <2>1, <2>2 DEF BackupsInv
<1> QED
    BY <1>1, <1>2, <1>3, <1>4, <1>5

LEMMA Asking == ASSUME BackupsInv, Asks PROVE asked' \in 0..RequestMax
BY BackupsAssumption DEF Asks, BackupsInv, BackupsTypeOK

LEMMA RequestsKeep ==
    ASSUME BackupsInv,
           \/ \E b \in Ids : Remove(b) \/ Restore(b)
           \/ RemoveUnlink \/ RemoveRow \/ PgRestore \/ SetKeep
    PROVE  BackupsInv'
<1>1. ASSUME NEW b \in Ids, Remove(b) \/ Restore(b)
      PROVE  BackupsInv'
    <2>1. excused' \in BOOLEAN
        BY <1>1, Zenon DEF Remove, Restore, Excuse, BackupsInv, BackupsTypeOK
    <2>2. asked' \in 0..RequestMax
        BY <1>1, Asking DEF Remove, Restore
    <2>3. BackupsTypeOK'
        <3>1. CASE Remove(b)
            <4>1. removal' \in Ids \X {"unlink", "row"}
                BY <3>1 DEF Remove
            <4> QED
                BY <3>1, <4>1, <2>1, <2>2 DEF Remove, BackupsInv, BackupsTypeOK
        <3>2. CASE Restore(b)
            BY <3>2, <2>1, <2>2 DEF Restore, BackupsInv, BackupsTypeOK
        <3> QED
            BY <1>1, <3>1, <3>2
    <2>4. Whole'
        BY <1>1 DEF Remove, Restore, BackupsInv, Whole, Unended, NeverDone
    <2> QED
        BY <2>3, <2>4 DEF BackupsInv
<1>2. CASE RemoveUnlink
    <2>1. removal[1] \in Ids /\ removal' \in Ids \X {"unlink", "row"}
        BY <1>2 DEF RemoveUnlink, BackupsInv, BackupsTypeOK, NoRemoval
    <2>2. BackupsTypeOK'
        BY <1>2, <2>1, NoRowsType DEF RemoveUnlink, Unlinked, BackupsInv, BackupsTypeOK
    <2>3. Whole'
        BY <1>2, <2>1, NoRowsType
           DEF RemoveUnlink, Unlinked, BackupsInv, BackupsTypeOK, Whole, Unended, NeverDone
    <2> QED
        BY <2>2, <2>3 DEF BackupsInv
<1>3. CASE RemoveRow
    <2>1. BackupsTypeOK'
        <3>1. row' \in [Ids -> Statuses]
            BY <1>3 DEF RemoveRow, BackupsInv, BackupsTypeOK, Statuses
        <3> QED
            BY <1>3, <3>1 DEF RemoveRow, BackupsInv, BackupsTypeOK
    <2>2. Whole'
        BY <1>3 DEF RemoveRow, BackupsInv, BackupsTypeOK, Whole, Unended, NeverDone
    <2> QED
        BY <2>1, <2>2 DEF BackupsInv
<1>4. CASE PgRestore
    <2>1. restoring \in Ids
        BY <1>4 DEF PgRestore, BackupsInv, BackupsTypeOK
    <2>2. row' = row \/ row' = dumped[restoring]
        BY <1>4 DEF PgRestore
    <2>3. BackupsTypeOK'
        BY <1>4, <2>1, <2>2 DEF PgRestore, BackupsInv, BackupsTypeOK
    <2>4. Whole'
        BY <1>4, <2>1, <2>2 DEF PgRestore, BackupsInv, BackupsTypeOK, Whole, Unended, NeverDone
    <2> QED
        BY <2>3, <2>4 DEF BackupsInv
<1>5. CASE SetKeep
    <2>1. excused' \in BOOLEAN
        BY <1>5, Zenon DEF SetKeep, Excuse, BackupsInv, BackupsTypeOK
    <2>2. asked' \in 0..RequestMax
        BY <1>5, Asking DEF SetKeep
    <2>3. BackupsTypeOK'
        BY <1>5, <2>1, <2>2 DEF SetKeep, BackupsInv, BackupsTypeOK
    <2>4. Whole'
        BY <1>5 DEF SetKeep, BackupsInv, Whole, Unended, NeverDone
    <2> QED
        BY <2>3, <2>4 DEF BackupsInv
<1> QED
    BY <1>1, <1>2, <1>3, <1>4, <1>5

LEMMA CrashKeeps ==
    ASSUME BackupsInv, Crash
    PROVE  BackupsInv'
<1>1. PICK lost \in {auto, Ids \ auto} :
          /\ job' = [b \in Ids |-> IF b \in lost THEN "none" ELSE job[b]]
          /\ doomed' = [b \in Ids |-> IF b \in lost THEN {} ELSE doomed[b]]
          /\ IF lost = auto THEN UNCHANGED <<removal, restoring>>
                            ELSE removal' = NoRemoval /\ restoring' = 0
          /\ \E through \in SUBSET {b \in lost : job[b] = "dumping" /\ file[b] = "partial"} :
                file' = [b \in Ids |-> IF b \in through THEN "complete" ELSE file[b]]
    BY DEF Crash
<1>2. PICK through \in SUBSET {b \in lost : job[b] = "dumping" /\ file[b] = "partial"} :
          file' = [b \in Ids |-> IF b \in through THEN "complete" ELSE file[b]]
    BY <1>1
<1>3. faults' \in 0..FaultMax
    BY BackupsAssumption DEF Crash, BackupsInv, BackupsTypeOK
<1>4. UNCHANGED <<keep, made, auto, row, dumped, asked, excused>>
    BY DEF Crash
<1>5. removal' \in {removal, NoRemoval} /\ restoring' \in {restoring, 0}
    BY <1>1
<1>6. BackupsTypeOK'
    BY <1>1, <1>2, <1>3, <1>4, <1>5 DEF BackupsInv, BackupsTypeOK
<1>7. \A b \in Ids : job'[b] \in {job[b], "none"} /\ file'[b] \in {file[b], "complete"}
    BY <1>1, <1>2
<1>8. Whole'
    BY <1>4, <1>7 DEF BackupsInv, BackupsTypeOK, Whole, Unended, NeverDone
<1> QED
    BY <1>6, <1>8 DEF BackupsInv

LEMMA BackupsStep == BackupsInv /\ [BackupNext]_backupVars => BackupsInv'
<1> SUFFICES ASSUME BackupsInv, [BackupNext]_backupVars
             PROVE  BackupsInv'
    OBVIOUS
<1>1. CASE UNCHANGED backupVars
    BY <1>1 DEF backupVars, BackupsInv, BackupsTypeOK, Whole, Unended, NeverDone
<1>2. CASE BackupNext
    BY <1>2, CreateKeeps, DumpKeeps, PruneKeeps, RequestsKeep, CrashKeeps
       DEF BackupNext, BackupStep
<1> QED
    BY <1>1, <1>2

\* The types of the backups, and what a dump that has not ended is not.
THEOREM BackupsInvHolds == BackupSpec => []BackupsInv
<1>1. BackupInit => BackupsInv
    BY BackupsStart
<1>2. BackupsInv /\ [BackupNext]_backupVars => BackupsInv'
    BY BackupsStep
<1> QED
    BY <1>1, <1>2, PTL DEF BackupSpec

\* A part of a dump is never offered for restoring, for any number of backups, overlaps,
\* crashes and restores.
THEOREM DoneStaysComplete == BackupSpec => []DoneIsComplete
<1>1. BackupsInv => DoneIsComplete
    BY DEF BackupsInv, BackupsTypeOK, Whole, Unended, NeverDone, DoneIsComplete
<1> QED
    BY <1>1, BackupsInvHolds, PTL

----------------------------------------------------------------------------
(* What pruning leaves.                                                    *)

\* Where nothing excuses a loss: one backup at a time is being made, the newest, and while
\* it prunes it is good and not among those it deletes.
InOrder ==
    /\ keep > 0 /\ removal = NoRemoval /\ restoring = 0
    /\ Rows \subseteq 1..made
    /\ \A b \in Active :
          /\ b = made
          /\ job[b] \in {"dump", "dumping", "stat", "save", "fail"} => row[b] # "done"
          /\ job[b] = "save" => file[b] = "complete"
          /\ job[b] \in {"prune", "unlink", "remove"} => b \in GoodDumps
          /\ job[b] \in {"unlink", "remove"} => b \notin doomed[b]

OrderlyInv == BackupsInv /\ (~excused => InOrder)

LEMMA OrderlyStart == BackupInit => OrderlyInv
<1> SUFFICES ASSUME BackupInit
             PROVE  OrderlyInv
    OBVIOUS
<1>1. keep > 0
    BY BackupsAssumption DEF BackupInit
<1>2. Active = {} /\ Rows = {}
    BY NoRowsType DEF BackupInit, Active, Rows
<1> QED
    BY <1>1, <1>2, BackupsStart DEF OrderlyInv, InOrder, BackupInit

\* The newest row is no surplus.
LEMMA NewestStays ==
    ASSUME keep > 0, keep \in Int, made \in Nat, Rows \subseteq 1..made
    PROVE  made \notin Surplus
<1>1. {c \in Rows : c > made} = {}
    <2>1. \A c \in Rows : c \in 1..made
        OBVIOUS
    <2>2. \A c \in 1..made : ~(c > made)
        OBVIOUS
    <2> QED
        BY <2>1, <2>2
<1>2. Cardinality(Newer(made)) = 0
    BY <1>1, FS_EmptySet DEF Newer
<1> QED
    BY <1>2 DEF Surplus


\* What a step must show: order stays, and good dumps stay good or the newest is good.
Goodness == InOrder' /\ (GoodDumps # {} => GoodDumps' # {})

LEMMA CreateGood ==
    ASSUME BackupsInv, InOrder, Create, ~excused'
    PROVE  Goodness
<1>1. Active = {}
    BY DEF Create, Excuse
<1>2. made + 1 \in Ids /\ made \in Nat /\ made' = made + 1
    BY BackupsAssumption DEF Create, Ids, BackupsInv, BackupsTypeOK
<1>3. /\ \A b \in Ids : job'[b] # "none" => b = made + 1 /\ job'[b] = "dump"
      /\ \A b \in Ids : b # made + 1 => row'[b] = row[b]
      /\ row'[made + 1] = "running"
    BY <1>1, <1>2 DEF Create, Goes, Active, BackupsInv, BackupsTypeOK
<1>4. Rows' \subseteq Rows \cup {made + 1}
    BY <1>3 DEF Rows, Ids
<1>5. Rows' \subseteq 1..made'
    <2>1. \A c \in 1..made : c \in 1..(made + 1)
        BY <1>2
    <2>2. made + 1 \in 1..(made + 1)
        BY <1>2
    <2> QED
        BY <1>2, <1>4, <2>1, <2>2 DEF InOrder
<1>6. InOrder'
    BY <1>2, <1>3, <1>5 DEF InOrder, Create, Active, Ids
<1>7. made + 1 \notin GoodDumps
    <2>1. made + 1 \notin 1..made
        BY <1>2
    <2> QED
        BY <2>1, <1>2 DEF InOrder, Rows, GoodDumps
<1>8. GoodDumps \subseteq GoodDumps'
    BY <1>3, <1>7 DEF GoodDumps, Create, Ids
<1> QED
    BY <1>6, <1>8 DEF Goodness

LEMMA DumpGood ==
    ASSUME BackupsInv, InOrder, NEW b \in Ids, ~excused',
           DumpBegins(b) \/ DumpEnds(b) \/ DumpFails(b) \/ Stat(b) \/ SaveDone(b) \/ SaveFails(b)
    PROVE  Goodness
<1>1. b = made /\ b \in Active /\ row[b] # "done"
    BY DEF DumpBegins, DumpEnds, DumpFails, Stat, SaveDone, SaveFails, At, InOrder, Active
<1>2. b \notin GoodDumps
    BY <1>1 DEF GoodDumps
<1>3. UNCHANGED <<keep, removal, restoring, made, doomed>>
    BY DEF DumpBegins, DumpEnds, DumpFails, Stat, SaveDone, SaveFails
<1>4. /\ \A c \in Ids \ {b} : row'[c] = row[c] /\ file'[c] = file[c] /\ job'[c] = job[c]
    BY DEF DumpBegins, DumpEnds, DumpFails, Stat, SaveDone, SaveFails, Goes, BackupsInv, BackupsTypeOK
<1>5. GoodDumps \subseteq GoodDumps'
    BY <1>2, <1>4 DEF GoodDumps, Ids
<1>6. \A c \in Active : c = b
    BY <1>1 DEF InOrder
<1>7. Active' \subseteq {b}
    BY <1>4, <1>6 DEF Active, Ids
<1>9. Rows' \subseteq 1..made'
    <2>1. Rows' \subseteq Rows \cup {b}
        BY <1>4 DEF Rows, Ids
    <2>2. b \in 1..made
        BY <1>1 DEF Ids
    <2> QED
        BY <1>3, <2>1, <2>2 DEF InOrder
<1>10. /\ job'[b] \in {"dump", "dumping", "stat", "save", "fail"} => row'[b] # "done"
       /\ job'[b] = "save" => file'[b] = "complete"
       /\ job'[b] \in {"prune", "unlink", "remove"} => file'[b] = "complete" /\ row'[b] = "done"
       /\ job'[b] \notin {"unlink", "remove"}
    <2>1. CASE DumpBegins(b) \/ DumpEnds(b) \/ DumpFails(b)
        BY <1>1, <2>1 DEF DumpBegins, DumpEnds, DumpFails, Goes, BackupsInv, BackupsTypeOK
    <2>2. CASE Stat(b)
        BY <1>1, <2>2 DEF Stat, Goes, At, BackupsInv, BackupsTypeOK, Whole
    <2>3. CASE SaveDone(b)
        BY <1>1, <2>3 DEF SaveDone, Goes, At, BackupsInv, BackupsTypeOK, InOrder, Active
    <2>4. CASE SaveFails(b)
        BY <1>1, <2>4 DEF SaveFails, Goes, BackupsInv, BackupsTypeOK
    <2> QED
        BY <2>1, <2>2, <2>3, <2>4
<1>11. InOrder'
    BY <1>1, <1>3, <1>7, <1>9, <1>10 DEF InOrder, GoodDumps
<1> QED
    BY <1>5, <1>11 DEF Goodness


\* The backup that prunes is good, and keeps out of what it deletes.
LEMMA PruneGood ==
    ASSUME BackupsInv, InOrder, NEW b \in Ids, ~excused',
           Prune(b) \/ PruneUnlink(b) \/ PruneRemove(b)
    PROVE  Goodness
<1>1. b = made /\ b \in Active /\ b \in GoodDumps
    BY DEF Prune, PruneUnlink, PruneRemove, At, InOrder, Active
<1>2. UNCHANGED <<keep, removal, restoring, made>>
    BY DEF Prune, PruneUnlink, PruneRemove
<1>3. \A c \in Ids \ {b} : job'[c] = job[c]
    BY DEF Prune, PruneUnlink, PruneRemove, Goes, BackupsInv, BackupsTypeOK
<1>4. \A c \in Active : c = b
    BY <1>1 DEF InOrder
<1>5. Active' \subseteq {b}
    BY <1>3, <1>4 DEF Active, Ids
<1>6. Rows' \subseteq Rows
    BY DEF Prune, PruneUnlink, PruneRemove, BackupsInv, BackupsTypeOK, Rows, Ids
<1>7. /\ job'[b] \in {"none", "unlink", "remove"}
      /\ row'[b] = row[b] /\ file'[b] = file[b] /\ b \notin doomed'[b]
    <2>1. CASE Prune(b)
        <3>1. keep \in Int /\ made \in Nat
            BY BackupsAssumption DEF BackupsInv, BackupsTypeOK
        <3>2. b \notin Surplus
            BY <1>1, <3>1, NewestStays DEF InOrder
        <3> QED
            BY <2>1, <3>2 DEF Prune, Goes, BackupsInv, BackupsTypeOK
    <2>2. CASE PruneUnlink(b)
        <3>1. PICK old \in doomed[b] : Unlinked(old)
            BY <2>2 DEF PruneUnlink
        <3>2. b # old
            BY <1>1, <2>2 DEF PruneUnlink, At, InOrder
        <3> QED
            BY <1>1, <2>2, <3>1, <3>2
               DEF PruneUnlink, Unlinked, At, Goes, BackupsInv, BackupsTypeOK, InOrder
    <2>3. CASE PruneRemove(b)
        <3>1. PICK old \in doomed[b] :
                  /\ row' = [row EXCEPT ![old] = "none"]
                  /\ doomed' = [doomed EXCEPT ![b] = doomed[b] \ {old}]
                  /\ Goes(b, IF doomed[b] = {old} THEN "none" ELSE "unlink")
            BY <2>3 DEF PruneRemove
        <3>2. b \notin doomed[b]
            BY <1>1, <2>3 DEF PruneRemove, At, InOrder
        <3> QED
            BY <2>3, <3>1, <3>2 DEF PruneRemove, Goes, BackupsInv, BackupsTypeOK
    <2> QED
        BY <2>1, <2>2, <2>3
<1>8. b \in GoodDumps'
    BY <1>1, <1>7 DEF GoodDumps, Ids
<1>9. InOrder'
    BY <1>1, <1>2, <1>5, <1>6, <1>7, <1>8 DEF InOrder
<1> QED
    BY <1>8, <1>9 DEF Goodness

LEMMA FailedGood ==
    ASSUME BackupsInv, InOrder, NEW b \in Ids, SaveFailed(b)
    PROVE  Goodness
<1>1. b = made /\ b \in Active /\ row[b] # "done"
    BY DEF SaveFailed, At, InOrder, Active
<1>2. b \notin GoodDumps
    BY <1>1 DEF GoodDumps
<1>3. GoodDumps \subseteq GoodDumps'
    BY <1>2 DEF SaveFailed, GoodDumps, Ids, BackupsInv, BackupsTypeOK
<1>4. \A c \in Active : c = b
    BY <1>1 DEF InOrder
<1>5. Active' = {}
    BY <1>4 DEF SaveFailed, Active, Goes, Ids, BackupsInv, BackupsTypeOK
<1>6. Rows' \subseteq 1..made'
    <2>1. Rows' \subseteq Rows \cup {b}
        BY DEF SaveFailed, Rows, Ids, BackupsInv, BackupsTypeOK
    <2>2. b \in 1..made
        BY <1>1 DEF Ids
    <2> QED
        BY <2>1, <2>2 DEF InOrder, SaveFailed
<1>7. InOrder'
    BY <1>5, <1>6 DEF InOrder, SaveFailed
<1> QED
    BY <1>3, <1>7 DEF Goodness

LEMMA CrashGood ==
    ASSUME BackupsInv, InOrder, Crash
    PROVE  Goodness
<1>1. PICK lost \in {auto, Ids \ auto} :
          /\ job' = [b \in Ids |-> IF b \in lost THEN "none" ELSE job[b]]
          /\ doomed' = [b \in Ids |-> IF b \in lost THEN {} ELSE doomed[b]]
          /\ IF lost = auto THEN UNCHANGED <<removal, restoring>>
                            ELSE removal' = NoRemoval /\ restoring' = 0
          /\ \E through \in SUBSET {b \in lost : job[b] = "dumping" /\ file[b] = "partial"} :
                file' = [b \in Ids |-> IF b \in through THEN "complete" ELSE file[b]]
    BY DEF Crash
<1>2. PICK through \in SUBSET {b \in lost : job[b] = "dumping" /\ file[b] = "partial"} :
          file' = [b \in Ids |-> IF b \in through THEN "complete" ELSE file[b]]
    BY <1>1
<1>3. UNCHANGED <<keep, made, row>>
    BY DEF Crash
<1>4. removal' = NoRemoval /\ restoring' = 0
    BY <1>1 DEF InOrder
<1>5. Active' \subseteq Active
      /\ \A b \in Active' : job'[b] = job[b] /\ doomed'[b] = doomed[b] /\ file'[b] = file[b]
    BY <1>1, <1>2 DEF Active
<1>6. GoodDumps \subseteq GoodDumps'
    BY <1>2, <1>3 DEF GoodDumps, Ids
<1>7. Rows' = Rows
    BY <1>3 DEF Rows
<1>8. InOrder'
    BY <1>3, <1>4, <1>5, <1>6, <1>7 DEF InOrder
<1> QED
    BY <1>6, <1>8 DEF Goodness

\* The steps of a user that are no excuse.
LEMMA SettingGood ==
    ASSUME BackupsInv, InOrder, ~excused', SetKeep
    PROVE  Goodness
<1>1. keep' \in Int /\ ~(keep' <= 0)
    BY BackupsAssumption DEF SetKeep, Excuse
<1>2. keep' > 0
    BY <1>1
<1>3. Active' = Active /\ Rows' = Rows /\ GoodDumps' = GoodDumps
    BY DEF SetKeep, Active, Rows, GoodDumps
<1>4. InOrder'
    BY <1>2, <1>3 DEF InOrder, SetKeep
<1> QED
    BY <1>3, <1>4 DEF Goodness

LEMMA NextGood ==
    ASSUME BackupsInv, InOrder, BackupNext, ~excused'
    PROVE  Goodness
<1>1. ~\E b \in Ids : Remove(b) \/ Restore(b) \/ PruneFails(b)
    BY DEF Remove, Restore, PruneFails, Excuse
<1>2. ~RemoveUnlink /\ ~RemoveRow /\ ~PgRestore
    BY DEF InOrder, RemoveUnlink, RemoveRow, PgRestore, NoRemoval
<1> QED
    BY <1>1, <1>2, CreateGood, DumpGood, PruneGood, FailedGood, CrashGood, SettingGood
       DEF BackupNext, BackupStep

\* Once a loss is excused it stays so.
LEMMA ExcusedStays == ASSUME BackupNext, ~excused' PROVE ~excused
BY DEF BackupNext, BackupStep, Create, RemoveUnlink, RemoveRow, PgRestore, SetKeep, Crash,
       DumpBegins, DumpEnds, DumpFails, Stat, SaveDone, SaveFails, Prune, PruneUnlink,
       PruneRemove, PruneFails, SaveFailed, Remove, Restore, Excuse

LEMMA OrderlyStep == OrderlyInv /\ [BackupNext]_backupVars => OrderlyInv'
<1> SUFFICES ASSUME OrderlyInv, [BackupNext]_backupVars
             PROVE  OrderlyInv'
    OBVIOUS
<1>1. BackupsInv'
    BY BackupsStep DEF OrderlyInv
<1>2. ASSUME ~excused'
      PROVE  InOrder'
    <2>1. CASE UNCHANGED backupVars
        BY <1>2, <2>1 DEF OrderlyInv, InOrder, backupVars, Active, Rows, GoodDumps
    <2>2. CASE BackupNext
        BY <1>2, <2>2, ExcusedStays, NextGood DEF OrderlyInv, Goodness
    <2> QED
        BY <2>1, <2>2
<1> QED
    BY <1>1, <1>2 DEF OrderlyInv

\* Pruning never takes the last good dump, for any number of backups and any positive
\* keepCount, unless dumps overlap, a query of the prune fails, or a user removes or restores one.
THEOREM LastGoodStays == BackupSpec => LastGoodKept
<1>1. BackupInit => OrderlyInv
    BY OrderlyStart
<1>2. OrderlyInv /\ [BackupNext]_backupVars => OrderlyInv'
    BY OrderlyStep
<1>3. OrderlyInv /\ [BackupNext]_backupVars
          => [GoodDumps # {} /\ ~excused' => GoodDumps' # {}]_backupVars
    <2> SUFFICES ASSUME OrderlyInv, BackupNext, GoodDumps # {}, ~excused'
                 PROVE  GoodDumps' # {}
        OBVIOUS
    <2> QED
        BY ExcusedStays, NextGood DEF OrderlyInv, Goodness
<1> QED
    BY <1>1, <1>2, <1>3, PTL DEF BackupSpec, LastGoodKept
-----------------------------------------------------------------------------
(***************************************************************************)
(* What is proved of the programme guide: an import that is answered has   *)
(* told the truth, for any files, any number of imports and deletions.     *)
(*                                                                         *)
(* The argument: what is left of a file is its end; each channel before it *)
(* has a row, and each programme before it is in the guide, unless the     *)
(* channel was deleted, which `removed' remembers.  Both stay so whatever  *)
(* other requests do, because ids are not given twice.                     *)
(***************************************************************************)
\* What is left of a sequence is its end.
Rest(part, whole) ==
    /\ Len(part) <= Len(whole)
    /\ \A n \in 1..Len(part) : part[n] = whole[Len(whole) - Len(part) + n]

Known(e, rows, gone) == e \in gone \/ \E chan \in rows : chan.epg = e

Told(show, at, r, rows, gone, progs) ==
    show.dated => \/ show.on \in gone
                  \/ \E chan \in rows, p \in progs :
                         chan.epg = show.on /\ p.row = chan.id /\ p.by = r /\ p.at = at

Declared(xml) == {xml.channels[c] : c \in DOMAIN xml.channels}

AtChannels == {"find", "load", "update", "insert"}
Underway   == AtChannels \cup {"map", "shows", "answered"}

\* Where the import of r stands in its file.
Stands(i) ==
    /\ i.file \in XmltvFiles
    /\ Rest(i.channels, i.file.channels) /\ Rest(i.shows, i.file.shows)
    /\ i.pc \in AtChannels <=> i.channels # <<>>
    /\ i.pc = "answered" => i.shows = <<>>

\* The rows of its channels are there.
Rowed(i, rows, gone) ==
    /\ \A n \in 1..(Len(i.file.channels) - Len(i.channels)) : Known(i.file.channels[n], rows, gone)
    /\ i.pc \in {"load", "update"} => Known(Head(i.channels), rows, gone)
    /\ i.pc = "shows" =>
          /\ \A e \in Declared(i.file) : Known(e, i.byEpgId, gone)
          /\ \A chan \in i.byEpgId : chan \in rows \/ chan.epg \in gone

\* The programmes it has come by are in the guide.
Listed(i, r, rows, gone, progs) ==
    \A n \in 1..(Len(i.file.shows) - Len(i.shows)) :
        i.file.shows[n].on \in Declared(i.file)
            => Told(i.file.shows[n], Len(i.file.shows) - n + 1, r, rows, gone, progs)

Truthful(i, r, rows, gone, progs) ==
    i.pc \in Underway => Stands(i) /\ Rowed(i, rows, gone) /\ Listed(i, r, rows, gone, progs)

EpgInv ==
    /\ EpgTypeOK
    /\ \A r \in Imports : import[r].id <= epgSerial
    /\ \A r \in Imports : Truthful(import[r], r, epgRows, removed[r], programmes)

----------------------------------------------------------------------------
LEMMA FileType ==
    ASSUME NEW xml \in XmltvFiles
    PROVE  xml.channels \in Seq(EpgIds) /\ xml.shows \in Seq(Programme)
BY EpgAssumption DEF XmltvFile

LEMMA RestWhole == ASSUME NEW S, NEW s \in Seq(S) PROVE Rest(s, s)
<1>1. Len(s) \in Nat
    OBVIOUS
<1>2. Len(s) <= Len(s) /\ \A n \in 1..Len(s) : Len(s) - Len(s) + n = n
    BY <1>1
<1> QED
    BY <1>2 DEF Rest

LEMMA OneMore ==
    ASSUME NEW a \in Nat, NEW b \in Nat
    PROVE  \A n \in 1..(a - b + 1) : n \in 1..(a - b) \/ n = a - b + 1
OBVIOUS

\* The next of what is left.
LEMMA RestTail ==
    ASSUME NEW S, NEW part \in Seq(S), NEW whole \in Seq(S), Rest(part, whole), part # <<>>
    PROVE  /\ Tail(part) \in Seq(S) /\ Rest(Tail(part), whole)
           /\ Len(whole) - Len(Tail(part)) = Len(whole) - Len(part) + 1
           /\ Len(whole) - Len(part) + 1 \in 1..Len(whole)
           /\ Head(part) = whole[Len(whole) - Len(part) + 1]
           /\ Len(part) = Len(whole) - (Len(whole) - Len(part) + 1) + 1
<1>1. /\ Tail(part) \in Seq(S) /\ Len(Tail(part)) = Len(part) - 1
      /\ \A n \in 1..Len(Tail(part)) : Tail(part)[n] = part[n + 1]
    BY HeadTailProperties
<1>2. Len(part) \in Nat /\ Len(whole) \in Nat /\ Len(part) # 0 /\ Head(part) = part[1]
    BY EmptySeq
<1>3. Len(part) <= Len(whole)
    BY DEF Rest
<1>4. /\ Len(whole) - Len(Tail(part)) = Len(whole) - Len(part) + 1
      /\ Len(whole) - Len(part) + 1 \in 1..Len(whole)
      /\ Len(part) = Len(whole) - (Len(whole) - Len(part) + 1) + 1
      /\ Len(Tail(part)) <= Len(whole) /\ 1 \in 1..Len(part)
    BY <1>1, <1>2, <1>3
<1>5. Head(part) = whole[Len(whole) - Len(part) + 1]
    BY <1>2, <1>4 DEF Rest
<1>6. ASSUME NEW n \in 1..Len(Tail(part))
      PROVE  Tail(part)[n] = whole[Len(whole) - Len(Tail(part)) + n]
    <2>1. n + 1 \in 1..Len(part) /\ n \in Int
        BY <1>1, <1>2
    <2>2. Len(whole) - Len(part) + (n + 1) = Len(whole) - Len(Tail(part)) + n
        BY <1>1, <1>2, <2>1
    <2> QED
        BY <1>1, <2>1, <2>2 DEF Rest
<1> QED
    BY <1>1, <1>4, <1>5, <1>6 DEF Rest

\* What is so of an import stays so while it rests.
LEMMA Steady ==
    ASSUME NEW r, NEW i \in Import, NEW rows, NEW gone, NEW progs, NEW rows2, NEW gone2, NEW progs2,
           Truthful(i, r, rows, gone, progs), gone \subseteq gone2,
           \A chan \in rows : chan \in rows2 \/ chan.epg \in gone2,
           \A chan \in rows2, p \in progs : p.row = chan.id => p \in progs2 \/ chan.epg \in gone2
    PROVE  Truthful(i, r, rows2, gone2, progs2)
<1>1. \A e : Known(e, rows, gone) => Known(e, rows2, gone2)
    BY DEF Known
<1>2. \A e : Known(e, i.byEpgId, gone) => Known(e, i.byEpgId, gone2)
    BY DEF Known
<1>3. \A show, at : Told(show, at, r, rows, gone, progs) => Told(show, at, r, rows2, gone2, progs2)
    BY DEF Told
<1> SUFFICES ASSUME i.pc \in Underway
             PROVE  Stands(i) /\ Rowed(i, rows2, gone2) /\ Listed(i, r, rows2, gone2, progs2)
    BY DEF Truthful
<1>4. Rowed(i, rows2, gone2)
    BY <1>1, <1>2 DEF Truthful, Rowed
<1>5. Listed(i, r, rows2, gone2, progs2)
    BY <1>3 DEF Truthful, Listed
<1> QED
    BY <1>4, <1>5 DEF Truthful

\* An import goes on, and adds to the guide or not.
LEMMA Proceeds ==
    ASSUME EpgInv, NEW r \in Imports, NEW i \in Import, ImportGoes(r, i),
           epgRows \subseteq epgRows', programmes \subseteq programmes',
           epgRows' \subseteq EpgRow,
           \A a, b \in epgRows' : a.id = b.id \/ a.epg = b.epg => a = b,
           \A chan \in epgRows' : chan.id <= epgSerial',
           epgSerial' \in 0..EpgRowMax, epgSerial <= epgSerial',
           UNCHANGED <<removed, removals>>,
           i.id <= epgSerial', Truthful(i, r, epgRows', removed[r], programmes')
    PROVE  EpgInv'
<1>1. import \in [Imports -> Import] /\ epgSerial \in Int /\ epgSerial' \in Int
    BY EpgAssumption DEF EpgInv, EpgTypeOK
<1>2. /\ import' \in [Imports -> Import] /\ import'[r] = i
      /\ \A s \in Imports \ {r} : import'[s] = import[s]
    BY <1>1 DEF ImportGoes
<1>3. EpgTypeOK'
    BY <1>2 DEF EpgInv, EpgTypeOK
<1>4. ASSUME NEW s \in Imports \ {r}
      PROVE  import'[s].id <= epgSerial'
    <2>1. import[s].id \in Int /\ import[s].id <= epgSerial
        BY <1>1, EpgAssumption DEF EpgInv, Import
    <2> QED
        BY <1>1, <1>2, <2>1
<1>5. ASSUME NEW s \in Imports \ {r}
      PROVE  Truthful(import'[s], s, epgRows', removed'[s], programmes')
    <2>1. Truthful(import[s], s, epgRows, removed[s], programmes) /\ import[s] \in Import
        BY <1>1 DEF EpgInv
    <2>2. Truthful(import[s], s, epgRows', removed[s], programmes')
        BY <2>1, Steady
    <2> QED
        BY <1>2, <2>2
<1> QED
    BY <1>2, <1>3, <1>4, <1>5 DEF EpgInv

\* ... and adds nothing.
LEMMA Reads ==
    ASSUME EpgInv, NEW r \in Imports, NEW i \in Import, ImportGoes(r, i),
           UNCHANGED <<epgRows, programmes, epgSerial, removed, removals>>,
           i.id <= epgSerial, Truthful(i, r, epgRows, removed[r], programmes)
    PROVE  EpgInv'
<1>1. epgSerial <= epgSerial'
    BY EpgAssumption DEF EpgInv, EpgTypeOK
<1> QED
    BY <1>1, Proceeds DEF EpgInv, EpgTypeOK

LEMMA ImportType ==
    ASSUME EpgInv, NEW r \in Imports
    PROVE  /\ import[r] \in Import /\ import[r].id <= epgSerial
           /\ Truthful(import[r], r, epgRows, removed[r], programmes)
BY DEF EpgInv, EpgTypeOK

LEMMA FailsKeeps ==
    ASSUME EpgInv, NEW r \in Imports, ImportFails(r),
           UNCHANGED <<epgRows, programmes, epgSerial, removed, removals>>
    PROVE  EpgInv'
<1> DEFINE i == [import[r] EXCEPT !.pc = "failed"]
<1>1. i \in Import /\ i.pc = "failed" /\ i.id = import[r].id
    BY ImportType DEF Import
<1>2. ImportGoes(r, i)
    BY DEF ImportFails
<1> HIDE DEF i
<1>3. Truthful(i, r, epgRows, removed[r], programmes)
    BY <1>1 DEF Truthful, Underway, AtChannels
<1> QED
    BY <1>1, <1>2, <1>3, ImportType, Reads

LEMMA FindKeeps == ASSUME EpgInv, NEW r \in Imports, FindChannel(r) PROVE EpgInv'
<1>1. /\ import[r] \in Import /\ import[r].pc = "find" /\ import[r].id <= epgSerial
      /\ Stands(import[r]) /\ Rowed(import[r], epgRows, removed[r])
      /\ Listed(import[r], r, epgRows, removed[r], programmes)
    BY ImportType DEF FindChannel, Truthful, Underway, AtChannels
<1>2. UNCHANGED <<epgRows, programmes, epgSerial, removed, removals>>
    BY DEF FindChannel
<1>3. ASSUME NEW chan \in epgRows, chan.epg = Head(import[r].channels),
             ImportGoes(r, [import[r] EXCEPT !.pc = "load", !.id = chan.id])
      PROVE  EpgInv'
    <2> DEFINE i == [import[r] EXCEPT !.pc = "load", !.id = chan.id]
    <2>1. chan.id \in 0..EpgRowMax /\ chan.id <= epgSerial
        BY EpgAssumption DEF EpgInv, EpgTypeOK, EpgRow
    <2>2. /\ i \in Import /\ i.pc = "load" /\ i.id = chan.id /\ i.file = import[r].file
          /\ i.channels = import[r].channels /\ i.shows = import[r].shows
        BY <1>1, <2>1 DEF Import
    <2>3. ImportGoes(r, i)
        BY <1>3
    <2> HIDE DEF i
    <2>4. Stands(i) /\ Rowed(i, epgRows, removed[r]) /\ Listed(i, r, epgRows, removed[r], programmes)
        BY <1>1, <1>3, <2>2 DEF Stands, Rowed, Known, Listed, Declared, AtChannels
    <2> QED
        BY <1>2, <2>1, <2>2, <2>3, <2>4, Reads DEF Truthful
<1>4. ASSUME ImportGoes(r, [import[r] EXCEPT !.pc = "insert", !.id = 0])
      PROVE  EpgInv'
    <2> DEFINE i == [import[r] EXCEPT !.pc = "insert", !.id = 0]
    <2>1. 0 \in 0..EpgRowMax /\ 0 <= epgSerial
        BY EpgAssumption DEF EpgInv, EpgTypeOK
    <2>2. /\ i \in Import /\ i.pc = "insert" /\ i.id = 0 /\ i.file = import[r].file
          /\ i.channels = import[r].channels /\ i.shows = import[r].shows
        BY <1>1, <2>1 DEF Import
    <2>3. ImportGoes(r, i)
        BY <1>4
    <2> HIDE DEF i
    <2>4. Stands(i) /\ Rowed(i, epgRows, removed[r]) /\ Listed(i, r, epgRows, removed[r], programmes)
        BY <1>1, <2>2 DEF Stands, Rowed, Listed, Declared, AtChannels
    <2> QED
        BY <1>2, <2>1, <2>2, <2>3, <2>4, Reads DEF Truthful
<1> QED
    BY <1>3, <1>4 DEF FindChannel

LEMMA LoadKeeps == ASSUME EpgInv, NEW r \in Imports, LoadChannel(r) PROVE EpgInv'
<1> DEFINE there == \E chan \in epgRows : chan.id = import[r].id
           i     == [import[r] EXCEPT !.pc = IF there THEN "update" ELSE "insert"]
<1>1. /\ import[r] \in Import /\ import[r].pc = "load" /\ import[r].id <= epgSerial
      /\ Stands(import[r]) /\ Rowed(import[r], epgRows, removed[r])
      /\ Listed(import[r], r, epgRows, removed[r], programmes)
    BY ImportType DEF LoadChannel, Truthful, Underway, AtChannels
<1>2. UNCHANGED <<epgRows, programmes, epgSerial, removed, removals>> /\ ImportGoes(r, i)
    BY DEF LoadChannel
<1> HIDE DEF there
<1>3. /\ i \in Import /\ i.pc \in {"update", "insert"} /\ i.id = import[r].id
      /\ i.file = import[r].file /\ i.channels = import[r].channels /\ i.shows = import[r].shows
    BY <1>1 DEF Import
<1> HIDE DEF i
<1>4. Stands(i) /\ Rowed(i, epgRows, removed[r]) /\ Listed(i, r, epgRows, removed[r], programmes)
    BY <1>1, <1>3 DEF Stands, Rowed, Listed, Declared, AtChannels
<1> QED
    BY <1>1, <1>2, <1>3, <1>4, Reads DEF Truthful

\* The channel at which the import is has a row, or is deleted.
LEMMA ChannelDoneTruthful ==
    ASSUME NEW r, NEW old \in Import, NEW rows, NEW gone, NEW progs,
           old.pc \in {"update", "insert"}, Truthful(old, r, rows, gone, progs),
           Known(Head(old.channels), rows, gone)
    PROVE  /\ Onwards(old) \in Import /\ Onwards(old).id = 0
           /\ Truthful(Onwards(old), r, rows, gone, progs)
<1> DEFINE rest == Tail(old.channels)
           next == [old EXCEPT !.channels = rest, !.id = 0]
           i    == [next EXCEPT !.pc = Afterwards(next)]
<1>1. Stands(old) /\ Rowed(old, rows, gone) /\ Listed(old, r, rows, gone, progs)
    BY DEF Truthful, Underway, AtChannels
<1>2. /\ old.channels \in Seq(EpgIds) /\ old.channels # <<>>
      /\ old.file.channels \in Seq(EpgIds) /\ Rest(old.channels, old.file.channels)
    BY <1>1, FileType DEF Stands, AtChannels, Import
<1> DEFINE whole == old.file.channels
           at    == Len(whole) - Len(old.channels) + 1
<1>3. /\ rest \in Seq(EpgIds) /\ Rest(rest, whole) /\ Len(whole) - Len(rest) = at
      /\ at \in 1..Len(whole) /\ Head(old.channels) = whole[at]
    BY <1>2, RestTail
<1> HIDE DEF rest
<1>11. 0 \in 0..EpgRowMax
    BY EpgAssumption
<1>4. /\ next.channels = rest /\ next.file = old.file /\ next.shows = old.shows /\ next.id = 0
      /\ next \in Import
    BY <1>3, <1>11 DEF Import
<1>5. Afterwards(next) = IF rest = <<>> THEN "map" ELSE "find"
    BY <1>4 DEF Afterwards
<1> HIDE DEF next
<1>6. /\ i \in Import /\ i.channels = rest /\ i.file = old.file /\ i.shows = old.shows
      /\ i.id = 0 /\ i.pc = IF rest = <<>> THEN "map" ELSE "find"
    BY <1>4, <1>5 DEF Import
<1> HIDE DEF i
<1>7. Stands(i)
    BY <1>1, <1>3, <1>6 DEF Stands, AtChannels
<1>8. Rowed(i, rows, gone)
    <2>1. \A n \in 1..at : n \in 1..(Len(whole) - Len(old.channels)) \/ n = at
        <3>1. Len(whole) \in Nat /\ Len(old.channels) \in Nat
            BY <1>2
        <3> QED
            BY <3>1, OneMore
    <2>2. \A n \in 1..at : Known(whole[n], rows, gone)
        BY <1>1, <1>3, <2>1 DEF Rowed
    <2> QED
        BY <1>3, <1>6, <2>2 DEF Rowed
<1>9. Listed(i, r, rows, gone, progs)
    BY <1>1, <1>6 DEF Listed
<1>10. Truthful(i, r, rows, gone, progs)
    BY <1>7, <1>8, <1>9 DEF Truthful
<1> QED
    BY <1>6, <1>10 DEF i, next, rest, Onwards


LEMMA UpdateRowKeeps == ASSUME EpgInv, NEW r \in Imports, UpdateChannel(r) PROVE EpgInv'
<1>1. /\ import[r] \in Import /\ import[r].pc = "update"
      /\ Truthful(import[r], r, epgRows, removed[r], programmes)
    BY ImportType DEF UpdateChannel
<1>2. Known(Head(import[r].channels), epgRows, removed[r])
    BY <1>1 DEF Truthful, Rowed, Underway, AtChannels
<1>3. 0 <= epgSerial
    BY EpgAssumption DEF EpgInv, EpgTypeOK
<1>4. /\ UNCHANGED <<epgRows, programmes, epgSerial, removed, removals>>
      /\ ImportGoes(r, Onwards(import[r]))
    BY DEF UpdateChannel, ChannelDone
<1> QED
    BY <1>1, <1>2, <1>3, <1>4, ChannelDoneTruthful, Reads

LEMMA InsertRowKeeps == ASSUME EpgInv, NEW r \in Imports, InsertChannel(r) PROVE EpgInv'
<1> DEFINE epg   == Head(import[r].channels)
           fresh == import[r].id = 0
           chan   == [id |-> IF fresh THEN epgSerial' ELSE import[r].id, epg |-> epg]
<1>1. /\ import[r] \in Import /\ import[r].pc = "insert" /\ import[r].id <= epgSerial
      /\ Truthful(import[r], r, epgRows, removed[r], programmes)
    BY ImportType DEF InsertChannel
<1>2. UNCHANGED <<programmes, removed, removals>>
    BY DEF InsertChannel
<1>3. CASE ImportFails(r) /\ UNCHANGED <<epgRows, epgSerial>>
    BY <1>2, <1>3, FailsKeeps
<1>4. CASE /\ ~\E other \in epgRows : other.epg = epg \/ other.id = import[r].id
           /\ fresh => epgSerial < EpgRowMax
           /\ epgSerial' = IF fresh THEN epgSerial + 1 ELSE epgSerial
           /\ epgRows' = epgRows \cup {chan}
           /\ ChannelDone(r)
    <2>1. /\ epgSerial \in Int /\ 0 <= epgSerial /\ epgSerial <= EpgRowMax /\ EpgRowMax \in Int
          /\ import[r].id \in Int /\ 0 <= import[r].id
        BY <1>1, EpgAssumption DEF EpgInv, EpgTypeOK, Import
    <2>2. /\ epgSerial' \in 0..EpgRowMax /\ epgSerial <= epgSerial' /\ 0 <= epgSerial'
          /\ chan.id \in 1..EpgRowMax /\ chan.id <= epgSerial'
          /\ chan.id = import[r].id \/ chan.id > epgSerial
        BY <1>1, <1>4, <2>1
    <2>3. epg \in EpgIds
        <3>1. import[r].channels # <<>> /\ import[r].channels \in Seq(EpgIds)
            BY <1>1 DEF Truthful, Stands, Underway, AtChannels, Import
        <3> QED
            BY <3>1, HeadTailProperties
    <2>4. chan \in EpgRow /\ chan.epg = epg
        BY <2>2, <2>3 DEF EpgRow
    <2> HIDE DEF chan
    <2>5. epgRows' \subseteq EpgRow
        BY <1>4, <2>4 DEF EpgInv, EpgTypeOK
    <2>6. \A other \in epgRows : other.epg # chan.epg /\ other.id # chan.id
        <3> SUFFICES ASSUME NEW other \in epgRows
                     PROVE  other.epg # chan.epg /\ other.id # chan.id
            OBVIOUS
        <3>1. other.id <= epgSerial /\ other.id \in Int
            BY EpgAssumption DEF EpgInv, EpgTypeOK, EpgRow
        <3>2. ~(chan.id > epgSerial /\ other.id = chan.id)
            BY <2>1, <3>1
        <3> QED
            BY <1>4, <2>2, <2>4, <3>2
    <2>7. \A a, b \in epgRows' : a.id = b.id \/ a.epg = b.epg => a = b
        BY <1>4, <2>6 DEF EpgInv, EpgTypeOK
    <2>8. \A other \in epgRows' : other.id <= epgSerial'
        <3> SUFFICES ASSUME NEW other \in epgRows
                     PROVE  other.id <= epgSerial'
            BY <1>4, <2>2
        <3>1. other.id <= epgSerial /\ other.id \in Int
            BY EpgAssumption DEF EpgInv, EpgTypeOK, EpgRow
        <3> QED
            BY <2>1, <2>2, <3>1
    <2>9. Truthful(import[r], r, epgRows', removed[r], programmes)
        BY <1>1, <1>4, Steady
    <2>10. Known(epg, epgRows', removed[r])
        BY <1>4, <2>4 DEF Known
    <2>11. /\ Onwards(import[r]) \in Import /\ Onwards(import[r]).id = 0
           /\ Truthful(Onwards(import[r]), r, epgRows', removed[r], programmes)
        BY <1>1, <2>9, <2>10, ChannelDoneTruthful
    <2>12. Truthful(Onwards(import[r]), r, epgRows', removed[r], programmes')
        BY <1>2, <2>11
    <2>13. epgRows \subseteq epgRows' /\ programmes \subseteq programmes'
        BY <1>2, <1>4
    <2>14. ImportGoes(r, Onwards(import[r])) /\ Onwards(import[r]).id <= epgSerial'
        BY <1>4, <2>2, <2>11 DEF ChannelDone
    <2> HIDE DEF epg
    <2> QED
        BY <1>2, <2>2, <2>5, <2>7, <2>8, <2>11, <2>12, <2>13, <2>14, Proceeds
<1> QED
    BY <1>3, <1>4 DEF InsertChannel


LEMMA ImportKeeps == ASSUME EpgInv, NEW r \in Imports, ImportXmltv(r) PROVE EpgInv'
<1>1. /\ UNCHANGED <<epgRows, programmes, epgSerial, removals>>
      /\ removed' = [removed EXCEPT ![r] = {}] /\ import[r].pc = "none"
    BY DEF ImportXmltv
<1>2. /\ removed' \in [Imports -> SUBSET EpgIds] /\ removed'[r] = {}
      /\ \A s \in Imports \ {r} : removed'[s] = removed[s]
    BY <1>1 DEF EpgInv, EpgTypeOK
<1>3. ASSUME NEW i \in Import, ImportGoes(r, i), i.id <= epgSerial,
             Truthful(i, r, epgRows, {}, programmes)
      PROVE  EpgInv'
    <2>1. /\ import' \in [Imports -> Import] /\ import'[r] = i
          /\ \A s \in Imports \ {r} : import'[s] = import[s]
        BY <1>3 DEF ImportGoes, EpgInv, EpgTypeOK
    <2>2. EpgTypeOK'
        BY <1>1, <1>2, <2>1 DEF EpgInv, EpgTypeOK
    <2>3. \A s \in Imports : import'[s].id <= epgSerial'
        BY <1>1, <1>3, <2>1 DEF EpgInv
    <2>4. \A s \in Imports : Truthful(import'[s], s, epgRows', removed'[s], programmes')
        BY <1>1, <1>2, <1>3, <2>1 DEF EpgInv
    <2> QED
        BY <2>2, <2>3, <2>4 DEF EpgInv
<1>4. CASE ImportFails(r)
    <2> DEFINE i == [import[r] EXCEPT !.pc = "failed"]
    <2>1. i \in Import /\ i.pc = "failed" /\ i.id = import[r].id
        BY ImportType DEF Import
    <2>2. ImportGoes(r, i)
        BY <1>4 DEF ImportFails
    <2> HIDE DEF i
    <2>3. Truthful(i, r, epgRows, {}, programmes)
        BY <2>1 DEF Truthful, Underway, AtChannels
    <2> QED
        BY <1>3, <2>1, <2>2, <2>3, ImportType
<1>5. ASSUME NEW xml \in XmltvFiles,
             ImportGoes(r, [[Unasked EXCEPT !.file = xml, !.channels = xml.channels,
                                            !.shows = xml.shows] EXCEPT
                               !.pc = Afterwards([Unasked EXCEPT !.file = xml,
                                          !.channels = xml.channels, !.shows = xml.shows])])
      PROVE  EpgInv'
    <2> DEFINE start == [Unasked EXCEPT !.file = xml, !.channels = xml.channels,
                                        !.shows = xml.shows]
               i     == [start EXCEPT !.pc = Afterwards(start)]
    <2>1. xml.channels \in Seq(EpgIds) /\ xml.shows \in Seq(Programme)
        BY FileType
    <2>2. 0 \in 0..EpgRowMax /\ 0 <= epgSerial
        BY EpgAssumption DEF EpgInv, EpgTypeOK
    <2>3. /\ start \in Import /\ start.file = xml /\ start.channels = xml.channels
          /\ start.shows = xml.shows /\ start.id = 0
        BY <2>1, <2>2 DEF Unasked, Import
    <2>4. ImportGoes(r, i)
        BY <1>5
    <2> HIDE DEF start
    <2>5. Afterwards(start) = IF xml.channels = <<>> THEN "map" ELSE "find"
        BY <2>3 DEF Afterwards
    <2>6. /\ i \in Import /\ i.file = xml /\ i.channels = xml.channels /\ i.shows = xml.shows
          /\ i.id = 0 /\ i.pc = IF xml.channels = <<>> THEN "map" ELSE "find"
        BY <2>3, <2>5 DEF Import
    <2> HIDE DEF i
    <2>7. Stands(i)
        BY <2>1, <2>6, RestWhole DEF Stands, AtChannels
    <2>8. 1..(Len(xml.channels) - Len(xml.channels)) = {} /\ 1..(Len(xml.shows) - Len(xml.shows)) = {}
        <3>1. Len(xml.channels) \in Nat /\ Len(xml.shows) \in Nat
            BY <2>1
        <3> QED
            BY <3>1
    <2>9. Rowed(i, epgRows, {}) /\ Listed(i, r, epgRows, {}, programmes)
        BY <2>6, <2>8 DEF Rowed, Listed
    <2> QED
        BY <1>3, <2>2, <2>4, <2>6, <2>7, <2>9 DEF Truthful
<1> QED
    BY <1>4, <1>5 DEF ImportXmltv

LEMMA MapKeeps == ASSUME EpgInv, NEW r \in Imports, MapChannels(r) PROVE EpgInv'
<1> DEFINE i == [import[r] EXCEPT !.pc = "shows", !.byEpgId = epgRows]
<1>1. /\ import[r] \in Import /\ import[r].pc = "map" /\ import[r].id <= epgSerial
      /\ Stands(import[r]) /\ Rowed(import[r], epgRows, removed[r])
      /\ Listed(import[r], r, epgRows, removed[r], programmes)
    BY ImportType DEF MapChannels, Truthful, Underway, AtChannels
<1>2. UNCHANGED <<epgRows, programmes, epgSerial, removed, removals>> /\ ImportGoes(r, i)
    BY DEF MapChannels
<1>3. /\ i \in Import /\ i.pc = "shows" /\ i.id = import[r].id /\ i.byEpgId = epgRows
      /\ i.file = import[r].file /\ i.channels = import[r].channels /\ i.shows = import[r].shows
    BY <1>1 DEF Import, EpgInv, EpgTypeOK
<1> HIDE DEF i
<1>4. Stands(i) /\ Listed(i, r, epgRows, removed[r], programmes)
    BY <1>1, <1>3 DEF Stands, Listed, Declared, AtChannels
<1>5. i.channels = <<>> /\ i.file \in XmltvFiles
    BY <1>1, <1>3 DEF Stands, AtChannels
<1>6. \A e \in Declared(i.file) : Known(e, epgRows, removed[r])
    <2>1. /\ Len(i.file.channels) \in Nat /\ Len(i.channels) = 0
          /\ DOMAIN i.file.channels = 1..Len(i.file.channels)
        BY <1>5, FileType
    <2>2. Len(i.file.channels) - Len(i.channels) = Len(i.file.channels)
        BY <2>1
    <2> QED
        BY <1>1, <1>3, <2>1, <2>2 DEF Rowed, Declared
<1>7. Rowed(i, epgRows, removed[r])
    BY <1>1, <1>3, <1>6 DEF Rowed
<1> QED
    BY <1>1, <1>2, <1>3, <1>4, <1>7, Reads DEF Truthful

LEMMA AnswerKeeps == ASSUME EpgInv, NEW r \in Imports, AnswerImport(r) PROVE EpgInv'
<1> DEFINE i == [import[r] EXCEPT !.pc = "answered", !.byEpgId = {}]
<1>1. /\ import[r] \in Import /\ import[r].pc = "shows" /\ import[r].id <= epgSerial
      /\ Stands(import[r]) /\ Rowed(import[r], epgRows, removed[r])
      /\ Listed(import[r], r, epgRows, removed[r], programmes) /\ import[r].shows = <<>>
    BY ImportType DEF AnswerImport, Truthful, Underway, AtChannels
<1>2. UNCHANGED <<epgRows, programmes, epgSerial, removed, removals>> /\ ImportGoes(r, i)
    BY DEF AnswerImport
<1>3. /\ i \in Import /\ i.pc = "answered" /\ i.id = import[r].id
      /\ i.file = import[r].file /\ i.channels = import[r].channels /\ i.shows = import[r].shows
    BY <1>1 DEF Import
<1> HIDE DEF i
<1>4. /\ Stands(i) /\ Listed(i, r, epgRows, removed[r], programmes)
      /\ Rowed(i, epgRows, removed[r])
    BY <1>1, <1>3 DEF Stands, Rowed, Listed, Declared, AtChannels
<1> QED
    BY <1>1, <1>2, <1>3, <1>4, Reads DEF Truthful

\* A programme is saved, or skipped because nothing is promised of it.
LEMMA SaveKeeps == ASSUME EpgInv, NEW r \in Imports, SaveProgramme(r) PROVE EpgInv'
<1> DEFINE old   == import[r]
           show  == Head(old.shows)
           rows  == {chan \in old.byEpgId : chan.epg = show.on}
           i     == [old EXCEPT !.shows = Tail(old.shows)]
           whole == old.file.shows
           at    == Len(whole) - Len(old.shows) + 1
<1>1. /\ old \in Import /\ old.pc = "shows" /\ old.id <= epgSerial /\ old.shows # <<>>
      /\ Stands(old) /\ Rowed(old, epgRows, removed[r])
      /\ Listed(old, r, epgRows, removed[r], programmes)
    BY ImportType DEF SaveProgramme, Truthful, Underway, AtChannels
<1>2. UNCHANGED <<epgRows, epgSerial, removed, removals>>
    BY DEF SaveProgramme
<1>3. /\ old.shows \in Seq(Programme) /\ whole \in Seq(Programme) /\ Rest(old.shows, whole)
    BY <1>1, FileType DEF Stands, Import
<1>4. /\ Tail(old.shows) \in Seq(Programme) /\ Rest(Tail(old.shows), whole)
      /\ Len(whole) - Len(Tail(old.shows)) = at
      /\ at \in 1..Len(whole) /\ show = whole[at] /\ Len(old.shows) = Len(whole) - at + 1
    BY <1>1, <1>3, RestTail
<1>5. /\ i \in Import /\ i.pc = "shows" /\ i.id = old.id /\ i.file = old.file
      /\ i.channels = old.channels /\ i.shows = Tail(old.shows) /\ i.byEpgId = old.byEpgId
    BY <1>1, <1>4 DEF Import
<1>6. ASSUME ImportGoes(r, i), programmes \subseteq programmes',
             show.on \in Declared(old.file)
                 => Told(show, Len(old.shows), r, epgRows, removed[r], programmes')
      PROVE  EpgInv'
    <2> HIDE DEF i, show
    <2>1. Stands(i) /\ Rowed(i, epgRows, removed[r])
        BY <1>1, <1>4, <1>5 DEF Stands, Rowed, Declared, AtChannels
    <2>2. Listed(old, r, epgRows, removed[r], programmes')
        BY <1>1, <1>6 DEF Listed, Told
    <2>3. \A n \in 1..at : n \in 1..(Len(whole) - Len(old.shows)) \/ n = at
        <3>1. Len(whole) \in Nat /\ Len(old.shows) \in Nat
            BY <1>3
        <3> QED
            BY <3>1, OneMore
    <2>4. Listed(i, r, epgRows, removed[r], programmes')
        <3> HIDE DEF old, at
        <3>1. ASSUME NEW n \in 1..(Len(i.file.shows) - Len(i.shows)),
                     i.file.shows[n].on \in Declared(i.file)
              PROVE  Told(i.file.shows[n], Len(i.file.shows) - n + 1, r, epgRows, removed[r],
                          programmes')
            <4>1. n \in 1..at
                BY <1>4, <1>5 DEF at
            <4>2. CASE n = at
                BY <1>4, <1>5, <1>6, <3>1, <4>2
            <4>3. CASE n \in 1..(Len(whole) - Len(old.shows))
                BY <1>5, <2>2, <3>1, <4>3 DEF Listed
            <4> QED
                BY <2>3, <4>1, <4>2, <4>3
        <3> QED
            BY <3>1 DEF Listed
    <2>5. Truthful(i, r, epgRows', removed[r], programmes')
        BY <1>2, <2>1, <2>4 DEF Truthful
    <2>6. epgRows \subseteq epgRows' /\ epgSerial <= epgSerial' /\ i.id <= epgSerial'
        BY <1>1, <1>2, <1>5, EpgAssumption DEF EpgInv, EpgTypeOK
    <2> QED
        BY <1>2, <1>5, <1>6, <2>5, <2>6, Proceeds DEF EpgInv, EpgTypeOK
<1>7. CASE (rows = {} \/ ~show.dated) /\ ImportGoes(r, i) /\ UNCHANGED programmes
    <2>1. show.on \in Declared(old.file) /\ rows = {} => show.on \in removed[r]
        BY <1>1 DEF Rowed, Known
    <2>2. show.on \in Declared(old.file)
              => Told(show, Len(old.shows), r, epgRows, removed[r], programmes')
        BY <1>7, <2>1 DEF Told
    <2> QED
        BY <1>6, <1>7, <2>2
<1>8. ASSUME NEW chan \in rows, ImportGoes(r, i),
             programmes' = programmes \cup
                 {[row |-> chan.id, file |-> old.file, at |-> Len(old.shows), by |-> r]}
      PROVE  EpgInv'
    <2> DEFINE p == [row |-> chan.id, file |-> old.file, at |-> Len(old.shows), by |-> r]
    <2>1. p \in programmes' /\ p.row = chan.id /\ p.at = Len(old.shows) /\ p.by = r
          /\ programmes \subseteq programmes'
        BY <1>8
    <2> HIDE DEF p
    <2>2. chan.epg = show.on /\ (chan \in epgRows \/ chan.epg \in removed[r])
        BY <1>1 DEF Rowed
    <2>3. Told(show, Len(old.shows), r, epgRows, removed[r], programmes')
        BY <2>1, <2>2 DEF Told
    <2> QED
        BY <1>6, <1>8, <2>1, <2>3
<1>9. CASE ImportFails(r) /\ UNCHANGED programmes
    BY <1>2, <1>9, FailsKeeps
<1> QED
    BY <1>7, <1>8, <1>9 DEF SaveProgramme, Skipped

\* The programmes of a deleted channel go with it, and of no other.
LEMMA RemoveRowKeeps == ASSUME EpgInv, NEW chan \in epgRows, RemoveChannel(chan) PROVE EpgInv'
<1>1. /\ removals' = removals + 1 /\ removals < RemovalMax
      /\ epgRows' = epgRows \ {chan}
      /\ programmes' = {p \in programmes : p.row # chan.id}
      /\ removed' = [r \in Imports |-> removed[r] \cup {chan.epg}]
      /\ UNCHANGED <<epgSerial, import>>
    BY DEF RemoveChannel
<1>2. removals' \in 0..RemovalMax
    BY <1>1, EpgAssumption DEF EpgInv, EpgTypeOK
<1>3. chan.epg \in EpgIds
    BY DEF EpgInv, EpgTypeOK, EpgRow
<1>4. EpgTypeOK'
    BY <1>1, <1>2, <1>3 DEF EpgInv, EpgTypeOK
<1>5. \A kept \in epgRows', p \in programmes : p.row = kept.id => p \in programmes'
    BY <1>1 DEF EpgInv, EpgTypeOK
<1>6. ASSUME NEW r \in Imports
      PROVE  Truthful(import[r], r, epgRows', removed'[r], programmes')
    <2>1. removed[r] \subseteq removed'[r] /\ chan.epg \in removed'[r]
        BY <1>1
    <2>2. \A other \in epgRows : other \in epgRows' \/ other.epg \in removed'[r]
        BY <1>1, <2>1
    <2>3. import[r] \in Import /\ Truthful(import[r], r, epgRows, removed[r], programmes)
        BY ImportType
    <2> QED
        BY <1>5, <2>1, <2>2, <2>3, Steady
<1> QED
    BY <1>1, <1>4, <1>6 DEF EpgInv

----------------------------------------------------------------------------
LEMMA EpgStart == EpgInit => EpgInv
<1> SUFFICES ASSUME EpgInit
             PROVE  EpgInv
    OBVIOUS
<1>1. 0 \in 0..EpgRowMax /\ 0 \in 0..RemovalMax /\ 0 <= 0
    BY EpgAssumption
<1>2. Unasked \in Import /\ Unasked.pc = "none" /\ Unasked.id = 0
    BY <1>1 DEF Unasked, Import
<1>3. EpgTypeOK
    BY <1>1, <1>2 DEF EpgInit, EpgTypeOK
<1>4. \A r \in Imports : Truthful(import[r], r, epgRows, removed[r], programmes)
    BY <1>2 DEF EpgInit, Truthful, Underway, AtChannels
<1> QED
    BY <1>1, <1>2, <1>3, <1>4 DEF EpgInit, EpgInv

LEMMA EpgStep == EpgInv /\ [EpgNext]_epgVars => EpgInv'
<1> SUFFICES ASSUME EpgInv, [EpgNext]_epgVars
             PROVE  EpgInv'
    OBVIOUS
<1>1. CASE UNCHANGED epgVars
    BY <1>1 DEF epgVars, EpgInv, EpgTypeOK
<1>2. CASE EpgNext
    BY <1>2, ImportKeeps, FindKeeps, LoadKeeps, UpdateRowKeeps, InsertRowKeeps, MapKeeps,
       SaveKeeps, AnswerKeeps, RemoveRowKeeps DEF EpgNext
<1> QED
    BY <1>1, <1>2

\* Types, ids that are not given twice, and what every import has done so far.
THEOREM EpgInvHolds == EpgSpec => []EpgInv
<1>1. EpgInit => EpgInv
    BY EpgStart
<1>2. EpgInv /\ [EpgNext]_epgVars => EpgInv'
    BY EpgStep
<1> QED
    BY <1>1, <1>2, PTL DEF EpgSpec

\* An import that is answered has told the truth, for any files, requests and deletions.
THEOREM AnsweredImportsHold == EpgSpec => []GuideHolds
<1>1. EpgInv => GuideHolds
    <2> SUFFICES ASSUME EpgInv, NEW r \in Imports, import[r].pc = "answered",
                        NEW n \in DOMAIN import[r].file.shows,
                        import[r].file.shows[n].dated,
                        import[r].file.shows[n].on \in Declared(import[r].file)
                 PROVE  Told(import[r].file.shows[n], Len(import[r].file.shows) - n + 1, r,
                             epgRows, removed[r], programmes)
        BY DEF GuideHolds, Told, Declared
    <2>1. /\ Stands(import[r]) /\ Listed(import[r], r, epgRows, removed[r], programmes)
        BY ImportType DEF Truthful, Underway, AtChannels
    <2>2. import[r].shows = <<>> /\ import[r].file.shows \in Seq(Programme)
        BY <2>1, FileType DEF Stands
    <2>3. /\ DOMAIN import[r].file.shows = 1..Len(import[r].file.shows)
          /\ Len(import[r].file.shows) - Len(import[r].shows) = Len(import[r].file.shows)
        <3>1. Len(import[r].file.shows) \in Nat /\ Len(import[r].shows) = 0
            BY <2>2
        <3> QED
            BY <2>2, <3>1
    <2> QED
        BY <2>1, <2>3 DEF Listed
<1> QED
    BY <1>1, EpgInvHolds, PTL
-----------------------------------------------------------------------------
(***************************************************************************)
(* What is proved of the licence: the limit that is answered is the one of *)
(* the key activated last, whatever reads, writes and days come between.   *)
(*                                                                         *)
(* The argument: unless requests crossed, the row has the activated key,   *)
(* and so has the copy of it that a request answers from; a request that   *)
(* activates is alone, or is marked.  The status in the row may lag behind *)
(* the day: a request refreshes it before it answers from its copy.        *)
(***************************************************************************)
LicenceStatus == {"trial", "active", "grace", "expired"}
LicencePc     == {"idle", "select", "update", "current", "selectKey", "updateKey"}
LicenceRow    == [key : LicenceKey, status : LicenceStatus]

LicenceCall ==
    [pc : LicencePc, key : LicenceKey, entity : LicenceRow, diff : SUBSET {"key", "status"},
     due : Nat, shared : BOOLEAN]

LicenceTypeOK ==
    /\ licence \in LicenceRow
    /\ today \in Nat
    /\ call \in [LicenceCalls -> LicenceCall]
    /\ activated \in LicenceKey
    /\ crossed \in BOOLEAN

\* A row or entity of the activated key, whose status is of today or of an earlier day.
Fits(entity, key) ==
    /\ entity.key = key
    /\ entity.status = "trial" => key = Trial
    /\ key.expires = Never => entity.status # "expired"

\* Request q has what the limit is answered from.
Answers(q, key) ==
    q.pc \in {"select", "update", "current"} => Fits(q.entity, key) /\ maxChannels(q.entity) = q.due

\* Request q writes the key it was sent.
WritesKey(q) ==
    q.pc \in {"selectKey", "updateKey"} => q.key # Trial /\ q.entity = License(q.key, "active")

\* Nobody is at work beside an activation, unless it is marked.
Lonely(r) == \A s \in LicenceCalls \ {r} : call[s].pc = "idle"

LicenceInv ==
    /\ LicenceTypeOK
    /\ \A r \in LicenceCalls : Activating(r) => call[r].pc # "idle"
    /\ \A r \in LicenceCalls : Activating(r) /\ (~crossed \/ ~call[r].shared) => Lonely(r)
    /\ \A r \in LicenceCalls : WritesKey(call[r])
    /\ \A r \in LicenceCalls :
          call[r].pc = "updateKey" /\ ~call[r].shared => call[r].diff = Differs(call[r].entity)
    /\ ~crossed => Fits(licence, activated) /\ \A r \in LicenceCalls : Answers(call[r], activated)

LEMMA TrialType ==
    /\ Trial \in LicenceKey /\ License(Trial, "trial") \in LicenceRow
    /\ NoLicenceCall \in LicenceCall
BY DEF Trial, License, NoLicenceCall, LicenceKey, LicenceCall, LicenceRow, LicenceStatus, LicencePc

LEMMA LicenceStart == LicenceInit => LicenceInv
<1> SUFFICES ASSUME LicenceInit PROVE LicenceInv
  OBVIOUS
<1>1. LicenceTypeOK
  BY TrialType DEF LicenceInit, LicenceTypeOK
<1>2. Fits(licence, activated)
  BY DEF LicenceInit, Fits, License
<1>3. \A r \in LicenceCalls : call[r].pc = "idle" /\ call[r].key = Trial
  BY DEF LicenceInit, NoLicenceCall
<1> QED
  BY <1>1, <1>2, <1>3 DEF LicenceInv, Activating, WritesKey, Answers

\* The status that is re-evaluated gives the limit the key entitles to.
LEMMA Refreshed ==
    ASSUME LicenceTypeOK
    PROVE  /\ refreshStatus(licence) \in LicenceRow
           /\ Entitled \in Nat
           /\ Fits(licence, activated) =>
                 /\ Fits(refreshStatus(licence), activated)
                 /\ maxChannels(refreshStatus(licence)) = Entitled
<1> DEFINE entity == refreshStatus(licence)
           expiry == licence.key.expires
<1> USE LicensingAssumption
<1>1. licence = [key |-> licence.key, status |-> licence.status]
      /\ licence.key \in LicenceKey /\ licence.status \in LicenceStatus
  BY DEF LicenceTypeOK, LicenceRow
<1>2. expiry \in Nat \cup {Never} /\ licence.key.max \in Nat /\ today \in Nat
      /\ activated.max \in Nat /\ activated.expires \in Nat \cup {Never}
  BY <1>1 DEF LicenceTypeOK, LicenceKey
<1>3. CASE licence.status = "trial" \/ expiry = Never
  <2>1. entity = licence
    BY <1>3 DEF refreshStatus
  <2> QED
    BY <1>1, <1>2, <1>3, <2>1 DEF Fits, maxChannels, Entitled, Trial, Floor, LicenceTypeOK
<1>4. CASE licence.status # "trial" /\ expiry # Never
  <2>1. entity.key = licence.key /\ entity \in LicenceRow
        /\ (entity.status = "expired" <=> today >= expiry + GraceDays)
        /\ entity.status # "trial"
    BY <1>1, <1>2, <1>4 DEF refreshStatus, LicenceRow, LicenceStatus
  <2> QED
    BY <1>2, <1>4, <2>1 DEF Fits, maxChannels, Entitled, Floor
<1> QED
  BY <1>3, <1>4

LEMMA CurrentKeeps ==
    ASSUME LicenceInv, NEW r \in LicenceCalls, NEW key \in LicenceKeys \cup {Trial}, Current(r, key)
    PROVE  LicenceInv'
<1> DEFINE entity == refreshStatus(licence)
           o == Overlaps(r, key)
           q == [pc |-> IF entity # licence THEN "select" ELSE "current", key |-> key,
                 entity |-> entity, diff |-> {}, due |-> Entitled, shared |-> o]
<1>1. LicenceTypeOK
  BY DEF LicenceInv
<1>2. q \in LicenceCall /\ q.pc \in {"select", "current"}
  BY <1>1, Refreshed, LicensingAssumption, TrialType DEF LicenceCall, LicencePc, Overlaps, Beside
<1>3. /\ call[r].pc = "idle"
      /\ call' = [s \in LicenceCalls |->
              IF s = r THEN q ELSE [call[s] EXCEPT !.shared = @ \/ (o /\ call[s].pc # "idle")]]
      /\ crossed' = (crossed \/ o)
      /\ UNCHANGED <<licence, today, activated>>
  BY DEF Current
<1>4. \A s \in LicenceCalls \ {r} :
         /\ call[s] \in LicenceCall
         /\ call'[s] = [call[s] EXCEPT !.shared = @ \/ (o /\ call[s].pc # "idle")]
         /\ call'[s] \in LicenceCall
         /\ call'[s].pc = call[s].pc /\ call'[s].key = call[s].key
         /\ call'[s].entity = call[s].entity /\ call'[s].diff = call[s].diff
         /\ call'[s].due = call[s].due
         /\ call'[s].shared = (call[s].shared \/ (o /\ call[s].pc # "idle"))
  BY <1>1, <1>3 DEF LicenceTypeOK, LicenceCall, Overlaps, Beside
<1>5. call'[r] = q
  BY <1>3
<1> HIDE DEF q
<1>6. LicenceTypeOK'
  BY <1>1, <1>2, <1>3, <1>4, <1>5 DEF LicenceTypeOK, Overlaps, Beside
<1>7. \A s \in LicenceCalls : Activating(s)' => call'[s].pc # "idle"
  BY <1>2, <1>4, <1>5 DEF Activating, LicenceInv
<1>8. ASSUME NEW s \in LicenceCalls, Activating(s)', ~crossed' \/ ~call'[s].shared
      PROVE  Lonely(s)'
  <2>1. CASE s = r
    <3>1. ~o /\ key # Trial
      BY <1>3, <1>5, <1>8, <2>1 DEF Activating, q
    <3>2. ~Beside(r)
      BY <3>1 DEF Overlaps
    <3> QED
      BY <1>4, <2>1, <3>2 DEF Beside, Lonely
  <2>2. CASE s # r
    <3>1. Activating(s) /\ call[s].pc # "idle"
      BY <1>4, <1>8, <2>2 DEF Activating, LicenceInv
    <3>2. o
      BY <2>2, <3>1 DEF Overlaps, Beside
    <3> QED
      BY <1>3, <1>4, <1>8, <2>2, <3>1, <3>2
  <2> QED
    BY <2>1, <2>2
<1>9. \A s \in LicenceCalls : WritesKey(call'[s])
  <2>1. WritesKey(call'[r])
    BY <1>2, <1>5 DEF WritesKey
  <2>2. \A s \in LicenceCalls \ {r} : WritesKey(call[s])
    BY DEF LicenceInv
  <2>3. \A s \in LicenceCalls \ {r} : WritesKey(call'[s])
    BY <1>4, <2>2 DEF WritesKey
  <2> QED
    BY <2>1, <2>3
<1>10. ASSUME NEW s \in LicenceCalls, call'[s].pc = "updateKey", ~call'[s].shared
       PROVE  call'[s].diff = Differs(call[s].entity)' /\ call'[s].entity = call[s].entity
  <2>1. s # r
    BY <1>2, <1>5, <1>10
  <2>2. call[s].pc = "updateKey" /\ ~call[s].shared
    BY <1>4, <1>10, <2>1
  <2>3. call[s].diff = Differs(call[s].entity)
    BY <2>2 DEF LicenceInv
  <2>4. call'[s].entity = call[s].entity /\ call'[s].diff = call[s].diff /\ licence' = licence
    BY <1>3, <1>4, <2>1
  <2> QED
    BY <2>3, <2>4 DEF Differs
<1>11. ASSUME ~crossed'
       PROVE  Fits(licence', activated') /\ \A s \in LicenceCalls : Answers(call'[s], activated')
  <2>1. ~crossed /\ Fits(licence, activated)
    BY <1>3, <1>11 DEF LicenceInv
  <2>2. Answers(q, activated)
    BY <1>1, <2>1, Refreshed DEF Answers, q
  <2>3. \A s \in LicenceCalls \ {r} : Answers(call'[s], activated)
    BY <1>4, <2>1 DEF LicenceInv, Answers
  <2> QED
    BY <1>3, <1>5, <2>1, <2>2, <2>3
<1> QED
  BY <1>6, <1>7, <1>8, <1>9, <1>10, <1>11 DEF LicenceInv, Differs

\* A request goes on and writes nothing.
LEMMA GoesOn ==
    ASSUME LicenceInv, NEW r \in LicenceCalls, NEW q \in LicenceCall, LicenceGo(r, q),
           UNCHANGED <<licence, today, activated, crossed>>, call[r].pc # "idle",
           q.key # Trial => q.key = call[r].key /\ q.pc # "idle",
           q.shared \/ ~call[r].shared \/ q.key = Trial, WritesKey(q),
           q.pc = "updateKey" /\ ~q.shared => q.diff = Differs(q.entity),
           ~crossed => Answers(q, activated)
    PROVE  LicenceInv'
<1>1. call'[r] = q /\ \A s \in LicenceCalls \ {r} : call'[s] = call[s]
  BY DEF LicenceGo, LicenceInv, LicenceTypeOK
<1>2. LicenceTypeOK'
  BY DEF LicenceGo, LicenceInv, LicenceTypeOK
<1>3. \A s \in LicenceCalls : Activating(s)' => Activating(s) /\ call'[s].pc # "idle"
  BY <1>1 DEF Activating, LicenceInv
<1>4. \A s \in LicenceCalls : Lonely(s) => Lonely(s)'
  <2> TAKE s \in LicenceCalls
  <2> HAVE Lonely(s)
  <2>1. s = r
    BY DEF Lonely
  <2> QED
    BY <1>1, <2>1 DEF Lonely
<1>5. ASSUME NEW s \in LicenceCalls, Activating(s)', ~crossed' \/ ~call'[s].shared
      PROVE  Lonely(s)'
  <2>1. ~crossed \/ ~call[s].shared
    BY <1>1, <1>5 DEF Activating
  <2> QED
    BY <1>3, <1>4, <1>5, <2>1 DEF LicenceInv
<1> QED
  BY <1>1, <1>2, <1>3, <1>5 DEF LicenceInv, Differs

\* The row is written as request q says, which ends or goes on with what it has.
LEMMA UpdatedType ==
    ASSUME LicenceTypeOK, NEW r \in LicenceCalls
    PROVE  Updated(call[r]) \in LicenceRow
BY DEF LicenceTypeOK, LicenceCall, LicenceRow, Updated, License

LEMMA SaveStatusKeeps == ASSUME LicenceInv, NEW r \in LicenceCalls, SaveStatus(r) PROVE LicenceInv'
<1> DEFINE q == [call[r] EXCEPT !.pc = "current"]
<1>1. LicenceTypeOK /\ call[r] \in LicenceCall /\ call[r].pc = "update"
  BY DEF LicenceInv, LicenceTypeOK, SaveStatus
<1>2. /\ call'[r] = q /\ \A s \in LicenceCalls \ {r} : call'[s] = call[s]
      /\ q \in LicenceCall /\ q.pc = "current" /\ q.key = call[r].key /\ q.entity = call[r].entity
      /\ q.due = call[r].due /\ q.shared = call[r].shared
  BY <1>1 DEF SaveStatus, LicenceGo, LicenceTypeOK, LicenceCall, LicencePc
<1>3. LicenceTypeOK'
  BY <1>1, <1>2, UpdatedType DEF SaveStatus, LicenceTypeOK, LicenceGo
<1> HIDE DEF q
<1>4. \A s \in LicenceCalls : Activating(s)' => Activating(s) /\ call'[s].pc # "idle"
  BY <1>1, <1>2 DEF Activating, LicenceInv
<1>5. ASSUME NEW s \in LicenceCalls, Activating(s)', ~crossed' \/ ~call'[s].shared
      PROVE  Lonely(s)' /\ s = r
  <2>1. Lonely(s)
    BY <1>2, <1>4, <1>5 DEF LicenceInv, SaveStatus
  <2>2. s = r
    BY <1>1, <2>1 DEF Lonely
  <2> QED
    BY <1>2, <2>1, <2>2 DEF Lonely
<1>6. \A s \in LicenceCalls : WritesKey(call'[s])
  BY <1>2 DEF LicenceInv, WritesKey
<1>7. ASSUME NEW s \in LicenceCalls, call'[s].pc = "updateKey", ~call'[s].shared
      PROVE  FALSE
  BY <1>2, <1>5, <1>6, <1>7 DEF WritesKey, Activating
<1>8. ASSUME ~crossed'
      PROVE  Fits(licence', activated') /\ \A s \in LicenceCalls : Answers(call'[s], activated')
  <2>1. ~crossed /\ activated' = activated /\ licence' = Updated(call[r])
    BY <1>8 DEF SaveStatus
  <2>2. Fits(licence, activated) /\ Fits(call[r].entity, activated)
    BY <1>1, <2>1 DEF LicenceInv, Answers
  <2>3. Fits(Updated(call[r]), activated)
    BY <2>2 DEF Fits, Updated, License
  <2>4. \A s \in LicenceCalls : Answers(call'[s], activated)
    BY <1>1, <1>2, <2>1 DEF LicenceInv, Answers
  <2> QED
    BY <2>1, <2>3, <2>4
<1> QED
  BY <1>3, <1>4, <1>5, <1>6, <1>7, <1>8 DEF LicenceInv

\* An activation that was alone leaves its key.
LEMMA SaveKeyKeeps == ASSUME LicenceInv, NEW r \in LicenceCalls, SaveKey(r) PROVE LicenceInv'
<1>1. LicenceTypeOK /\ call[r] \in LicenceCall /\ call[r].pc = "updateKey" /\ Activating(r)
      /\ call[r].entity = License(call[r].key, "active")
  BY DEF LicenceInv, LicenceTypeOK, SaveKey, WritesKey, Activating
<1>2. /\ call'[r] = NoLicenceCall /\ \A s \in LicenceCalls \ {r} : call'[s] = call[s]
      /\ crossed' = call[r].shared /\ activated' = call[r].key /\ licence' = Updated(call[r])
  BY <1>1 DEF SaveKey, LicenceGo, LicenceTypeOK
<1>3. LicenceTypeOK'
  BY <1>1, <1>2, UpdatedType, TrialType DEF SaveKey, LicenceTypeOK, LicenceGo, LicenceCall
<1>4. \A s \in LicenceCalls : Activating(s)' => s # r /\ Activating(s) /\ call'[s].pc # "idle"
  BY <1>2 DEF Activating, LicenceInv, NoLicenceCall
<1>5. ASSUME NEW s \in LicenceCalls, Activating(s)', ~crossed' \/ ~call'[s].shared
      PROVE  FALSE
  <2>1. s # r /\ Activating(s) /\ call[s].pc # "idle"
    BY <1>2, <1>4, <1>5
  <2>2. ~call[r].shared \/ ~call[s].shared
    BY <1>2, <1>5, <2>1
  <2>3. Lonely(r) \/ Lonely(s)
    BY <1>1, <2>1, <2>2 DEF LicenceInv
  <2> QED
    BY <1>1, <2>1, <2>3 DEF Lonely
<1>6. \A s \in LicenceCalls : WritesKey(call'[s])
  BY <1>2 DEF LicenceInv, WritesKey, NoLicenceCall
<1>7. ASSUME NEW s \in LicenceCalls, call'[s].pc = "updateKey", ~call'[s].shared
      PROVE  FALSE
  BY <1>5, <1>6, <1>7 DEF WritesKey, Activating
<1>8. ASSUME ~crossed'
      PROVE  Fits(licence', activated') /\ \A s \in LicenceCalls : Answers(call'[s], activated')
  <2>1. ~call[r].shared /\ Lonely(r) /\ call[r].diff = Differs(call[r].entity)
    BY <1>1, <1>2, <1>8 DEF LicenceInv
  <2>2. licence = [key |-> licence.key, status |-> licence.status]
    BY <1>1 DEF LicenceTypeOK, LicenceRow
  <2>3. licence' = License(call[r].key, "active")
    BY <1>1, <1>2, <2>1, <2>2 DEF Updated, Differs, License
  <2>4. Fits(licence', activated')
    BY <1>2, <2>3 DEF Fits, License
  <2>5. \A s \in LicenceCalls : call'[s].pc = "idle"
    BY <1>2, <2>1 DEF Lonely, NoLicenceCall
  <2> QED
    BY <2>4, <2>5 DEF Answers
<1> QED
  BY <1>3, <1>4, <1>5, <1>6, <1>7, <1>8 DEF LicenceInv

LEMMA OtherCallsKeep ==
    ASSUME LicenceInv, NEW r \in LicenceCalls, SaveSelect(r) \/ Activate(r) \/ Answer(r)
    PROVE  LicenceInv'
<1>1. LicenceTypeOK /\ call[r] \in LicenceCall /\ WritesKey(call[r])
  BY DEF LicenceInv, LicenceTypeOK
<1>2. CASE SaveSelect(r)
  <2> DEFINE q == [call[r] EXCEPT !.diff = Differs(call[r].entity),
                                  !.pc = IF @ = "select" THEN "update" ELSE "updateKey"]
  <2>1. /\ q \in LicenceCall /\ q.key = call[r].key /\ q.entity = call[r].entity
        /\ q.due = call[r].due /\ q.shared = call[r].shared /\ q.diff = Differs(q.entity)
        /\ q.pc = IF call[r].pc = "select" THEN "update" ELSE "updateKey"
    BY <1>1 DEF LicenceCall, LicencePc, Differs
  <2>2. /\ LicenceGo(r, q) /\ call[r].pc \in {"select", "selectKey"}
        /\ UNCHANGED <<licence, today, activated, crossed>>
    BY <1>2 DEF SaveSelect
  <2> HIDE DEF q
  <2>3. WritesKey(q)
    BY <1>1, <2>1, <2>2 DEF WritesKey
  <2>4. ~crossed => Answers(q, activated)
    BY <2>1, <2>2 DEF LicenceInv, Answers
  <2> QED
    BY <2>1, <2>2, <2>3, <2>4, GoesOn DEF Activating
<1>3. CASE Activate(r)
  <2> DEFINE q == [call[r] EXCEPT !.pc = "selectKey", !.entity = License(call[r].key, "active")]
  <2>1. q \in LicenceCall /\ q.key = call[r].key /\ q.entity = License(q.key, "active")
        /\ q.shared = call[r].shared /\ q.pc = "selectKey" /\ q.key # Trial
    BY <1>1, <1>3 DEF LicenceCall, LicencePc, License, LicenceRow, LicenceStatus, Activate, Activating
  <2>2. /\ LicenceGo(r, q) /\ call[r].pc = "current"
        /\ UNCHANGED <<licence, today, activated, crossed>>
    BY <1>3 DEF Activate
  <2> HIDE DEF q
  <2>3. WritesKey(q) /\ Answers(q, activated)
    BY <2>1 DEF WritesKey, Answers
  <2> QED
    BY <2>1, <2>2, <2>3, GoesOn
<1>4. CASE Answer(r)
  <2>1. /\ LicenceGo(r, NoLicenceCall) /\ call[r].pc = "current"
        /\ UNCHANGED <<licence, today, activated, crossed>>
    BY <1>4 DEF Answer
  <2>2. NoLicenceCall.pc = "idle" /\ NoLicenceCall.key = Trial
    BY DEF NoLicenceCall
  <2>3. WritesKey(NoLicenceCall) /\ Answers(NoLicenceCall, activated)
    BY <2>2 DEF WritesKey, Answers
  <2> QED
    BY <2>1, <2>2, <2>3, TrialType, GoesOn
<1> QED
  BY <1>2, <1>3, <1>4

\* The inductive invariant: what the row and the requests hold of the activated key.
THEOREM LicenceInvHolds == LicenceSpec => []LicenceInv
<1>1. LicenceInv /\ [LicenceNext]_licenceVars => LicenceInv'
  <2> SUFFICES ASSUME LicenceInv, [LicenceNext]_licenceVars PROVE LicenceInv'
    OBVIOUS
  <2>1. ASSUME NEW r \in LicenceCalls, NEW key \in {k \in LicenceKeys : verifyKey(k)} \cup {Trial},
               Current(r, key)
        PROVE  LicenceInv'
    BY <2>1, CurrentKeeps
  <2>2. ASSUME NEW r \in LicenceCalls,
               SaveSelect(r) \/ SaveStatus(r) \/ Activate(r) \/ SaveKey(r) \/ Answer(r)
        PROVE  LicenceInv'
    BY <2>2, SaveStatusKeeps, SaveKeyKeeps, OtherCallsKeep
  <2>3. CASE DayPasses \/ UNCHANGED licenceVars
    <3>1. UNCHANGED <<licence, call, activated, crossed>> /\ today' \in Nat
      BY <2>3 DEF DayPasses, licenceVars, LicenceInv, LicenceTypeOK
    <3> QED
      BY <3>1 DEF LicenceInv, LicenceTypeOK, Activating, Lonely, Differs
  <2> QED
    BY <2>1, <2>2, <2>3 DEF LicenceNext
<1> QED
  BY <1>1, LicenceStart, PTL DEF LicenceSpec

\* The limit on channels is the activated key's, however reads, refreshes of the status and
\* days interleave, unless an activation ran beside another request.
THEOREM LimitStaysTheKeys == LicenceSpec => []LimitFollowsKey
<1>1. LicenceInv => LimitFollowsKey
  BY DEF LicenceInv, LimitFollowsKey, Answers
<1> QED
  BY <1>1, LicenceInvHolds, PTL
-----------------------------------------------------------------------------
(***************************************************************************)
(* What is proved of the panel: when nothing is under way, an open page    *)
(* shows the status in the row, but for the five ways to fall behind.      *)
(*                                                                         *)
(* The argument: while no cause is on record and no update waits to be     *)
(* published, the last event on the wire is what the row says, and with an *)
(* empty wire the page shows it.                                           *)
(***************************************************************************)
\* Nobody is between the row and the event.
AllTold == \A u \in Updates : update[u] = "none"

Watches == page \in {"open", "again"}

\* What the page is going to show when all that is on its way has arrived.
Follows == IF wire = <<>> THEN Watches => shows = status ELSE wire[Len(wire)] = status

PanelInv ==
    /\ update \in [Updates -> PanelStates \cup {"none"}]
    /\ wire \in Seq(PanelStates)
    /\ page \in {"closed", "asking", "open", "again"}
    /\ why = {} /\ AllTold => Follows

LEMMA PanelStart == PanelInit => PanelInv
BY DEF PanelInit, PanelInv, AllTold, Follows, Watches

\* A step with a reason leaves a reason, or a page that agrees.
LEMMA CauseTold ==
    ASSUME NEW reasons, Cause(reasons), why' = {}
    PROVE  (why = {} /\ reasons = {}) \/ (shows' = status' /\ ~InFlight' /\ page' = "open")
BY DEF Cause

\* At rest and agreeing there is nothing left to follow.
LEMMA AgreesFollows == shows' = status' /\ ~InFlight' => Follows'
BY DEF InFlight, Follows

LEMMA Sent ==
    ASSUME PanelInv, NEW s \in PanelStates, Published(s), joined
    PROVE  wire' \in Seq(PanelStates) /\ wire' # <<>> /\ wire'[Len(wire')] = s
BY DEF PanelInv, Published

LEMMA PublishedType ==
    ASSUME PanelInv, NEW s \in PanelStates, Published(s)
    PROVE  wire' \in Seq(PanelStates)
BY DEF PanelInv, Published

LEMMA WorkerKeeps ==
    ASSUME PanelInv,
           \/ \E u \in Updates :
                 PublishState(u) \/ PublishLost(u) \/ \E s \in PanelStates : WriteState(u, s)
           \/ WorkerLost \/ Progress \/ OutputEnds
           \/ ApiStarts \/ \E s \in PanelStates \cup {"starting"} : WriteBack(s)
    PROVE  PanelInv'
<1>1. ASSUME NEW u \in Updates, NEW s \in PanelStates, WriteState(u, s)
      PROVE  PanelInv'
  <2>1. ~AllTold' /\ update' \in [Updates -> PanelStates \cup {"none"}]
    BY <1>1, PanelAssumption DEF WriteState, AllTold, PanelInv
  <2> QED
    BY <1>1, <2>1 DEF WriteState, PanelInv, pageVars
<1>2. ASSUME NEW u \in Updates, PublishState(u)
      PROVE  PanelInv'
  <2> DEFINE s == update[u]
  <2>1. s \in PanelStates /\ update' \in [Updates -> PanelStates \cup {"none"}]
    BY <1>2 DEF PublishState, PanelInv
  <2>2. wire' \in Seq(PanelStates) /\ page' = page
    BY <1>2, <2>1, PublishedType DEF PublishState, pageVars
  <2>3. ASSUME why' = {} PROVE Follows'
    <3>1. CASE Reasons(s) = {}
      <4>1. s = status /\ joined
        BY <3>1 DEF Reasons
      <4>2. wire' # <<>> /\ wire'[Len(wire')] = s
        BY <1>2, <2>1, <4>1, Sent DEF PublishState
      <4> QED
        BY <1>2, <4>1, <4>2 DEF PublishState, Follows
    <3> QED
      BY <1>2, <2>3, <3>1, CauseTold, AgreesFollows DEF PublishState
  <2> QED
    BY <2>1, <2>2, <2>3, PanelAssumption DEF PanelInv
<1>3. CASE Progress
  <2>1. wire' \in Seq(PanelStates) /\ page' = page /\ update' = update /\ status' = status
    BY <1>3, PublishedType, PanelAssumption DEF Progress, pageVars, workerVars
  <2>2. ASSUME why' = {} PROVE Follows'
    <3>1. CASE Reasons("running") = {}
      <4>1. "running" = status /\ joined
        BY <3>1 DEF Reasons
      <4>2. wire' # <<>> /\ wire'[Len(wire')] = "running"
        BY <1>3, <4>1, Sent, PanelAssumption DEF Progress
      <4> QED
        BY <2>1, <4>1, <4>2 DEF Follows
    <3> QED
      BY <1>3, <2>2, <3>1, CauseTold, AgreesFollows DEF Progress
  <2> QED
    BY <2>1, <2>2 DEF PanelInv
<1>4. CASE OutputEnds
  <2>1. UNCHANGED <<status, update, wire, pageVars>> /\ Cause({})
    BY <1>4 DEF OutputEnds
  <2>2. why' = {} /\ AllTold' => Follows'
    BY <2>1, CauseTold, AgreesFollows DEF PanelInv, pageVars, AllTold, Follows, Watches
  <2> QED
    BY <2>1, <2>2 DEF PanelInv, pageVars
<1>5. CASE ApiStarts \/ \E s \in PanelStates \cup {"starting"} : WriteBack(s)
  <2>1. /\ UNCHANGED <<update, wire, pageVars>>
        /\ Cause({"silent"}) \/ (status' = status /\ Cause({}))
    BY <1>5 DEF ApiStarts, WriteBack
  <2>2. CASE Cause({"silent"})
    BY <2>1, <2>2, CauseTold, AgreesFollows DEF PanelInv, pageVars
  <2>3. CASE status' = status /\ Cause({})
    <3>1. why' = {} /\ AllTold' => Follows'
      BY <2>1, <2>3, CauseTold, AgreesFollows DEF PanelInv, pageVars, AllTold, Follows, Watches
    <3> QED
      BY <2>1, <3>1 DEF PanelInv, pageVars
  <2> QED
    BY <2>1, <2>2, <2>3
<1>6. CASE WorkerLost \/ \E u \in Updates : PublishLost(u)
  <2>1. /\ UNCHANGED <<status, wire, pageVars>>
        /\ update' \in [Updates -> PanelStates \cup {"none"}]
        /\ Cause({"lost"}) \/ (update' = update /\ Cause({}))
    BY <1>6 DEF PublishLost, WorkerLost, PanelInv
  <2>2. why' = {} /\ AllTold' => Follows'
    BY <2>1, CauseTold, AgreesFollows DEF PanelInv, pageVars, AllTold, Follows, Watches
  <2> QED
    BY <2>1, <2>2 DEF PanelInv, pageVars
<1> QED
  BY <1>1, <1>2, <1>3, <1>4, <1>5, <1>6

LEMMA SocketKeeps == ASSUME PanelInv, Connects \/ Refused \/ Breaks PROVE PanelInv'
<1>1. UNCHANGED <<workerVars, pageVars>>
  BY DEF Connects, Refused, Breaks
<1>2. wire' \in Seq(PanelStates)
  <2>1. wire' = wire \/ wire' = <<>>
    BY DEF Connects, Refused, Breaks
  <2> QED
    BY <2>1, EmptySeq DEF PanelInv
<1>3. ASSUME why' = {}, AllTold' PROVE Follows'
  <2>1. CASE wire' = wire /\ Cause({})
    BY <1>1, <1>3, <2>1, CauseTold, AgreesFollows
       DEF PanelInv, pageVars, workerVars, AllTold, Follows, Watches
  <2>2. CASE wire # <<>> /\ Cause({"missed"})
    BY <1>3, <2>2, CauseTold, AgreesFollows
  <2> QED
    BY <2>1, <2>2 DEF Connects, Refused, Breaks
<1> QED
  BY <1>1, <1>2, <1>3 DEF PanelInv, pageVars, workerVars

LEMMA PageKeeps ==
    ASSUME PanelInv, OpenPage \/ LoadAgain \/ ReadList \/ ListArrives \/ Deliver \/ ClosePage \/ LogOut
    PROVE  PanelInv'
<1> USE DEF pageVars, workerVars
<1>1. UNCHANGED workerVars /\ page' \in {"closed", "asking", "open", "again"}
  BY DEF OpenPage, LoadAgain, ReadList, ListArrives, Deliver, ClosePage, LogOut, PanelInv
<1>2. wire' \in Seq(PanelStates)
  <2>1. wire' = wire \/ wire' = <<>> \/ (wire # <<>> /\ wire' = Tail(wire))
    BY DEF OpenPage, LoadAgain, ReadList, ListArrives, Deliver, ClosePage, LogOut
  <2> QED
    BY <2>1, EmptySeq, HeadTailProperties DEF PanelInv
<1>3. ASSUME why' = {}, AllTold' PROVE Follows'
  <2>1. AllTold
    BY <1>1, <1>3 DEF AllTold
  <2>2. CASE OpenPage \/ LoadAgain \/ ReadList \/ ClosePage
    BY <1>1, <1>3, <2>1, <2>2, CauseTold, AgreesFollows
       DEF PanelInv, Follows, Watches, OpenPage, LoadAgain, ReadList, ClosePage
  <2>3. CASE ListArrives
    <3>1. CASE listed = status
      BY <1>1, <1>3, <2>1, <2>3, <3>1, CauseTold, AgreesFollows DEF PanelInv, Follows, ListArrives
    <3>2. CASE listed # status
      BY <1>3, <2>3, <3>2, CauseTold, AgreesFollows DEF ListArrives
    <3> QED
      BY <3>1, <3>2
  <2>4. CASE Deliver
    <3>1. CASE page = "asking"
      BY <1>3, <2>4, <3>1, CauseTold, AgreesFollows DEF Deliver
    <3>2. CASE page # "asking" /\ why = {}
      <4>1. wire # <<>> /\ wire' = Tail(wire) /\ wire[Len(wire)] = status
        BY <2>1, <2>4, <3>2 DEF Deliver, PanelInv, Follows
      <4>2. CASE wire' = <<>>
        <5>1. Len(wire) = 1
          <6>1. wire \in Seq(PanelStates) /\ wire # <<>> /\ Tail(wire) = <<>>
            BY <4>1, <4>2 DEF PanelInv
          <6>2. Len(Tail(wire)) = Len(wire) - 1 /\ Len(wire) \in Nat
            BY <6>1, HeadTailProperties, LenProperties
          <6>3. Len(Tail(wire)) = 0
            BY <6>1, EmptySeq
          <6> QED
            BY <6>2, <6>3
        <5>2. Head(wire) = status
          BY <4>1, <5>1 DEF PanelInv
        <5>3. page' = page /\ (page \in {"open", "again"} => shows' = status)
          BY <2>4, <5>2 DEF Deliver, Shown
        <5> QED
          BY <1>1, <4>2, <5>3 DEF Follows, Watches
      <4>3. CASE wire' # <<>>
        BY <1>1, <4>1, <4>3 DEF PanelInv, Follows
      <4> QED
        BY <4>2, <4>3
    <3> QED
      BY <1>3, <2>4, <3>1, <3>2, CauseTold, AgreesFollows DEF Deliver
  <2>5. CASE LogOut
    <3>1. CASE wire' = wire
      BY <1>1, <1>3, <2>1, <2>5, <3>1, CauseTold, AgreesFollows DEF PanelInv, Follows, Watches, LogOut
    <3>2. CASE wire' # wire
      BY <1>3, <2>5, <3>2, CauseTold, AgreesFollows DEF LogOut
    <3> QED
      BY <3>1, <3>2
  <2> QED
    BY <2>2, <2>3, <2>4, <2>5
<1> QED
  BY <1>1, <1>2, <1>3 DEF PanelInv

\* The inductive invariant: what is published, and what the page will show of it.
THEOREM PanelInvHolds == PanelSpec => []PanelInv
<1>1. PanelInv /\ [PanelNext]_panelVars => PanelInv'
  <2> SUFFICES ASSUME PanelInv, [PanelNext]_panelVars PROVE PanelInv'
    OBVIOUS
  <2>1. CASE PanelNext
    BY <2>1, WorkerKeeps, SocketKeeps, PageKeeps DEF PanelNext
  <2>2. CASE UNCHANGED panelVars
    BY <2>2 DEF panelVars, workerVars, socketVars, pageVars, PanelInv, AllTold, Follows, Watches
  <2> QED
    BY <2>1, <2>2
<1> QED
  BY <1>1, PanelStart, PTL DEF PanelSpec

\* A page at rest shows the status that updateState wrote last, for any number of updates,
\* events and reconnects, unless one of the five recorded causes has put it behind:
\* among them an update whose event was lost with the worker or in Redis, and a write of the
\* row by an edit or a restored backup.
THEOREM PanelKeepsUp == PanelSpec => []PanelAgrees
<1>1. PanelInv => PanelAgrees
  BY DEF PanelInv, PanelAgrees, InFlight, AllTold, Follows, Watches
<1> QED
  BY <1>1, PanelInvHolds, PTL
=============================================================================
