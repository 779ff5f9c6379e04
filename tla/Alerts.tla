------------------------------- MODULE Alerts -------------------------------
(***************************************************************************)
(* Threshold alerts: the samples of the worker (worker/metrics.service.ts),*)
(* what they publish, and the dispatcher of the API (modules/alerts), that *)
(* stores a notification of each alert and passes it on.                   *)
(*                                                                         *)
(* A sample is taken every five seconds whether the one before has ended   *)
(* or not.  Kinds of alerts are numbered in the order they are checked.    *)
(***************************************************************************)
EXTENDS Integers, FiniteSets

CONSTANTS
    AlertKinds,  \* of high_cpu, high_ram, low_disk: 1, 2, 3
    Samples,     \* bound: samples at a time
    Cooldown,    \* ALERT_COOLDOWN_MS
    ClockMax,    \* bound: the time that is looked at
    LifeMax,     \* bound: restarts of the worker
    AlertMax     \* bound: alerts on their way at a time

ASSUME AlertsAssumption ==
    AlertKinds \subseteq Nat /\ Cooldown \in Nat /\ ClockMax \in Nat /\ LifeMax \in Nat
    /\ AlertMax \in Nat

VARIABLES
    clock,
    life,         \* restarts of the worker
    lastAlertAt,  \* lastAlertAt[k] of the worker
    sample,       \* sample[s]: where it is, and the kinds it has left to check
    relay,        \* the alerts on their way to it
    dispatched,   \* dispatch() at work
    notifications

alertVars ==
    <<clock, life, lastAlertAt, sample, relay, dispatched, notifications>>

LongAgo  == -Cooldown
NoSample == [pc |-> "idle", todo |-> {}, kind |-> 0]

AlertsInit ==
    /\ clock = 0 /\ life = 0
    /\ lastAlertAt = [k \in AlertKinds |-> LongAgo]
    /\ sample = [s \in Samples |-> NoSample]
    /\ relay = {} /\ dispatched = {} /\ notifications = {}

----------------------------------------------------------------------------
(* The worker.                                                             *)

\* sample() finds some values over their thresholds; the metrics it publishes are not
\* looked at.
Measure(s) ==
    /\ sample[s].pc = "idle"
    /\ \E over \in SUBSET AlertKinds \ {{}} :
           sample' = [sample EXCEPT ![s] = [NoSample EXCEPT !.pc = "check", !.todo = over]]
    /\ UNCHANGED <<clock, life, lastAlertAt, relay, dispatched, notifications>>

Cooling(k) == clock - lastAlertAt[k] < Cooldown

\* Mutant of Noted: the time is noted when the alert has been published.
NotedLate(k, published) == IF published THEN [lastAlertAt EXCEPT ![k] = clock] ELSE lastAlertAt

\* The time of an alert is noted before it is published.
Noted(k, published) == IF published THEN lastAlertAt ELSE [lastAlertAt EXCEPT ![k] = clock]

\* checkThresholds() up to the next await: publish() of the first kind that is due.
CheckThresholds(s) ==
    LET due == {k \in sample[s].todo : ~Cooling(k)}
    IN  /\ sample[s].pc = "check"
        /\ \/ /\ due = {}
              /\ sample' = [sample EXCEPT ![s] = NoSample]
              /\ UNCHANGED <<lastAlertAt, relay>>
           \/ \E k \in due :
                 /\ \A j \in due : k <= j
                 /\ Cardinality(relay) + Cardinality(dispatched) < AlertMax
                 /\ sample' = [sample EXCEPT ![s] =
                        [pc |-> "publish", todo |-> {j \in sample[s].todo : j > k}, kind |-> k]]
                 /\ lastAlertAt' = Noted(k, FALSE)
                 /\ relay' = relay \cup {[kind |-> k, at |-> clock, life |-> life]}
        /\ UNCHANGED <<clock, life, dispatched, notifications>>

\* Redis has answered.
AlertPublished(s) ==
    /\ sample[s].pc = "publish"
    /\ lastAlertAt' = Noted(sample[s].kind, TRUE)
    /\ sample' = [sample EXCEPT ![s] = [sample[s] EXCEPT !.pc = "check", !.kind = 0]]
    /\ UNCHANGED <<clock, life, relay, dispatched, notifications>>

\* The worker forgets what it has raised.
WorkerRestarts ==
    /\ life < LifeMax /\ life' = life + 1
    /\ lastAlertAt' = [k \in AlertKinds |-> LongAgo]
    /\ sample' = [s \in Samples |-> NoSample]
    /\ UNCHANGED <<clock, relay, dispatched, notifications>>

----------------------------------------------------------------------------
(* The API.                                                                *)

\* dispatch() of an alert, which reads the settings first.
TakeAlert(alert) ==
    /\ alert \in relay
    /\ relay' = relay \ {alert}
    /\ dispatched' = dispatched \cup {[alert |-> alert, pc |-> "settings", quiet |-> FALSE]}
    /\ UNCHANGED <<clock, life, lastAlertAt, sample, notifications>>

\* The settings, which PUT /alerts/settings may change at any time, enable the kind or not.
ReadSettings(d) ==
    /\ d \in dispatched /\ d.pc = "settings"
    /\ \E quiet \in BOOLEAN :
           dispatched' = (dispatched \ {d}) \cup {[d EXCEPT !.pc = "store", !.quiet = quiet]}
    /\ UNCHANGED <<clock, life, lastAlertAt, sample, relay, notifications>>

\* The notification is stored whatever the settings say.
StoreNotification(d) ==
    /\ d \in dispatched /\ d.pc = "store"
    /\ notifications' = notifications \cup {d.alert}
    /\ dispatched' = (dispatched \ {d}) \cup (IF d.quiet THEN {} ELSE {[d EXCEPT !.pc = "send"]})
    /\ UNCHANGED <<clock, life, lastAlertAt, sample, relay>>

\* All transports at once; one that fails is only logged.
SendAlert(d) ==
    /\ d \in dispatched /\ d.pc = "send"
    /\ dispatched' = dispatched \ {d}
    /\ UNCHANGED <<clock, life, lastAlertAt, sample, relay, notifications>>

\* The API dies, as it does when a query of dispatch() fails, which nobody catches: what
\* is published before it has subscribed again is as lost as what it was at.
ApiRestarts ==
    /\ relay # {} \/ dispatched # {}
    /\ relay' = {} /\ dispatched' = {}
    /\ UNCHANGED <<clock, life, lastAlertAt, sample, notifications>>

----------------------------------------------------------------------------
TimePasses ==
    /\ clock < ClockMax /\ clock' = clock + 1
    /\ UNCHANGED <<life, lastAlertAt, sample, relay, dispatched, notifications>>

AlertsNext ==
    \/ \E s \in Samples : Measure(s) \/ CheckThresholds(s) \/ AlertPublished(s)
    \/ \E alert \in relay : TakeAlert(alert)
    \/ \E d \in dispatched : ReadSettings(d) \/ StoreNotification(d) \/ SendAlert(d)
    \/ WorkerRestarts \/ ApiRestarts \/ TimePasses

AlertsSpec == AlertsInit /\ [][AlertsNext]_alertVars

----------------------------------------------------------------------------
Alert == [kind : AlertKinds, at : 0..ClockMax, life : 0..LifeMax]

AlertsTypeOK ==
    /\ clock \in 0..ClockMax /\ life \in 0..LifeMax
    /\ lastAlertAt \in [AlertKinds -> {LongAgo} \cup 0..ClockMax]
    /\ sample \in [Samples -> [pc : {"idle", "check", "publish"}, todo : SUBSET AlertKinds,
                               kind : AlertKinds \cup {0}]]
    /\ relay \subseteq Alert /\ notifications \subseteq Alert
    /\ dispatched \subseteq [alert : Alert, pc : {"settings", "store", "send"}, quiet : BOOLEAN]

\* A value that stays over its threshold is told once per cooldown: however samples
\* overlap and whenever the API takes what they publish, two notifications of a kind are
\* that far apart, unless the worker was restarted in between.
AlertsSpaced ==
    \A a, b \in notifications :
        a.kind = b.kind /\ a.life = b.life /\ a.at < b.at => b.at - a.at >= Cooldown
=============================================================================
