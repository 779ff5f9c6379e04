-------------------------- MODULE StreamLifecycle --------------------------
(***************************************************************************)
(* What the supervisor promises about a channel, without jobs, rows or     *)
(* processes: a channel is down, up, being stopped, or between a crash and *)
(* its restart.  A stop that was asked for ends down, never in a restart;  *)
(* a crash is followed by at most RestartMax restarts (0 is "no limit")    *)
(* and only when the channel asks for them; and a channel is started only  *)
(* when it is down, so it never has two encoders.                          *)
(* README.md "Crash detection, auto-restart with backoff" and              *)
(* docs/ADMIN-GUIDE.md "auto restart with a restart limit".                *)
(***************************************************************************)
EXTENDS Naturals

CONSTANTS Channels, AutoRestart, RestartMax

VARIABLES
    phase,    \* phase[c]
    retries   \* retries[c]: restarts since c was asked to run, if limited

lifecycleVars == <<phase, retries>>

Phase == {"down", "up", "stopping", "ending", "retrying"}

LifecycleTypeOK ==
    /\ phase \in [Channels -> Phase]
    /\ retries \in [Channels -> Nat]

LifecycleInit ==
    /\ phase = [c \in Channels |-> "down"]
    /\ retries = [c \in Channels |-> 0]

Go(c, from, to) ==
    /\ phase[c] = from
    /\ phase' = [phase EXCEPT ![c] = to]

Limited(c) == RestartMax > 0 => retries[c] < RestartMax

Start(c)   == Go(c, "down", "up") /\ retries' = [retries EXCEPT ![c] = 0]
AskStop(c) == Go(c, "up", "stopping") /\ UNCHANGED retries
Stopped(c) == Go(c, "stopping", "down") /\ UNCHANGED retries
Crash(c)   == Go(c, "up", "ending") /\ UNCHANGED retries
Retry(c)   == /\ Go(c, "ending", "retrying")
              /\ c \in AutoRestart /\ Limited(c)
              /\ UNCHANGED retries
Restart(c) == /\ Go(c, "retrying", "up")
              /\ Limited(c)
              /\ retries' = [retries EXCEPT ![c] = IF RestartMax = 0 THEN 0 ELSE @ + 1]
GiveUp(c)  == (Go(c, "ending", "down") \/ Go(c, "retrying", "down")) /\ UNCHANGED retries

\* The worker is lost and every encoder with it.
Lost == LifecycleInit'

LifecycleNext ==
    \/ \E c \in Channels :
          \/ Start(c) \/ AskStop(c) \/ Stopped(c) \/ Crash(c)
          \/ Retry(c) \/ Restart(c) \/ GiveUp(c)
    \/ Lost

LifecycleSpec == LifecycleInit /\ [][LifecycleNext]_lifecycleVars
=============================================================================
