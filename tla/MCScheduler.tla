---------------------------- MODULE MCScheduler -----------------------------
(***************************************************************************)
(* Scheduler for TLC, on three instances: "long", in which the clock,      *)
(* deployments, manual runs and an operator change one schedule; "race",   *)
(* in which two operators do so within one period; "wide", in which bulk   *)
(* requests meet two schedules and two jobs.                               *)
(***************************************************************************)
EXTENDS Scheduler

CONSTANTS s1, s2, j1, j2, hourly, daily, u1, u2

VARIABLE shape

\* One cron names every time, the other every second one.
TimesOf == [c \in Crons |-> IF c = hourly THEN 1 .. 8 ELSE {2, 4, 6, 8}]

Used(f) == {f[s] : s \in Schedules} \ {NoDef}

OneSchedule ==
    /\ state'[s2] = "none"
    /\ \A d \in Used(def') : d.job = j1
    /\ catalog'[j2] = catalog[j2] /\ run'[j2] = Idle

OneOperator == asOf'[u2] = NoRequest

OnePeriod == now' <= 1

Undisturbed ==
    /\ UNCHANGED catalog
    /\ \A j \in Jobs : run'[j] # Manual
    /\ \A d \in Used(def') : d.cron = hourly

MCInit ==
    /\ Init
    /\ shape \in {"long", "race", "wide"}
    /\ shape # "wide" => catalog[j2] = "historical"

MCNext ==
    /\ Steps
    /\ CASE shape = "long" -> OneSchedule /\ OneOperator
         [] shape = "race" -> OneSchedule /\ OnePeriod
         [] shape = "wide" -> OneOperator /\ OnePeriod /\ Undisturbed
    /\ UNCHANGED shape

MCSpec == MCInit /\ [][MCNext]_<<shape, vars>> /\ Fairness
=============================================================================
