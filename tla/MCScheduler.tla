----------------------------- MODULE MCScheduler -----------------------------
(* Instances of Scheduler for TLC. *)
EXTENDS Scheduler, TLC

\* "e1" fires every unit of time, "e2" every second one; "never" is an expression
\* with no firing (30 February), for which the cron library returns the zero time.
MCCronNext(e, n) ==
    CASE e = "e1" -> n + 1
      [] e = "e2" -> 2 * ((n \div 2) + 1)
      [] OTHER -> 0

\* Without the history variable: no action reads it.
View == <<now, tasks, profiles, runs, running, claim, loop, dueAt, due, cur, edit, phase, faults>>

NoneStored == {}
CronStored == {Cron("e1")}
MCStored == {Cron("e1"), Cron("bad"), Once(1)}

Symmetry == Permutations(Clients) \cup Permutations(RunIds) \cup Permutations(Tasks)
=============================================================================
