----------------------------- MODULE MCScheduler -----------------------------
(* The scheduler with two cron expressions, up to four ways to save a flow *)
(* and two or three ticks.                                                *)
EXTENDS Scheduler, TLC

CONSTANTS c1, c2, h1, everyTick, lastTick

OneClient == {c1}
TwoClients == {c1, c2}
OneHandler == {h1}

CronTimes == everyTick :> 1..MaxTime @@ lastTick :> {MaxTime}

Saved(cron, end) ==
  [kind |-> "schedule", cron |-> cron, end |-> end, mode |-> TRUE, input |-> TRUE]

Often == Saved(everyTick, 0)
Late == Saved(lastTick, 0)
Ending == Saved(everyTick, MaxTime + 1)
Expiring == Saved(everyTick, 2)
BadCron == Saved(NoCron, 0)
NoInput == [Often EXCEPT !.input = FALSE]
NoMode == [Often EXCEPT !.mode = FALSE]
Blank == [NoMode EXCEPT !.input = FALSE]
Chat == [kind |-> "chat", cron |-> NoCron, end |-> 0, mode |-> FALSE, input |-> FALSE]

Lasting == {Often, Ending, Late, BadCron, NoInput, Blank, Chat}
Expirable == {Expiring, Chat}
Repaired == {BadCron, NoMode}
===========================================================================
