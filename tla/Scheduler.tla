------------------------------ MODULE Scheduler ------------------------------
(***************************************************************************)
(* The scheduler of agentflows: one flow, its schedule records, the jobs   *)
(* that fire them, the API requests that change them and the handlers of   *)
(* the jobs that fired.                                                    *)
(*                                                                         *)
(*   services/chatflows    saving, updating, deleting the flow             *)
(*   services/schedule     the ScheduleRecord table                        *)
(*   schedule/ScheduleBeat, queue/ScheduleQueue        the jobs            *)
(*   schedule/ScheduleExecutor       what happens when a job fires         *)
(*                                                                         *)
(* A request or a handler is a record with a pc; it is cut at every await  *)
(* that reads or writes the database or the jobs, so that other requests   *)
(* and handlers fit in between.  TypeORM's save(entity) writes every       *)
(* column of the entity it is given and inserts the row when it is gone.   *)
(*                                                                         *)
(* Time is counted in ticks.  A cron expression is the set of the ticks    *)
(* it matches; the last tick, MaxTime, comes round again and again.        *)
(***************************************************************************)
EXTENDS Naturals, FiniteSets

CONSTANTS
  Clients,       \* API requests that may be in progress at once
  Handlers,      \* bound: fired jobs handled at once
  Configs,       \* what the flow's Start node may be saved with
  Times,         \* cron expression -> the ticks it matches
  Fallback,      \* FALLBACK_CRON_EXPRESSION
  NoCron,        \* no valid cron expression; no job
  NoRec,         \* no such row of ScheduleRecord
  NoFlow,        \* the flow does not exist
  QueueMode,     \* MODE.QUEUE: BullMQ jobs and workers, else node-cron
  Interrupts,    \* whether a request may fail, or the process die, half-way
  MaxTime,       \* bound: the last tick
  MaxRequests,   \* bound: requests
  MaxRestarts    \* bound: restarts of the server

Crons == DOMAIN Times

(* kind: startInputType is "schedule" or something else; mode: a schedule  *)
(* input mode is set; input: isScheduleInputValid for it, or for the mode  *)
(* of the record when it is not set (the text mode); end: the end date, 0  *)
(* when there is none.                                                     *)
ConfigType ==
  [kind : {"schedule", "chat"}, cron : Crons \cup {NoCron}, end : Nat,
   mode : BOOLEAN, input : BOOLEAN]

RecordType ==
  [cron : Crons, end : Nat, input : BOOLEAN, enabled : BOOLEAN, next : 0..MaxTime]

ASSUME SchedulerAssumption ==
  /\ Configs \subseteq ConfigType
  /\ NoFlow \notin ConfigType
  /\ Fallback \in Crons
  /\ NoCron \notin Crons
  /\ NoRec \notin RecordType
  /\ \A c \in Crons : Times[c] \subseteq 1..MaxTime
  /\ IsFiniteSet(Handlers)
  /\ MaxTime \in Nat /\ MaxRequests \in Nat /\ MaxRestarts \in Nat
  /\ QueueMode \in BOOLEAN /\ Interrupts \in BOOLEAN

VARIABLES
  now,        \* the current tick
  live,       \* the stored flow: what its Start node says
  recs,       \* ScheduleRecord, by id: the number of the request that inserts
  jobs,       \* id -> the cron expression its job is registered with
  due,        \* the jobs that fired in this tick and were not handled yet
  req,        \* the request of each client
  fire,       \* the fired job of each handler
  openLogs,   \* trigger logs with status RUNNING
  requests,   \* requests begun
  restarts    \* restarts of the server

vars == <<now, live, recs, jobs, due, req, fire, openLogs, requests, restarts>>

Ids == 1..MaxRequests

Idle == [op |-> "none", pc |-> "idle", cfg |-> NoFlow, no |-> 0, id |-> 0,
         snap |-> NoRec, on |-> FALSE]

Free == [pc |-> "idle", id |-> 0, snap |-> NoRec, at |-> 0]

Enabled(id) == recs[id] # NoRec /\ recs[id].enabled

(* Mutant: looks for a schedule that is switched on. *)
MutFound == {id \in Ids : Enabled(id)}

(* The records of the flow, by targetId. *)
Found == {id \in Ids : recs[id] # NoRec}

---------------------------------------------------------------------------
(***************************************************************************)
(* Pure parts.                                                             *)
(***************************************************************************)

(* Mutant: no match within the year answers the last candidate. *)
MutNextRun(cron, t) ==
  LET later == {u \in Times[cron] : u > t}
  IN  IF later = {} THEN t + 1 ELSE CHOOSE u \in later : \A v \in later : u <= v

(* computeNextRunAt: the first match after t; 0 is null. *)
NextRun(cron, t) ==
  LET later == {u \in Times[cron] : u > t}
  IN  IF later = {} THEN 0 ELSE CHOOSE u \in later : \A v \in later : u <= v

StoredCron(f) == IF f.cron = NoCron THEN Fallback ELSE f.cron

InFuture(end) == end = 0 \/ end > now

(* canScheduleEnable *)
CanScheduleEnable(f) == f.mode /\ f.cron # NoCron /\ f.input /\ InFuture(f.end)

(* getScheduleStatus: like canScheduleEnable, on the stored flow, but the  *)
(* end date and the input mode are taken from the record when the flow     *)
(* does not give them.                                                     *)
CanEnable(f, rec) ==
  /\ f # NoFlow
  /\ f.kind = "schedule"
  /\ f.cron # NoCron
  /\ InFuture(IF f.end # 0 THEN f.end ELSE IF rec # NoRec THEN rec.end ELSE 0)
  /\ f.mode \/ rec # NoRec
  /\ f.input

(* Mutant: an end date that is taken out of the flow stays in the record.  *)
MutMerged(f, on, old) ==
  [cron |-> StoredCron(f), input |-> f.input,
   end |-> IF f.end = 0 /\ old # NoRec THEN old.end ELSE f.end,
   enabled |-> on /\ (old # NoRec => old.enabled),
   next |-> NextRun(StoredCron(f), now)]

(* The record createOrUpdateSchedule saves: enabled is kept when the flow  *)
(* can be scheduled, a missing end date replaces the one before.           *)
Merged(f, on, old) ==
  [cron |-> StoredCron(f), end |-> f.end, input |-> f.input,
   enabled |-> on /\ (old # NoRec => old.enabled),
   next |-> NextRun(StoredCron(f), now)]

---------------------------------------------------------------------------
Init ==
  /\ now = 0
  /\ live = NoFlow
  /\ recs = [id \in Ids |-> NoRec]
  /\ jobs = [id \in Ids |-> NoCron]
  /\ due = {}
  /\ req = [c \in Clients |-> Idle]
  /\ fire = [h \in Handlers |-> Free]
  /\ openLogs = 0
  /\ requests = 0
  /\ restarts = 0

(***************************************************************************)
(* Requests.                                                               *)
(***************************************************************************)
At(c, pc) == req[c].pc = pc

Goto(c, r) == req' = [req EXCEPT ![c] = r]

Begin(c, r) ==
  /\ At(c, "idle")
  /\ requests < MaxRequests
  /\ requests' = requests + 1
  /\ Goto(c, [r EXCEPT !.no = requests + 1])

Rest == <<fire, due, openLogs, restarts, now>>

(* Mutant: a flow that is no schedule any more keeps its record. *)
MutAfterSave(r, f) ==
  IF f.kind = "schedule" /\ f.mode
  THEN [r EXCEPT !.pc = "find", !.cfg = f, !.on = CanScheduleEnable(f)]
  ELSE Idle

(* What saveChatflow and updateChatflow do with the flow just saved: a     *)
(* schedule without an input mode is refused now that it is stored; a flow *)
(* that is no schedule loses the record it may have had.                   *)
AfterSave(r, f) ==
  CASE f.kind = "schedule" /\ f.mode ->
         [r EXCEPT !.pc = "find", !.cfg = f, !.on = CanScheduleEnable(f)]
    [] f.kind # "schedule" /\ r.op = "update" -> [r EXCEPT !.pc = "detach", !.cfg = NoFlow]
    [] OTHER -> Idle

(* saveChatflow: the flow is new, nobody else knows it before. *)
Create(c, f) ==
  /\ requests = 0
  /\ Begin(c, AfterSave([Idle EXCEPT !.op = "create"], f))
  /\ live' = f
  /\ UNCHANGED <<recs, jobs, Rest>>

(* updateChatflow: the controller has read the flow; the body gives the    *)
(* Start node anew or leaves it as it was read.                            *)
Update(c, f) ==
  /\ live # NoFlow
  /\ f \in Configs \cup {live}
  /\ Begin(c, [Idle EXCEPT !.op = "update", !.pc = "save", !.cfg = f])
  /\ UNCHANGED <<live, recs, jobs, Rest>>

SaveFlow(c) ==
  /\ At(c, "save")
  /\ live' = req[c].cfg
  /\ Goto(c, AfterSave(req[c], req[c].cfg))
  /\ UNCHANGED <<recs, jobs, requests, Rest>>

(* createOrUpdateSchedule reads the record of the flow, if there is one... *)
FindSchedule(c) ==
  /\ At(c, "find")
  /\ \/ /\ Found = {}
        /\ Goto(c, [req[c] EXCEPT !.pc = "store"])
     \/ \E id \in Found :
          Goto(c, [req[c] EXCEPT !.pc = "store", !.id = id, !.snap = recs[id]])
  /\ UNCHANGED <<live, recs, jobs, requests, Rest>>

(* What is left to do is to tell the beat about record id. *)
Telling(id, pc) == [Idle EXCEPT !.id = id, !.pc = pc]

(* Mutant: an update tells the beat about enabled schedules only. *)
MutAfterStore(r, id, enabled) == IF enabled THEN Telling(id, "upsert") ELSE Idle

AfterStore(r, id, enabled) ==
  CASE enabled -> Telling(id, "upsert")
    [] ~ enabled /\ r.op = "update" -> Telling(id, "remove")
    [] OTHER -> Idle

(* ...and saves what it read with the flow's schedule merged into it.  The *)
(* beat is told afterwards.                                                *)
StoreSchedule(c) ==
  LET r   == req[c]
      rec == Merged(r.cfg, r.on, r.snap)
      id  == IF r.snap = NoRec THEN r.no ELSE r.id
  IN  /\ At(c, "store")
      /\ recs' = [recs EXCEPT ![id] = rec]
      /\ Goto(c, AfterStore(r, id, rec.enabled))
      /\ UNCHANGED <<live, jobs, requests, Rest>>

(* deleteChatflow deletes the flow, then its schedule. *)
Delete(c) ==
  /\ live # NoFlow
  /\ Begin(c, [Idle EXCEPT !.op = "delete", !.pc = "detach"])
  /\ live' = NoFlow
  /\ UNCHANGED <<recs, jobs, Rest>>

(* deleteScheduleForTarget: find the record, delete it, tell the beat. *)
FindObsolete(c) ==
  /\ At(c, "detach")
  /\ \/ Found = {} /\ Goto(c, Idle)
     \/ \E id \in Found : Goto(c, [req[c] EXCEPT !.pc = "delete", !.id = id])
  /\ UNCHANGED <<live, recs, jobs, requests, Rest>>

DeleteSchedule(c) ==
  /\ At(c, "delete")
  /\ recs' = [recs EXCEPT ![req[c].id] = NoRec]
  /\ Goto(c, [req[c] EXCEPT !.pc = "remove"])
  /\ UNCHANGED <<live, jobs, requests, Rest>>

(* toggleScheduleEnabled: read the record; when enabling, validate the     *)
(* stored flow; save the record that was read; tell the beat.              *)
Toggle(c, on) ==
  /\ \E id \in Found :
       Begin(c, [Idle EXCEPT !.op = "toggle", !.pc = IF on THEN "check" ELSE "toggle",
                             !.id = id, !.snap = recs[id], !.on = on])
  /\ UNCHANGED <<live, recs, jobs, Rest>>

CheckStatus(c) ==
  /\ At(c, "check")
  /\ \E rec \in IF Found = {} THEN {NoRec} ELSE {recs[id] : id \in Found} :
       Goto(c, IF CanEnable(live, rec) THEN [req[c] EXCEPT !.pc = "toggle"] ELSE Idle)
  /\ UNCHANGED <<live, recs, jobs, requests, Rest>>

StoreToggle(c) ==
  LET r == req[c]
  IN  /\ At(c, "toggle")
      /\ recs' = [recs EXCEPT ![r.id] = [r.snap EXCEPT !.enabled = r.on]]
      /\ Goto(c, Telling(r.id, IF r.on THEN "upsert" ELSE "remove"))
      /\ UNCHANGED <<live, jobs, requests, Rest>>

(* onScheduleChanged: 'upsert' reads the record again before it registers  *)
(* a job or removes it; 'delete' removes the job without reading.          *)
ReadRecord(c) ==
  /\ At(c, "upsert")
  /\ Goto(c, [req[c] EXCEPT !.pc = "register", !.snap = recs[req[c].id]])
  /\ UNCHANGED <<live, recs, jobs, requests, Rest>>

Register(c) ==
  LET r == req[c]
  IN  /\ At(c, "register")
      /\ jobs' = [jobs EXCEPT ![r.id] =
                    IF r.snap # NoRec /\ r.snap.enabled THEN r.snap.cron ELSE NoCron]
      /\ Goto(c, Idle)
      /\ UNCHANGED <<live, recs, requests, Rest>>

Remove(c) ==
  /\ At(c, "remove")
  /\ jobs' = [jobs EXCEPT ![req[c].id] = NoCron]
  /\ Goto(c, Idle)
  /\ UNCHANGED <<live, recs, requests, Rest>>

(* A database call of the request fails: nothing is undone. *)
Interrupt(c) ==
  /\ Interrupts
  /\ ~ At(c, "idle")
  /\ Goto(c, Idle)
  /\ UNCHANGED <<live, recs, jobs, requests, Rest>>

---------------------------------------------------------------------------
(***************************************************************************)
(* Fired jobs.                                                             *)
(***************************************************************************)
Handles(h, pc) == fire[h].pc = pc

Proceed(h, f) == fire' = [fire EXCEPT ![h] = f]

Calm == <<live, req, requests, restarts, now>>

(* Time passes; the jobs that match the new tick fire.  A job that fired   *)
(* has read its record before the next tick.                               *)
Tick ==
  /\ due = {}
  /\ now' = IF now < MaxTime THEN now + 1 ELSE now
  /\ due' = {id \in Ids : jobs[id] # NoCron /\ now' \in Times[jobs[id]]}
  /\ UNCHANGED <<live, recs, jobs, req, fire, openLogs, requests, restarts>>

(* executeScheduleJob notes the time and reads the record. *)
ReadFired(h) ==
  /\ Handles(h, "idle")
  /\ \E id \in due :
       /\ due' = due \ {id}
       /\ Proceed(h, [pc |-> "decide", id |-> id, snap |-> recs[id], at |-> now])
  /\ UNCHANGED <<recs, jobs, openLogs, Calm>>

Switched(h) == fire[h].snap # NoRec /\ fire[h].snap.enabled

Expired(h) ==
  \/ fire[h].snap.end # 0 /\ fire[h].at >= fire[h].snap.end
  \/ ~ fire[h].snap.input

(* Mutant: a job that fires on time is taken for one that is early. *)
MutTooEarly(h) == fire[h].snap.next >= fire[h].at

TooEarly(h) == fire[h].snap.next > fire[h].at

(* Mutant: the job stays when its record is gone. *)
MutSkipGone(h) ==
  /\ Handles(h, "decide")
  /\ ~ Switched(h)
  /\ Proceed(h, Free)
  /\ UNCHANGED <<recs, jobs, due, openLogs, Calm>>

(* The record is missing or disabled: onRecordNotFoundOrDisabled. *)
SkipGone(h) ==
  /\ Handles(h, "decide")
  /\ ~ Switched(h)
  /\ jobs' = [jobs EXCEPT ![fire[h].id] = NoCron]
  /\ Proceed(h, Free)
  /\ UNCHANGED <<recs, due, openLogs, Calm>>

(* onRecordExpiredOrInvalid saves the record that was read, disabled, and  *)
(* then removes the job.                                                   *)
Expire(h) ==
  /\ Handles(h, "decide")
  /\ Switched(h)
  /\ Expired(h)
  /\ recs' = [recs EXCEPT ![fire[h].id] = [fire[h].snap EXCEPT !.enabled = FALSE]]
  /\ Proceed(h, [fire[h] EXCEPT !.pc = "expired"])
  /\ UNCHANGED <<jobs, due, openLogs, Calm>>

RemoveExpired(h) ==
  /\ Handles(h, "expired")
  /\ jobs' = [jobs EXCEPT ![fire[h].id] = NoCron]
  /\ Proceed(h, Free)
  /\ UNCHANGED <<recs, due, openLogs, Calm>>

(* The nextRunAt guard. *)
SkipEarly(h) ==
  /\ Handles(h, "decide")
  /\ Switched(h)
  /\ ~ Expired(h)
  /\ TooEarly(h)
  /\ Proceed(h, Free)
  /\ UNCHANGED <<recs, jobs, due, openLogs, Calm>>

(* A trigger log RUNNING, then the flow is looked up and executed. *)
StartRun(h) ==
  /\ Handles(h, "decide")
  /\ Switched(h)
  /\ ~ Expired(h)
  /\ ~ TooEarly(h)
  /\ openLogs' = openLogs + 1
  /\ Proceed(h, [fire[h] EXCEPT !.pc = "lookup"])
  /\ UNCHANGED <<recs, jobs, due, Calm>>

LookUpFlow(h) ==
  /\ Handles(h, "lookup")
  /\ live # NoFlow
  /\ Proceed(h, [fire[h] EXCEPT !.pc = "running"])
  /\ UNCHANGED <<recs, jobs, due, openLogs, Calm>>

(* updateTriggerLog: an UPDATE that fails is swallowed, and the log stays  *)
(* RUNNING.                                                                *)
SettleLog ==
  \/ openLogs' = openLogs - 1
  \/ Interrupts /\ openLogs' = openLogs

(* SUCCEEDED, then updateScheduleAfterRun with the cron expression of the  *)
(* record read before the run; a null next time leaves the column alone,   *)
(* and an UPDATE that fails is swallowed here too.                         *)
Succeed(h) ==
  LET id   == fire[h].id
      next == NextRun(fire[h].snap.cron, now)
  IN  /\ Handles(h, "running")
      /\ SettleLog
      /\ \/ recs' = IF recs[id] = NoRec \/ next = 0 THEN recs
                    ELSE [recs EXCEPT ![id].next = next]
         \/ Interrupts /\ UNCHANGED recs
      /\ Proceed(h, Free)
      /\ UNCHANGED <<jobs, due, Calm>>

(* FAILED: the flow is gone, the quota is used up, the run threw. *)
FailRun(h) ==
  /\ Handles(h, "lookup") \/ Handles(h, "running")
  /\ SettleLog
  /\ Proceed(h, Free)
  /\ UNCHANGED <<recs, jobs, due, Calm>>

(* The server restarts and ScheduleBeat.init registers the enabled         *)
(* records.  Without a queue the jobs and their handlers die with it; with *)
(* one they live in Redis and in the workers.                              *)
Restart ==
  /\ restarts < MaxRestarts
  /\ Interrupts \/ \A c \in Clients : At(c, "idle")
  /\ restarts' = restarts + 1
  /\ req' = [c \in Clients |-> Idle]
  /\ jobs' = [id \in Ids |->
                CASE Enabled(id) -> recs[id].cron
                  [] ~ Enabled(id) /\ QueueMode -> jobs[id]
                  [] OTHER -> NoCron]
  /\ IF QueueMode THEN UNCHANGED <<fire, due>>
     ELSE fire' = [h \in Handlers |-> Free] /\ due' = {}
  /\ UNCHANGED <<now, live, recs, openLogs, requests>>

---------------------------------------------------------------------------
RequestStep(c) ==
  \/ SaveFlow(c) \/ FindSchedule(c) \/ StoreSchedule(c)
  \/ FindObsolete(c) \/ DeleteSchedule(c)
  \/ CheckStatus(c) \/ StoreToggle(c)
  \/ ReadRecord(c) \/ Register(c) \/ Remove(c)

NewRequest(c) ==
  \/ \E f \in Configs : Create(c, f)
  \/ \E f \in Configs \cup {live} : Update(c, f)
  \/ Delete(c)
  \/ \E on \in BOOLEAN : Toggle(c, on)

FireStep(h) ==
  \/ ReadFired(h) \/ SkipGone(h) \/ Expire(h) \/ RemoveExpired(h) \/ SkipEarly(h)
  \/ StartRun(h) \/ LookUpFlow(h) \/ Succeed(h) \/ FailRun(h)

Next ==
  \/ \E c \in Clients : NewRequest(c) \/ RequestStep(c) \/ Interrupt(c)
  \/ \E h \in Handlers : FireStep(h)
  \/ Tick
  \/ Restart

Spec == Init /\ [][Next]_vars

(* Time passes, a request that began and a job that fired go on: each is   *)
(* an async function whose awaits are answered or rejected.  Nobody has to *)
(* make a request.                                                         *)
FairSpec ==
  /\ Spec
  /\ WF_vars(Tick)
  /\ \A c \in Clients : WF_vars(RequestStep(c))
  /\ \A h \in Handlers : WF_vars(FireStep(h))

---------------------------------------------------------------------------
(***************************************************************************)
(* Properties.                                                             *)
(***************************************************************************)

Pcs == {"idle", "save", "find", "store", "detach", "delete", "check", "toggle",
        "upsert", "register", "remove"}

(* A request knows what it is about: the flow it saves, the record it read *)
(* or has to change.                                                       *)
RequestType ==
  {r \in [op : {"none", "create", "update", "delete", "toggle"}, pc : Pcs,
          cfg : Configs \cup {NoFlow}, no : 0..MaxRequests, id : 0..MaxRequests,
          snap : RecordType \cup {NoRec}, on : BOOLEAN] :
     /\ r.pc \in {"save", "find", "store"} => r.cfg # NoFlow /\ r.no \in Ids
     /\ r.pc \in {"save", "find"} => r.snap = NoRec
     /\ r.pc = "store" /\ r.snap # NoRec => r.id \in Ids
     /\ r.pc \in {"check", "toggle"} => r.snap # NoRec
     /\ r.pc \in {"delete", "check", "toggle", "upsert", "register", "remove"} => r.id \in Ids}

FireType ==
  {f \in [pc : {"idle", "decide", "expired", "lookup", "running"}, id : 0..MaxRequests,
          snap : RecordType \cup {NoRec}, at : 0..MaxTime] :
     /\ f.pc # "idle" => f.id \in Ids
     /\ f.pc \in {"expired", "lookup", "running"} => f.snap # NoRec}

(* Every variable has its type: a record has a valid cron expression and a *)
(* next time that exists, a request or a handler under way knows what it   *)
(* is about.                                                               *)
TypeOK ==
  /\ now \in 0..MaxTime
  /\ live \in Configs \cup {NoFlow}
  /\ recs \in [Ids -> RecordType \cup {NoRec}]
  /\ jobs \in [Ids -> Crons \cup {NoCron}]
  /\ due \subseteq Ids
  /\ req \in [Clients -> RequestType]
  /\ fire \in [Handlers -> FireType]
  /\ openLogs \in Nat
  /\ requests \in 0..MaxRequests
  /\ restarts \in 0..MaxRestarts

(* No request is under way and no fired job is about to change a record or *)
(* a job.                                                                  *)
AtRest ==
  /\ \A c \in Clients : At(c, "idle")
  /\ \A h \in Handlers : fire[h].pc \in {"idle", "lookup", "running"}

(* One record for a flow: createOrUpdateSchedule updates the record that   *)
(* is there ("Upsert: find existing record for this target").              *)
OneRecord == Cardinality({id \in Ids : recs[id] # NoRec}) <= 1

(* The record says what the flow that was saved last says, and is on only  *)
(* when the flow can be scheduled.                                         *)
RecordOfFlow ==
  AtRest /\ live # NoFlow =>
    (live.kind = "schedule" /\ live.mode =>
       \E id \in Found :
         /\ recs[id].cron = StoredCron(live) /\ recs[id].end = live.end
         /\ recs[id].enabled => live.cron # NoCron /\ live.input)

(* A flow that was deleted, or is no schedule any more, has no record:     *)
(* deleteChatflow has to "delete schedules related to the chatflow".       *)
NoRecordWithoutFlow ==
  AtRest /\ (live = NoFlow \/ live.kind # "schedule") => Found = {}

(* A job belongs to a schedule that is on, and fires when that says.       *)
NoOrphanJob ==
  AtRest => \A id \in Ids :
    jobs[id] # NoCron => Enabled(id) /\ jobs[id] = recs[id].cron

(* "The beat will skip execution if it detects this fallback expression".  *)
FallbackNeverRuns ==
  \A h \in Handlers :
    fire[h].pc \in {"lookup", "running"} => fire[h].snap.cron # Fallback

(* A job that lost its record, or whose record is off, goes when it fires, *)
(* unless the schedule is switched on again: whatever order the requests   *)
(* reached the beat in, the job does not stay.                             *)
OrphanHeals ==
  \A id \in Ids :
    jobs[id] # NoCron /\ ~ Enabled(id) ~> jobs[id] = NoCron \/ Enabled(id)

(* A schedule that stays on and has its job is run again and again: the    *)
(* nextRunAt guard does not keep it from its own times.                    *)
StaysOn(id) ==
  /\ \A c \in Clients : At(c, "idle")
  /\ live # NoFlow /\ Enabled(id) /\ jobs[id] # NoCron
  /\ recs[id].input /\ (recs[id].end = 0 \/ recs[id].end > MaxTime)

EnabledKeepsRunning ==
  \A id \in Ids :
    <>[]StaysOn(id) => []<>(\E h \in Handlers : Handles(h, "lookup") /\ fire[h].id = id)
===========================================================================
