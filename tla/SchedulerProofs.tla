--------------------------- MODULE SchedulerProofs ---------------------------
(***************************************************************************)
(* What the scheduler keeps for any number of clients, handlers, records   *)
(* and ticks, with requests cut short and restarts in either mode: its     *)
(* types.  Then what it keeps while requests come one after the other: one *)
(* record for a flow, that says what the flow says, and jobs that do what  *)
(* it says.                                                                *)
(*                                                                         *)
(* The types alone are not inductive: openLogs is decreased when a run     *)
(* ends, so a run must be known to have opened its log.  Inv adds it.      *)
(***************************************************************************)
EXTENDS Scheduler, SequenceKeepProofs, FiniteSetTheorems

(* The handlers that opened a trigger log and did not settle it yet. *)
Running == {h \in Handlers : fire[h].pc \in {"lookup", "running"}}

Inv == TypeOK /\ Cardinality(Running) <= openLogs

---------------------------------------------------------------------------
(* The next time is a tick, or 0. *)
LEMMA NextRunType ==
  ASSUME NEW cron \in Crons, NEW t \in Nat
  PROVE  NextRun(cron, t) \in 0..MaxTime
<1> DEFINE later == {u \in Times[cron] : u > t}
<1>1. later \subseteq 1..MaxTime /\ later \in SUBSET Nat
  BY SchedulerAssumption
<1>2. CASE later = {}  BY <1>2, SchedulerAssumption DEF NextRun
<1>3. CASE later # {}
  <2>1. \E u \in later : \A v \in later : u <= v
    BY <1>1, <1>3, LeastNatural
  <2>2. (CHOOSE u \in later : \A v \in later : u <= v) \in later
    BY <2>1
  <2> QED  BY <1>1, <1>3, <2>2 DEF NextRun
<1> QED  BY <1>2, <1>3

(* What createOrUpdateSchedule saves is a record. *)
LEMMA MergedType ==
  ASSUME now \in 0..MaxTime,
         NEW f \in Configs, NEW on \in BOOLEAN, NEW old \in RecordType \cup {NoRec}
  PROVE  Merged(f, on, old) \in RecordType
<1>1. f \in ConfigType  BY SchedulerAssumption
<1>2. StoredCron(f) \in Crons  BY <1>1, SchedulerAssumption DEF ConfigType, StoredCron
<1>3. NextRun(StoredCron(f), now) \in 0..MaxTime
  BY <1>2, NextRunType, SchedulerAssumption
<1>4. f.end \in Nat /\ f.input \in BOOLEAN  BY <1>1 DEF ConfigType
<1>5. (on /\ (old # NoRec => old.enabled)) \in BOOLEAN  OBVIOUS
<1> QED  BY <1>2, <1>3, <1>4, <1>5, Zenon DEF Merged, RecordType

---------------------------------------------------------------------------
(* The handlers that run, when one of them moves on. *)
LEMMA RunningFinite == IsFiniteSet(Running)
BY SchedulerAssumption, FS_Subset DEF Running

LEMMA RunningSame ==
  ASSUME TypeOK, NEW h \in Handlers, NEW f, Proceed(h, f),
         fire[h].pc \in {"lookup", "running"} <=> f.pc \in {"lookup", "running"}
  PROVE  Running' = Running
BY DEF TypeOK, Proceed, Running

LEMMA RunningMore ==
  ASSUME TypeOK, NEW h \in Handlers, NEW f, Proceed(h, f),
         fire[h].pc \notin {"lookup", "running"}, f.pc \in {"lookup", "running"}
  PROVE  Cardinality(Running') = Cardinality(Running) + 1
<1>1. Running' = Running \cup {h} /\ h \notin Running
  BY DEF TypeOK, Proceed, Running
<1> QED  BY <1>1, RunningFinite, FS_AddElement

LEMMA RunningLess ==
  ASSUME TypeOK, NEW h \in Handlers, NEW f, Proceed(h, f),
         fire[h].pc \in {"lookup", "running"}, f.pc \notin {"lookup", "running"}
  PROVE  Cardinality(Running') = Cardinality(Running) - 1 /\ Cardinality(Running) >= 1
<1>1. Running' = Running \ {h} /\ h \in Running
  BY DEF TypeOK, Proceed, Running
<1>2. Cardinality(Running') = Cardinality(Running) - 1
  BY <1>1, RunningFinite, FS_RemoveElement
<1>3. Cardinality(Running') \in Nat /\ Cardinality(Running) \in Nat
  BY <1>1, RunningFinite, FS_RemoveElement, FS_CardinalityType
<1> QED  BY <1>2, <1>3

(* A step that leaves the handlers and the logs alone. *)
LEMMA LogsUntouched ==
  ASSUME Inv, UNCHANGED <<fire, openLogs>>
  PROVE  Cardinality(Running') <= openLogs'
BY DEF Inv, Running

---------------------------------------------------------------------------
(***************************************************************************)
(* Requests.                                                               *)
(***************************************************************************)
LEMMA GotoType ==
  ASSUME TypeOK, NEW c \in Clients, NEW r \in RequestType, Goto(c, r)
  PROVE  req' \in [Clients -> RequestType]
BY DEF TypeOK, Goto

LEMMA Numbers == /\ MaxRequests \in Nat /\ 0 \in 0..MaxRequests
                 /\ \A n \in Ids : n \in 0..MaxRequests
BY SchedulerAssumption DEF Ids

(* The idle request, of which the others are made. *)
LEMMA IdleType == Idle \in RequestType /\ Idle.snap = NoRec
BY SchedulerAssumption DEF Idle, RequestType, Pcs

LEMMA TellingType ==
  ASSUME NEW id \in Ids, NEW pc \in {"upsert", "remove"}
  PROVE  Telling(id, pc) \in RequestType
BY IdleType, Numbers DEF Telling, RequestType, Pcs

(* The request of a step that goes on. *)
LEMMA RequestFacts ==
  ASSUME TypeOK, NEW c \in Clients
  PROVE  req[c] \in RequestType
BY DEF TypeOK

LEMMA AfterSaveType ==
  ASSUME NEW r \in RequestType, NEW f \in Configs, r.no \in Ids, r.snap = NoRec
  PROVE  AfterSave(r, f) \in RequestType
<1>1. f # NoFlow  BY SchedulerAssumption
<1>2. CanScheduleEnable(f) \in BOOLEAN  BY DEF CanScheduleEnable
<1>3. [r EXCEPT !.pc = "find", !.cfg = f, !.on = CanScheduleEnable(f)] \in RequestType
  BY <1>1, <1>2 DEF RequestType, Pcs
<1>4. [r EXCEPT !.pc = "detach", !.cfg = NoFlow] \in RequestType
  BY DEF RequestType, Pcs
<1> QED  BY <1>3, <1>4, IdleType DEF AfterSave

(* A step of a request: if the parts it changes have their types, so does  *)
(* everything else, and the handlers and their logs are as they were.      *)
LEMMA RequestKeeps ==
  ASSUME Inv, NEW c \in Clients, NEW r \in RequestType, Goto(c, r), UNCHANGED Rest,
         live' \in Configs \cup {NoFlow},
         recs' \in [Ids -> RecordType \cup {NoRec}],
         jobs' \in [Ids -> Crons \cup {NoCron}],
         requests' \in 0..MaxRequests
  PROVE  Inv'
<1>1. req' \in [Clients -> RequestType]  BY GotoType DEF Inv
<1>2. TypeOK'  BY <1>1 DEF Inv, TypeOK, Rest
<1>3. Cardinality(Running') <= openLogs'
  BY LogsUntouched DEF Rest
<1> QED  BY <1>2, <1>3 DEF Inv

(* A request that begins. *)
LEMMA BeginKeeps ==
  ASSUME Inv, NEW c \in Clients, NEW r, Begin(c, r), UNCHANGED <<recs, jobs, Rest>>,
         requests + 1 \in Ids => [r EXCEPT !.no = requests + 1] \in RequestType,
         live' \in Configs \cup {NoFlow}
  PROVE  Inv'
<1>1. requests' \in 0..MaxRequests /\ requests + 1 \in Ids
  BY SchedulerAssumption DEF Begin, Inv, TypeOK, Ids
<1>2. Goto(c, [r EXCEPT !.no = requests + 1])  BY DEF Begin
<1>3. recs' \in [Ids -> RecordType \cup {NoRec}] /\ jobs' \in [Ids -> Crons \cup {NoCron}]
  BY DEF Inv, TypeOK
<1> HIDE DEF Inv
<1> QED  BY <1>1, <1>2, <1>3, RequestKeeps DEF Rest

LEMMA NewRequestKeeps ==
  ASSUME Inv, NEW c \in Clients, NewRequest(c)
  PROVE  Inv'
<1> DEFINE no == requests + 1
<1>1. ASSUME NEW f \in Configs, Create(c, f) PROVE Inv'
  <2> DEFINE r0 == [Idle EXCEPT !.op = "create"]
  <2>1. ASSUME no \in Ids PROVE [AfterSave(r0, f) EXCEPT !.no = no] \in RequestType
    <3>1. f # NoFlow  BY SchedulerAssumption
    <3>2. CanScheduleEnable(f) \in BOOLEAN  BY DEF CanScheduleEnable
    <3>3. [r0 EXCEPT !.pc = "find", !.cfg = f, !.on = CanScheduleEnable(f), !.no = no]
            \in RequestType
      BY <2>1, <3>1, <3>2, IdleType, Numbers DEF RequestType, Pcs
    <3>4. [r0 EXCEPT !.pc = "detach", !.cfg = NoFlow, !.no = no] \in RequestType
      BY <2>1, IdleType, Numbers DEF RequestType, Pcs
    <3>5. [Idle EXCEPT !.no = no] \in RequestType
      BY <2>1, IdleType, Numbers DEF RequestType, Pcs
    <3> QED  BY <3>3, <3>4, <3>5 DEF AfterSave
  <2> QED  BY <1>1, <2>1, BeginKeeps DEF Create
<1>2. ASSUME NEW f \in Configs \cup {live}, Update(c, f) PROVE Inv'
  <2>1. f \in Configs /\ f # NoFlow
    BY <1>2, SchedulerAssumption DEF Update, Inv, TypeOK
  <2>2. ASSUME no \in Ids
        PROVE  [[Idle EXCEPT !.op = "update", !.pc = "save", !.cfg = f] EXCEPT !.no = no]
                 \in RequestType
    BY <2>1, <2>2, IdleType, Numbers DEF RequestType, Pcs
  <2>3. live' \in Configs \cup {NoFlow}  BY <1>2 DEF Update, Inv, TypeOK
  <2> QED  BY <1>2, <2>2, <2>3, BeginKeeps DEF Update
<1>3. CASE Delete(c)
  <2>1. ASSUME no \in Ids
        PROVE  [[Idle EXCEPT !.op = "delete", !.pc = "detach"] EXCEPT !.no = no] \in RequestType
    BY <2>1, IdleType, Numbers DEF RequestType, Pcs
  <2> QED  BY <1>3, <2>1, BeginKeeps DEF Delete
<1>4. ASSUME NEW on \in BOOLEAN, Toggle(c, on) PROVE Inv'
  <2>1. PICK id \in Found :
          Begin(c, [Idle EXCEPT !.op = "toggle", !.pc = IF on THEN "check" ELSE "toggle",
                                !.id = id, !.snap = recs[id], !.on = on])
    BY <1>4 DEF Toggle
  <2>2. id \in Ids /\ recs[id] # NoRec /\ recs[id] \in RecordType \cup {NoRec}
    BY DEF Found, Inv, TypeOK
  <2>3. ASSUME no \in Ids
        PROVE  [[Idle EXCEPT !.op = "toggle", !.pc = IF on THEN "check" ELSE "toggle",
                             !.id = id, !.snap = recs[id], !.on = on] EXCEPT !.no = no]
                 \in RequestType
    <3>1. ASSUME NEW pc \in {"check", "toggle"}
          PROVE  [Idle EXCEPT !.op = "toggle", !.pc = pc, !.id = id, !.snap = recs[id],
                              !.on = on, !.no = no] \in RequestType
      BY <2>2, <2>3, <3>1, IdleType, Numbers DEF RequestType, Pcs
    <3> QED  BY <3>1
  <2>4. live' \in Configs \cup {NoFlow}  BY <1>4 DEF Toggle, Inv, TypeOK
  <2> QED  BY <1>4, <2>1, <2>3, <2>4, BeginKeeps DEF Toggle
<1> QED  BY <1>1, <1>2, <1>3, <1>4 DEF NewRequest

(* A request that goes on, action by action. *)
LEMMA RequestStepKeeps ==
  ASSUME Inv, NEW c \in Clients, RequestStep(c)
  PROVE  Inv'
<1> DEFINE r == req[c]
<1>1. r \in RequestType  BY DEF Inv, TypeOK
<1>2. /\ live \in Configs \cup {NoFlow}
      /\ recs \in [Ids -> RecordType \cup {NoRec}]
      /\ jobs \in [Ids -> Crons \cup {NoCron}]
      /\ requests \in 0..MaxRequests
  BY DEF Inv, TypeOK
<1>3. CASE SaveFlow(c)
  <2>1. r.cfg \in Configs /\ r.no \in Ids /\ r.snap = NoRec
    BY <1>1, <1>3 DEF SaveFlow, At, RequestType
  <2>2. AfterSave(r, r.cfg) \in RequestType  BY <1>1, <2>1, AfterSaveType
  <2> QED  BY <1>2, <1>3, <2>1, <2>2, RequestKeeps DEF SaveFlow
<1>4. CASE FindSchedule(c)
  <2>1. r.cfg # NoFlow /\ r.no \in Ids  BY <1>1, <1>4 DEF FindSchedule, At, RequestType
  <2>2. r.snap = NoRec => [r EXCEPT !.pc = "store"] \in RequestType
    BY <1>1, <2>1 DEF RequestType, Pcs
  <2>3. ASSUME NEW id \in Found
        PROVE  [r EXCEPT !.pc = "store", !.id = id, !.snap = recs[id]] \in RequestType
    <3>1. id \in Ids /\ recs[id] \in RecordType \cup {NoRec}  BY <1>2 DEF Found
    <3> QED  BY <1>1, <2>1, <3>1, Numbers DEF RequestType, Pcs
  <2>4. r.snap = NoRec  BY <1>1, <1>4 DEF FindSchedule, At, RequestType
  <2> QED  BY <1>2, <1>4, <2>2, <2>3, <2>4, RequestKeeps DEF FindSchedule
<1>5. CASE StoreSchedule(c)
  <2> DEFINE rec == Merged(r.cfg, r.on, r.snap)
             id == IF r.snap = NoRec THEN r.no ELSE r.id
  <2>1. r.cfg \in Configs /\ id \in Ids /\ r.on \in BOOLEAN /\ r.snap \in RecordType \cup {NoRec}
    BY <1>1, <1>5 DEF StoreSchedule, At, RequestType
  <2>2. rec \in RecordType  BY <2>1, MergedType DEF Inv, TypeOK
  <2>3. recs' \in [Ids -> RecordType \cup {NoRec}]
    <3> HIDE DEF rec, id
    <3> QED  BY <1>2, <1>5, <2>1, <2>2 DEF StoreSchedule, rec, id
  <2>4. AfterStore(r, id, rec.enabled) \in RequestType
    BY <2>1, TellingType, IdleType DEF AfterStore
  <2> QED  BY <1>2, <1>5, <2>3, <2>4, RequestKeeps DEF StoreSchedule
<1>6. CASE FindObsolete(c)
  <2>1. ASSUME NEW id \in Found PROVE [r EXCEPT !.pc = "delete", !.id = id] \in RequestType
    BY <1>1, Numbers DEF Found, RequestType, Pcs
  <2> QED  BY <1>2, <1>6, <2>1, IdleType, RequestKeeps DEF FindObsolete
<1>7. CASE DeleteSchedule(c)
  <2>1. [r EXCEPT !.pc = "remove"] \in RequestType
    BY <1>1, <1>7 DEF DeleteSchedule, At, RequestType, Pcs
  <2>2. recs' \in [Ids -> RecordType \cup {NoRec}]  BY <1>2, <1>7 DEF DeleteSchedule
  <2> QED  BY <1>2, <1>7, <2>1, <2>2, RequestKeeps DEF DeleteSchedule
<1>8. CASE CheckStatus(c)
  <2>1. [r EXCEPT !.pc = "toggle"] \in RequestType
    BY <1>1, <1>8 DEF CheckStatus, At, RequestType, Pcs
  <2> QED  BY <1>2, <1>8, <2>1, IdleType, RequestKeeps DEF CheckStatus
<1>9. CASE StoreToggle(c)
  <2>1. r.id \in Ids /\ r.snap \in RecordType /\ r.on \in BOOLEAN
    BY <1>1, <1>9 DEF StoreToggle, At, RequestType
  <2>2. [r.snap EXCEPT !.enabled = r.on] \in RecordType  BY <2>1 DEF RecordType
  <2>3. recs' \in [Ids -> RecordType \cup {NoRec}]
    BY <1>2, <1>9, <2>1, <2>2 DEF StoreToggle
  <2>4. Telling(r.id, IF r.on THEN "upsert" ELSE "remove") \in RequestType
    BY <2>1, TellingType
  <2> QED  BY <1>2, <1>9, <2>3, <2>4, RequestKeeps DEF StoreToggle
<1>10. CASE ReadRecord(c)
  <2>1. r.id \in Ids  BY <1>1, <1>10 DEF ReadRecord, At, RequestType
  <2>2. recs[r.id] \in RecordType \cup {NoRec}  BY <1>2, <2>1
  <2>3. [r EXCEPT !.pc = "register", !.snap = recs[r.id]] \in RequestType
    BY <1>1, <2>1, <2>2 DEF RequestType, Pcs
  <2> QED  BY <1>2, <1>10, <2>3, RequestKeeps DEF ReadRecord
<1>11. CASE Register(c)
  <2>1. r.snap # NoRec => r.snap.cron \in Crons  BY <1>1 DEF RequestType, RecordType
  <2>2. jobs' \in [Ids -> Crons \cup {NoCron}]  BY <1>2, <1>11, <2>1 DEF Register
  <2> QED  BY <1>2, <1>11, <2>2, IdleType, RequestKeeps DEF Register
<1>12. CASE Remove(c)
  <2>1. jobs' \in [Ids -> Crons \cup {NoCron}]  BY <1>2, <1>12 DEF Remove
  <2> QED  BY <1>2, <1>12, <2>1, IdleType, RequestKeeps DEF Remove
<1> QED
  BY <1>3, <1>4, <1>5, <1>6, <1>7, <1>8, <1>9, <1>10, <1>11, <1>12 DEF RequestStep

(* A request whose next call fails. *)
LEMMA InterruptKeeps ==
  ASSUME Inv, NEW c \in Clients, Interrupt(c)
  PROVE  Inv'
<1>1. /\ live \in Configs \cup {NoFlow}
      /\ recs \in [Ids -> RecordType \cup {NoRec}]
      /\ jobs \in [Ids -> Crons \cup {NoCron}]
      /\ requests \in 0..MaxRequests
  BY DEF Inv, TypeOK
<1> QED  BY <1>1, IdleType, RequestKeeps DEF Interrupt

---------------------------------------------------------------------------
(***************************************************************************)
(* Fired jobs.                                                             *)
(***************************************************************************)
LEMMA FreeType == Free \in FireType /\ Free.pc = "idle"
BY SchedulerAssumption DEF Free, FireType

(* A step of a handler: if the parts it changes have their types, so does  *)
(* everything else.                                                        *)
LEMMA HandlerType ==
  ASSUME TypeOK, NEW h \in Handlers, NEW f \in FireType, Proceed(h, f), UNCHANGED Calm,
         recs' \in [Ids -> RecordType \cup {NoRec}],
         jobs' \in [Ids -> Crons \cup {NoCron}],
         due' \subseteq Ids, openLogs' \in Nat
  PROVE  TypeOK'
<1>1. fire' \in [Handlers -> FireType]  BY DEF TypeOK, Proceed
<1> QED  BY <1>1 DEF TypeOK, Calm

(* A handler that neither begins nor ends a run. *)
LEMMA HandlerIdles ==
  ASSUME Inv, NEW h \in Handlers, NEW f \in FireType, Proceed(h, f), UNCHANGED Calm,
         recs' \in [Ids -> RecordType \cup {NoRec}],
         jobs' \in [Ids -> Crons \cup {NoCron}],
         due' \subseteq Ids, openLogs' = openLogs,
         fire[h].pc \in {"lookup", "running"} <=> f.pc \in {"lookup", "running"}
  PROVE  Inv'
<1>1. TypeOK'  BY HandlerType DEF Inv, TypeOK
<1>2. Running' = Running  BY RunningSame DEF Inv
<1> QED  BY <1>1, <1>2 DEF Inv

(* A handler that ends a run, whether its log is settled or the UPDATE of  *)
(* it was swallowed.                                                       *)
LEMMA HandlerEnds ==
  ASSUME Inv, NEW h \in Handlers, Proceed(h, Free), UNCHANGED Calm,
         recs' \in [Ids -> RecordType \cup {NoRec}], UNCHANGED <<jobs, due>>,
         SettleLog, fire[h].pc \in {"lookup", "running"}
  PROVE  Inv'
<1>1. Cardinality(Running') = Cardinality(Running) - 1 /\ Cardinality(Running) >= 1
  BY RunningLess, FreeType DEF Inv
<1>2. Cardinality(Running) \in Nat /\ openLogs \in Nat
  BY RunningFinite, FS_CardinalityType DEF Inv, TypeOK
<1>3. openLogs' \in Nat /\ openLogs' >= openLogs - 1  BY <1>1, <1>2 DEF Inv, SettleLog
<1>4. TypeOK'  BY <1>3, HandlerType, FreeType DEF Inv, TypeOK
<1> QED  BY <1>1, <1>2, <1>3, <1>4 DEF Inv

LEMMA FireStepKeeps ==
  ASSUME Inv, NEW h \in Handlers, FireStep(h)
  PROVE  Inv'
<1> DEFINE f == fire[h]
<1>1. f \in FireType  BY DEF Inv, TypeOK
<1>2. /\ now \in 0..MaxTime /\ due \subseteq Ids /\ openLogs \in Nat
      /\ recs \in [Ids -> RecordType \cup {NoRec}]
      /\ jobs \in [Ids -> Crons \cup {NoCron}]
  BY DEF Inv, TypeOK
<1>3. CASE ReadFired(h)
  <2>1. PICK id \in due : /\ due' = due \ {id}
                         /\ Proceed(h, [pc |-> "decide", id |-> id, snap |-> recs[id], at |-> now])
    BY <1>3 DEF ReadFired
  <2>2. id \in Ids /\ recs[id] \in RecordType \cup {NoRec} /\ id \in 0..MaxRequests
    BY <1>2, Numbers
  <2>3. [pc |-> "decide", id |-> id, snap |-> recs[id], at |-> now] \in FireType
    BY <1>2, <2>2 DEF FireType
  <2> QED  BY <1>2, <1>3, <2>1, <2>3, HandlerIdles DEF ReadFired, Handles
<1>4. CASE SkipGone(h)
  <2>1. jobs' \in [Ids -> Crons \cup {NoCron}]  BY <1>2, <1>4 DEF SkipGone
  <2> QED  BY <1>2, <1>4, <2>1, FreeType, HandlerIdles DEF SkipGone, Handles
<1>5. CASE Expire(h)
  <2>1. f.snap # NoRec /\ f.snap \in RecordType /\ f.id \in Ids
    BY <1>1, <1>5 DEF Expire, Switched, Handles, FireType
  <2>2. [f.snap EXCEPT !.enabled = FALSE] \in RecordType  BY <2>1 DEF RecordType
  <2>3. recs' \in [Ids -> RecordType \cup {NoRec}]  BY <1>2, <1>5, <2>1, <2>2 DEF Expire
  <2>4. [f EXCEPT !.pc = "expired"] \in FireType /\ [f EXCEPT !.pc = "expired"].pc = "expired"
    BY <1>1, <2>1 DEF FireType
  <2> QED  BY <1>2, <1>5, <2>3, <2>4, HandlerIdles DEF Expire, Handles
<1>6. CASE RemoveExpired(h)
  <2>1. jobs' \in [Ids -> Crons \cup {NoCron}]  BY <1>2, <1>6 DEF RemoveExpired
  <2> QED  BY <1>2, <1>6, <2>1, FreeType, HandlerIdles DEF RemoveExpired, Handles
<1>7. CASE SkipEarly(h)
  BY <1>2, <1>7, FreeType, HandlerIdles DEF SkipEarly, Handles
<1>8. CASE StartRun(h)
  <2> DEFINE g == [f EXCEPT !.pc = "lookup"]
  <2>1. g \in FireType /\ g.pc = "lookup"
    BY <1>1, <1>8 DEF StartRun, Switched, Handles, FireType
  <2>2. Cardinality(Running') = Cardinality(Running) + 1
    BY <1>8, <2>1, RunningMore DEF StartRun, Handles, Inv
  <2>3. Cardinality(Running) \in Nat  BY RunningFinite, FS_CardinalityType
  <2>4. TypeOK'
    BY <1>2, <1>8, <2>1, HandlerType DEF StartRun, Inv
  <2> QED  BY <1>2, <1>8, <2>2, <2>3, <2>4 DEF StartRun, Inv
<1>9. CASE LookUpFlow(h)
  <2>1. [f EXCEPT !.pc = "running"] \in FireType /\ [f EXCEPT !.pc = "running"].pc = "running"
    BY <1>1, <1>9 DEF LookUpFlow, Handles, FireType
  <2> QED  BY <1>2, <1>9, <2>1, HandlerIdles DEF LookUpFlow, Handles
<1>10. CASE Succeed(h)
  <2> DEFINE next == NextRun(f.snap.cron, now)
  <2>1. f.id \in Ids /\ f.snap \in RecordType
    BY <1>1, <1>10 DEF Succeed, Handles, FireType
  <2>2. next \in 0..MaxTime
    BY <1>2, <2>1, NextRunType, SchedulerAssumption DEF RecordType
  <2>3. recs[f.id] # NoRec => [recs[f.id] EXCEPT !.next = next] \in RecordType
    BY <1>2, <2>1, <2>2 DEF RecordType
  <2>4. recs' \in [Ids -> RecordType \cup {NoRec}]
    <3> HIDE DEF next
    <3> QED  BY <1>2, <1>10, <2>1, <2>3 DEF Succeed, next
  <2> QED  BY <1>10, <2>4, HandlerEnds DEF Succeed, Handles
<1>11. CASE FailRun(h)
  BY <1>2, <1>11, HandlerEnds DEF FailRun, Handles
<1> QED
  BY <1>3, <1>4, <1>5, <1>6, <1>7, <1>8, <1>9, <1>10, <1>11 DEF FireStep

---------------------------------------------------------------------------
LEMMA TickKeeps ==
  ASSUME Inv, Tick
  PROVE  Inv'
<1>1. now' \in 0..MaxTime  BY SchedulerAssumption DEF Inv, TypeOK, Tick
<1>2. due' \subseteq Ids  BY DEF Tick
<1>3. TypeOK'  BY <1>1, <1>2 DEF Inv, TypeOK, Tick
<1> QED  BY <1>3, LogsUntouched DEF Tick, Inv

(* A restart: without a queue no handler is left, and the logs of the runs *)
(* that died stay open; with one the handlers go on.                       *)
LEMMA RestartKeeps ==
  ASSUME Inv, Restart
  PROVE  Inv'
<1>1. req' \in [Clients -> RequestType]  BY IdleType DEF Restart
<1>2. \A id \in Ids : Enabled(id) => recs[id].cron \in Crons
  BY DEF Inv, TypeOK, Enabled, RecordType
<1>3. jobs' \in [Ids -> Crons \cup {NoCron}]  BY <1>2 DEF Restart, Inv, TypeOK
<1>4. restarts' \in 0..MaxRestarts /\ restarts' = restarts + 1 /\ restarts \in Nat
  BY SchedulerAssumption DEF Restart, Inv, TypeOK
<1>5. CASE QueueMode
  <2>1. TypeOK'  BY <1>1, <1>3, <1>4, <1>5 DEF Restart, Inv, TypeOK
  <2> QED  BY <1>4, <1>5, <2>1, LogsUntouched DEF Restart, Inv
<1>6. CASE ~ QueueMode
  <2>1. TypeOK'  BY <1>1, <1>3, <1>4, <1>6, FreeType DEF Restart, Inv, TypeOK
  <2>2. Running' = {}  BY <1>6, FreeType DEF Restart, Running
  <2> QED  BY <1>4, <1>6, <2>1, <2>2, FS_EmptySet DEF Restart, Inv, TypeOK
<1> QED  BY <1>5, <1>6

LEMMA InvStep ==
  ASSUME Inv, [Next]_vars
  PROVE  Inv'
<1>1. CASE UNCHANGED vars  BY <1>1 DEF vars, Inv, TypeOK, Running
<1> QED
  BY <1>1, NewRequestKeeps, RequestStepKeeps, InterruptKeeps, FireStepKeeps, TickKeeps,
     RestartKeeps DEF Next

LEMMA InvInit ==
  ASSUME Init
  PROVE  Inv
<1>1. TypeOK  BY IdleType, FreeType, SchedulerAssumption DEF Init, TypeOK
<1>2. Running = {}  BY FreeType DEF Init, Running
<1> QED  BY <1>1, <1>2, FS_EmptySet DEF Init, Inv

(* The scheduler's variables keep their types.                             *)
THEOREM SchedulerTypes == Spec => []TypeOK
<1>1. Inv => TypeOK  BY DEF Inv
<1> QED  BY <1>1, InvInit, InvStep, PTL DEF Spec

---------------------------------------------------------------------------
(***************************************************************************)
(* One request at a time, that is not cut short, and flows without expiry: *)
(* none has an end date within the bound, and an input is valid only when  *)
(* its mode is set.                                                        *)
(***************************************************************************)
NoExpiry ==
  \A f \in Configs :
    /\ f.end = 0 \/ f.end > MaxTime
    /\ f.kind = "schedule" /\ f.input => f.mode

(* A record, or what was read of one, that does not expire. *)
Lasts(rec) == (rec.end = 0 \/ rec.end > MaxTime) /\ (rec.enabled => rec.input)

(* Runs only move the next time on. *)
SameSchedule(a, b) ==
  a.cron = b.cron /\ a.end = b.end /\ a.input = b.input /\ a.enabled = b.enabled

(* The record is what the flow says. *)
Says(f, rec) ==
  /\ rec.cron = StoredCron(f) /\ rec.end = f.end /\ rec.input = f.input
  /\ rec.enabled => f.cron # NoCron /\ f.input

IsSchedule(f) == f # NoFlow /\ f.kind = "schedule"

AtMostOne == \A i \in Found, j \in Found : i = j

AllLast ==
  /\ \A id \in Found : Lasts(recs[id])
  /\ \A h \in Handlers :
       fire[h].pc # "expired" /\ (fire[h].snap # NoRec => Lasts(fire[h].snap))

(* What the request has read or written is still so. *)
Knows(r) ==
  /\ r.pc = "save" => r.op = "update"
  /\ r.pc \in {"find", "store"} =>
       /\ r.op \in {"create", "update"} /\ (r.op = "create" => Found = {})
       /\ r.cfg = live /\ live.kind = "schedule"
       /\ r.on => live.cron # NoCron /\ live.input
  /\ r.pc = "store" => IF r.snap = NoRec THEN Found = {} ELSE r.id \in Found
  /\ r.pc \in {"detach", "delete"} => ~ IsSchedule(live)
  /\ r.pc = "delete" => r.id \in Found
  /\ r.pc \in {"check", "toggle"} => r.id \in Found /\ SameSchedule(recs[r.id], r.snap)
  /\ r.pc = "toggle" /\ r.on => live # NoFlow /\ live.cron # NoCron /\ live.input
  /\ r.pc \in {"upsert", "register"} => Enabled(r.id)
  /\ r.pc = "register" => r.snap # NoRec /\ SameSchedule(recs[r.id], r.snap)

(* The record follows the flow, unless a request is about to change it. *)
Follows(r) ==
  /\ IsSchedule(live) /\ live.mode /\ r.pc \notin {"find", "store"} =>
       \E id \in Found : Says(live, recs[id])
  /\ ~ IsSchedule(live) /\ r.pc \notin {"detach", "delete"} => Found = {}

(* The jobs follow the records, unless the beat is to be told yet. *)
JobsFollow(r) ==
  \A id \in Ids :
    jobs[id] # NoCron /\ ~ (r.pc \in {"upsert", "register", "remove"} /\ r.id = id) =>
      Enabled(id) /\ jobs[id] = recs[id].cron

NothingYet(r) == requests = 0 => Found = {} /\ r.pc = "idle"

Settled(c) ==
  /\ AtMostOne /\ AllLast /\ NothingYet(req[c])
  /\ Knows(req[c]) /\ Follows(req[c]) /\ JobsFollow(req[c])

LEMMA EnabledIs ==
  ASSUME TypeOK
  PROVE  /\ \A id \in Ids : Enabled(id) <=> id \in Found /\ recs[id].enabled
         /\ \A id \in Found : recs[id] \in RecordType /\ id \in Ids /\ recs[id] # NoRec
         /\ Found \subseteq Ids
BY DEF TypeOK, Enabled, Found

(* Steps that are not the request's: runs move the next time of a record   *)
(* on, jobs go away.                                                       *)
LEMMA SettledAside ==
  ASSUME TypeOK, TypeOK', NEW c \in Clients, Settled(c), UNCHANGED <<live, req, requests>>,
         Found' = Found, \A id \in Found : SameSchedule(recs'[id], recs[id]),
         \A id \in Ids : jobs'[id] = jobs[id] \/ jobs'[id] = NoCron,
         \A h \in Handlers :
           fire'[h].pc # "expired" /\ (fire'[h].snap # NoRec => Lasts(fire'[h].snap))
  PROVE  Settled(c)'
<1>1. \A id \in Ids : Enabled(id)' <=> Enabled(id)
  <2>1. \A id \in Ids : Enabled(id)' <=> id \in Found' /\ recs'[id].enabled
    BY DEF Enabled, Found
  <2> QED  BY <2>1, EnabledIs DEF SameSchedule
<1>2. AtMostOne'  BY DEF Settled, AtMostOne
<1>3. AllLast'
  <2>1. ASSUME NEW id \in Found' PROVE Lasts(recs[id])'
    BY <2>1 DEF Settled, AllLast, Lasts, SameSchedule
  <2> QED  BY <2>1 DEF AllLast, Lasts
<1>4. NothingYet(req[c])'  BY DEF Settled, NothingYet
<1>5. Knows(req[c])'
  <2>1. req'[c] = req[c] /\ live' = live  OBVIOUS
  <2>2. \A id \in Found : \A s : SameSchedule(recs[id], s) => SameSchedule(recs'[id], s)
    BY DEF SameSchedule
  <2>3. req[c] \in RequestType  BY DEF TypeOK
  <2>4. \A id \in Ids : SameSchedule(recs[id], req[c].snap)' <=> SameSchedule(recs'[id], req[c].snap)
    BY <2>1 DEF SameSchedule
  <2>5. req[c].pc \in {"check", "toggle", "register"} =>
          req[c].id \in Found /\ SameSchedule(recs'[req[c].id], req[c].snap)
    BY <2>2, <2>3, EnabledIs DEF Settled, Knows, RequestType
  <2>6. req[c].pc \in {"upsert", "register"} => Enabled(req[c].id)'
    <3> SUFFICES ASSUME req[c].pc \in {"upsert", "register"} PROVE Enabled(req[c].id)'
      OBVIOUS
    <3>1. Enabled(req[c].id) /\ req[c].id \in Ids
      BY <2>3 DEF Settled, Knows, RequestType
    <3>2. PICK id \in Ids : id = req[c].id  BY <3>1
    <3>3. Enabled(id)'  BY <1>1, <3>1, <3>2
    <3> QED  BY <2>1, <3>2, <3>3 DEF Enabled
  <2>7. SameSchedule(recs'[req[c].id], req[c].snap) => SameSchedule(recs[req[c].id], req[c].snap)'
    BY <2>1 DEF SameSchedule
  <2> QED
    BY <2>1, <2>3, <2>5, <2>6, <2>7 DEF Settled, Knows, IsSchedule
<1>6. Follows(req[c])'
  <2>1. ASSUME NEW id \in Found, Says(live, recs[id]) PROVE Says(live, recs[id])'
    BY <2>1 DEF Says, SameSchedule, StoredCron
  <2> QED  BY <2>1 DEF Settled, Follows, IsSchedule
<1>7. JobsFollow(req[c])'
  <2>1. ASSUME NEW id \in Ids, jobs'[id] # NoCron,
               ~ (req[c].pc \in {"upsert", "register", "remove"} /\ req[c].id = id)
        PROVE  Enabled(id)' /\ jobs'[id] = recs'[id].cron
    <3>1. jobs'[id] = jobs[id] /\ jobs[id] # NoCron  BY <2>1
    <3>2. Enabled(id) /\ jobs[id] = recs[id].cron
      BY <2>1, <3>1 DEF Settled, JobsFollow
    <3> QED  BY <1>1, <3>1, <3>2, EnabledIs DEF SameSchedule
  <2> QED  BY <2>1 DEF JobsFollow
<1> QED  BY <1>2, <1>3, <1>4, <1>5, <1>6, <1>7 DEF Settled

LEMMA FireStepSettled ==
  ASSUME Inv, Inv', NEW c \in Clients, Settled(c), NEW h \in Handlers, FireStep(h)
  PROVE  Settled(c)'
<1> DEFINE f == fire[h]
<1>0. /\ TypeOK /\ TypeOK' /\ f \in FireType /\ recs \in [Ids -> RecordType \cup {NoRec}]
      /\ now \in 0..MaxTime /\ jobs \in [Ids -> Crons \cup {NoCron}]
  BY DEF Inv, TypeOK
<1>1. UNCHANGED <<live, req, requests>>
  BY DEF FireStep, ReadFired, SkipGone, Expire, RemoveExpired, SkipEarly, StartRun, LookUpFlow,
         Succeed, FailRun, Calm
<1>2. f.pc # "expired" /\ (f.snap # NoRec => Lasts(f.snap))  BY DEF Settled, AllLast
<1>3. ~ Expire(h)
  <2> SUFFICES ASSUME Expire(h) PROVE FALSE
    OBVIOUS
  <2>1. f.snap # NoRec /\ f.snap.enabled /\ Expired(h)  BY DEF Expire, Switched
  <2>2. f.snap.input /\ (f.snap.end = 0 \/ f.snap.end > MaxTime)  BY <1>2, <2>1 DEF Lasts
  <2>3. f.snap.end \in Nat /\ f.at \in 0..MaxTime
    BY <1>0, <2>1 DEF FireType, RecordType
  <2> QED  BY <2>1, <2>2, <2>3, SchedulerAssumption DEF Expired
<1>4. ~ RemoveExpired(h)  BY <1>2 DEF RemoveExpired, Handles
<1>5. ASSUME NEW g, Proceed(h, g), g.pc # "expired", g.snap # NoRec => Lasts(g.snap)
      PROVE  \A k \in Handlers :
               fire'[k].pc # "expired" /\ (fire'[k].snap # NoRec => Lasts(fire'[k].snap))
  BY <1>0, <1>5 DEF Settled, AllLast, Proceed, TypeOK
<1>6. ASSUME recs' = recs PROVE Found' = Found /\ \A id \in Found : SameSchedule(recs'[id], recs[id])
  BY <1>6 DEF Found, SameSchedule
<1>7. ASSUME jobs' = jobs \/ jobs' = [jobs EXCEPT ![f.id] = NoCron]
      PROVE  \A id \in Ids : jobs'[id] = jobs[id] \/ jobs'[id] = NoCron
  BY <1>0, <1>7
<1>8. Free.pc # "expired" /\ Free.snap = NoRec  BY DEF Free
<1>9. ASSUME NEW pc, pc # "expired"
      PROVE  [f EXCEPT !.pc = pc].pc # "expired" /\ [f EXCEPT !.pc = pc].snap = f.snap
  BY <1>0, <1>9 DEF FireType
<1>10. CASE ReadFired(h)
  <2>1. PICK id \in due : Proceed(h, [pc |-> "decide", id |-> id, snap |-> recs[id], at |-> now])
    BY <1>10 DEF ReadFired
  <2>2. recs[id] # NoRec => Lasts(recs[id])
    BY <1>0 DEF TypeOK, Found, Settled, AllLast
  <2>3. recs' = recs /\ jobs' = jobs  BY <1>10 DEF ReadFired
  <2> QED  BY <1>0, <1>1, <1>5, <1>6, <1>7, <2>1, <2>2, <2>3, SettledAside
<1>11. CASE SkipGone(h) \/ SkipEarly(h) \/ FailRun(h)
  <2>1. Proceed(h, Free) /\ recs' = recs /\ (jobs' = jobs \/ jobs' = [jobs EXCEPT ![f.id] = NoCron])
    BY <1>11 DEF SkipGone, SkipEarly, FailRun
  <2> QED  BY <1>0, <1>1, <1>5, <1>6, <1>7, <1>8, <2>1, SettledAside
<1>12. CASE StartRun(h) \/ LookUpFlow(h)
  <2>1. PICK pc \in {"lookup", "running"} : Proceed(h, [f EXCEPT !.pc = pc])
    BY <1>12 DEF StartRun, LookUpFlow
  <2>2. recs' = recs /\ jobs' = jobs  BY <1>12 DEF StartRun, LookUpFlow
  <2>3. pc # "expired"  BY <2>1
  <2> QED  BY <1>0, <1>1, <1>2, <1>5, <1>6, <1>7, <1>9, <2>1, <2>2, <2>3, SettledAside
<1>13. CASE Succeed(h)
  <2>1. f.id \in Ids  BY <1>0, <1>13 DEF Succeed, Handles, FireType
  <2>2. NextRun(f.snap.cron, now) \in 0..MaxTime
    BY <1>0, <1>13, NextRunType, SchedulerAssumption DEF Succeed, Handles, FireType, RecordType
  <2>3. Found' = Found /\ \A id \in Found : SameSchedule(recs'[id], recs[id])
    <3> DEFINE next == NextRun(f.snap.cron, now)
    <3>1. CASE recs' = recs  BY <1>6, <3>1
    <3>2. CASE recs' # recs
      <4>1. recs[f.id] # NoRec /\ recs' = [recs EXCEPT ![f.id] = [recs[f.id] EXCEPT !.next = next]]
        BY <1>13, <3>2 DEF Succeed
      <4>2. recs[f.id] \in RecordType  BY <1>0, <2>1, <4>1
      <4> HIDE DEF next
      <4>3. recs'[f.id] = [recs[f.id] EXCEPT !.next = next]  BY <1>0, <2>1, <4>1
      <4>4. recs'[f.id] \in RecordType /\ SameSchedule(recs'[f.id], recs[f.id])
        BY <2>2, <4>2, <4>3 DEF SameSchedule, RecordType, next
      <4>5. \A id \in Ids : id # f.id => recs'[id] = recs[id]  BY <1>0, <4>1
      <4>6. recs'[f.id] # NoRec  BY <4>4, SchedulerAssumption
      <4>7. Found' = Found  BY <4>1, <4>5, <4>6 DEF Found
      <4> QED  BY <4>4, <4>5, <4>7 DEF SameSchedule, Found
    <3> QED  BY <3>1, <3>2
  <2>4. Proceed(h, Free) /\ jobs' = jobs  BY <1>13 DEF Succeed
  <2> QED  BY <1>0, <1>1, <1>5, <1>7, <1>8, <2>3, <2>4, SettledAside
<1> QED  BY <1>3, <1>4, <1>10, <1>11, <1>12, <1>13 DEF FireStep

(***************************************************************************)
(* The request.                                                            *)
(***************************************************************************)
LEMMA GotoIs ==
  ASSUME TypeOK, NEW c \in Clients, NEW u, Goto(c, u)
  PROVE  req'[c] = u
BY DEF TypeOK, Goto

LEMMA BeginIs ==
  ASSUME TypeOK, NEW c \in Clients, NEW u, Begin(c, u)
  PROVE  /\ req[c].pc = "idle" /\ requests' = requests + 1 /\ requests' # 0
         /\ req'[c] = [u EXCEPT !.no = requests + 1]
BY GotoIs DEF Begin, At, TypeOK

(* Steps that only look: the stores are as they were. *)
LEMMA LookingKeeps ==
  ASSUME NEW c \in Clients, Settled(c), UNCHANGED <<live, recs, jobs, fire>>,
         Knows(req'[c]), Follows(req'[c]), JobsFollow(req'[c]),
         requests' # 0 \/ (requests' = requests /\ req[c].pc # "idle")
  PROVE  Settled(c)'
<1>1. Found' = Found /\ (\A id : Enabled(id)' <=> Enabled(id))  BY DEF Found, Enabled
<1>2. AtMostOne' /\ AllLast'
  BY <1>1 DEF Settled, AtMostOne, AllLast, Lasts
<1>3. NothingYet(req[c])'  BY DEF Settled, NothingYet
<1>4. Knows(req[c])'
  <2>1. SameSchedule(recs[req'[c].id], req'[c].snap) => SameSchedule(recs[req[c].id], req[c].snap)'
    BY DEF SameSchedule
  <2>2. Enabled(req'[c].id) => Enabled(req[c].id)'  BY DEF Enabled
  <2> QED  BY <1>1, <2>1, <2>2 DEF Knows, IsSchedule
<1>5. Follows(req[c])'
  BY <1>1 DEF Follows, IsSchedule, Says, StoredCron
<1>6. JobsFollow(req[c])'
  BY <1>1 DEF JobsFollow
<1> QED  BY <1>2, <1>3, <1>4, <1>5, <1>6 DEF Settled

(* The flow is stored anew, or deleted, while no job is to be changed. *)
LEMMA FlowChanges ==
  ASSUME TypeOK, NEW c \in Clients, Settled(c), UNCHANGED <<recs, jobs, fire>>, requests' # 0,
         req[c].pc \in {"idle", "save"}, NEW u, req'[c] = u,
         \/ /\ u.pc = "find" /\ u.op \in {"create", "update"} /\ (u.op = "create" => Found = {})
            /\ u.cfg = live' /\ IsSchedule(live')
            /\ u.on => live'.cron # NoCron /\ live'.input
         \/ u.pc = "detach" /\ ~ IsSchedule(live')
         \/ u.pc = "idle" /\ IsSchedule(live') /\ ~ live'.mode
         \/ u.pc = "idle" /\ Found = {} /\ ~ (IsSchedule(live') /\ live'.mode)
  PROVE  Settled(c)'
<1>1. Found' = Found /\ (\A id : Enabled(id)' <=> Enabled(id))  BY DEF Found, Enabled
<1>2. AtMostOne' /\ AllLast'
  BY <1>1 DEF Settled, AtMostOne, AllLast, Lasts
<1>3. NothingYet(req[c])'  BY DEF Settled, NothingYet
<1>4. IsSchedule(live)' <=> IsSchedule(live')  BY DEF IsSchedule
<1>5. Knows(req[c])'
  BY <1>1, <1>4 DEF Knows, IsSchedule
<1>6. Follows(req[c])'
  BY <1>1, <1>4 DEF Follows
<1>7. JobsFollow(req[c])'
  <2>1. \A id \in Ids : jobs[id] # NoCron => Enabled(id) /\ jobs[id] = recs[id].cron
    BY DEF Settled, JobsFollow
  <2> QED  BY <1>1, <2>1 DEF JobsFollow
<1> QED  BY <1>2, <1>3, <1>5, <1>6, <1>7 DEF Settled

LEMMA NewRequestSettled ==
  ASSUME TypeOK, TypeOK', NEW c \in Clients, Settled(c), NewRequest(c)
  PROVE  Settled(c)'
<1>0. req[c].pc = "idle" /\ requests' # 0 /\ UNCHANGED <<recs, jobs, fire>>
  BY BeginIs DEF NewRequest, Create, Update, Delete, Toggle, Rest
<1>1. /\ AtMostOne /\ AllLast /\ Follows(req[c]) /\ JobsFollow(req[c])
      /\ \A id \in Ids : jobs[id] # NoCron => Enabled(id) /\ jobs[id] = recs[id].cron
  BY <1>0 DEF Settled, JobsFollow
<1>2. ASSUME NEW f \in Configs, Create(c, f) PROVE Settled(c)'
  <2> DEFINE u == req'[c]
             r0 == [Idle EXCEPT !.op = "create"]
  <2>1. Found = {} /\ live' = f /\ Begin(c, AfterSave(r0, f))
    BY <1>2 DEF Create, Settled, NothingYet
  <2>2. u = [AfterSave(r0, f) EXCEPT !.no = requests + 1]  BY <2>1, BeginIs
  <2>3. CASE f.kind = "schedule" /\ f.mode
    <3>1. u = [[r0 EXCEPT !.pc = "find", !.cfg = f, !.on = CanScheduleEnable(f)]
                 EXCEPT !.no = requests + 1]
      BY <2>2, <2>3 DEF AfterSave
    <3>2. u.pc = "find" /\ u.op = "create" /\ u.cfg = f /\ u.on = CanScheduleEnable(f)
      BY <3>1 DEF Idle
    <3>3. IsSchedule(live') /\ (u.on => live'.cron # NoCron /\ live'.input)
      BY <2>1, <2>3, <3>2, SchedulerAssumption DEF IsSchedule, CanScheduleEnable
    <3> QED  BY <1>0, <2>1, <3>2, <3>3, FlowChanges
  <2>4. CASE ~ (f.kind = "schedule" /\ f.mode)
    <3>1. u = [Idle EXCEPT !.no = requests + 1]  BY <2>2, <2>4 DEF AfterSave, Idle
    <3>2. u.pc = "idle"  BY <3>1 DEF Idle
    <3>3. ~ (IsSchedule(live') /\ live'.mode)  BY <2>1, <2>4 DEF IsSchedule
    <3> QED  BY <1>0, <2>1, <3>2, <3>3, FlowChanges
  <2> QED  BY <2>3, <2>4
<1>3. ASSUME NEW f \in Configs \cup {live}, Update(c, f) PROVE Settled(c)'
  <2>1. req'[c] = [[Idle EXCEPT !.op = "update", !.pc = "save", !.cfg = f] EXCEPT !.no = requests + 1]
    BY <1>3, BeginIs DEF Update
  <2>2. req'[c].pc = "save" /\ req'[c].op = "update"  BY <2>1 DEF Idle
  <2>3. Knows(req'[c]) /\ Follows(req'[c]) /\ JobsFollow(req'[c])
    BY <1>0, <1>1, <2>2 DEF Knows, Follows, JobsFollow
  <2> QED  BY <1>0, <1>3, <2>3, LookingKeeps DEF Update
<1>4. CASE Delete(c)
  <2>1. req'[c] = [[Idle EXCEPT !.op = "delete", !.pc = "detach"] EXCEPT !.no = requests + 1]
    BY <1>4, BeginIs DEF Delete
  <2>2. req'[c].pc = "detach" /\ live' = NoFlow  BY <1>4, <2>1 DEF Idle, Delete
  <2>3. ~ IsSchedule(live')  BY <2>2 DEF IsSchedule
  <2> QED  BY <1>0, <2>2, <2>3, FlowChanges
<1>5. ASSUME NEW on \in BOOLEAN, Toggle(c, on) PROVE Settled(c)'
  <2>1. PICK id \in Found :
          Begin(c, [Idle EXCEPT !.op = "toggle", !.pc = IF on THEN "check" ELSE "toggle",
                                !.id = id, !.snap = recs[id], !.on = on])
    BY <1>5 DEF Toggle
  <2>2. req'[c] = [[Idle EXCEPT !.op = "toggle", !.pc = IF on THEN "check" ELSE "toggle",
                                !.id = id, !.snap = recs[id], !.on = on]
                     EXCEPT !.no = requests + 1]
    BY <2>1, BeginIs
  <2>3. /\ req'[c].pc = IF on THEN "check" ELSE "toggle"
        /\ req'[c].id = id /\ req'[c].snap = recs[id] /\ req'[c].on = on
    BY <2>2 DEF Idle
  <2>4. SameSchedule(recs[req'[c].id], req'[c].snap)  BY <2>3 DEF SameSchedule
  <2>5. Knows(req'[c]) /\ Follows(req'[c]) /\ JobsFollow(req'[c])
    BY <1>0, <1>1, <2>3, <2>4 DEF Knows, Follows, JobsFollow
  <2> QED  BY <1>0, <1>5, <2>5, LookingKeeps DEF Toggle
<1> QED  BY <1>2, <1>3, <1>4, <1>5 DEF NewRequest

LEMMA StoreScheduleSettled ==
  ASSUME TypeOK, TypeOK', NoExpiry, NEW c \in Clients, Settled(c), StoreSchedule(c)
  PROVE  Settled(c)'
<1> DEFINE r == req[c]
           rec == Merged(r.cfg, r.on, r.snap)
           id == IF r.snap = NoRec THEN r.no ELSE r.id
<1>0. /\ r \in RequestType /\ r.pc = "store" /\ recs \in [Ids -> RecordType \cup {NoRec}]
      /\ now \in 0..MaxTime
  BY DEF TypeOK, StoreSchedule, At
<1>1. /\ r.cfg \in Configs /\ id \in Ids /\ r.on \in BOOLEAN /\ r.snap \in RecordType \cup {NoRec}
      /\ r.cfg = live /\ live.kind = "schedule" /\ live \in ConfigType /\ live \in Configs
  BY <1>0, SchedulerAssumption DEF RequestType, Settled, Knows
<1>2. /\ r.op \in {"create", "update"} /\ (r.op = "create" => Found = {})
      /\ r.on => live.cron # NoCron /\ live.input
      /\ IF r.snap = NoRec THEN Found = {} ELSE r.id \in Found
  BY <1>0 DEF Settled, Knows
<1>3. rec \in RecordType  BY <1>0, <1>1, MergedType
<1>4. /\ rec.cron = StoredCron(live) /\ rec.end = live.end /\ rec.input = live.input
      /\ rec.enabled => r.on
  <2>1. rec.enabled = (r.on /\ (r.snap # NoRec => r.snap.enabled))  BY DEF Merged
  <2>2. rec.enabled => r.on  BY <2>1
  <2> QED  BY <1>1, <2>2 DEF Merged
<1>5. rec # NoRec  BY <1>3, SchedulerAssumption
<1>6. /\ recs' = [recs EXCEPT ![id] = rec] /\ req'[c] = AfterStore(r, id, rec.enabled)
      /\ UNCHANGED <<live, jobs, requests, fire>>
  BY GotoIs DEF StoreSchedule, Rest
<1> HIDE DEF rec
<1>7. \A k \in Found : k = id  BY <1>1, <1>2 DEF Settled, AtMostOne
<1> HIDE DEF id
<1>8. recs'[id] = rec /\ (\A k \in Ids : k # id => recs'[k] = recs[k])  BY <1>0, <1>1, <1>6
<1>9. Found' = {id}  BY <1>1, <1>5, <1>7, <1>8 DEF Found
<1>10. \A k \in Ids : jobs[k] # NoCron => k \in Found
  BY <1>0 DEF Settled, JobsFollow, Enabled, Found
<1>11. /\ rec.enabled => req'[c].pc = "upsert" /\ req'[c].id = id
       /\ ~ rec.enabled /\ r.op = "update" => req'[c].pc = "remove" /\ req'[c].id = id
       /\ ~ rec.enabled /\ r.op = "create" => req'[c].pc = "idle"
  BY <1>6 DEF AfterStore, Telling, Idle
<1>12. AtMostOne'  BY <1>9 DEF AtMostOne
<1>13. Lasts(rec)  BY <1>1, <1>2, <1>4 DEF NoExpiry, Lasts
<1>14. AllLast'
  <2>1. \A k \in Found' : Lasts(recs'[k])  BY <1>8, <1>9, <1>13
  <2>2. \A h \in Handlers :
          fire'[h].pc # "expired" /\ (fire'[h].snap # NoRec => Lasts(fire'[h].snap))
    BY <1>6 DEF Settled, AllLast
  <2> QED  BY <2>1, <2>2 DEF AllLast, Lasts
<1>15. NothingYet(req[c])'  BY <1>0, <1>6 DEF Settled, NothingYet
<1>16. Says(live, rec)  BY <1>2, <1>4 DEF Says
<1>17. Knows(req[c])'
  <2>3. rec.enabled => Enabled(req[c].id)'
    <3>1. rec.enabled => req'[c].id = id  BY <1>11
    <3>2. rec.enabled => recs'[req'[c].id] = rec  BY <1>8, <3>1
    <3> QED  BY <1>5, <3>2 DEF Enabled
  <2>4. ~ rec.enabled => req'[c].pc \in {"idle", "remove"}  BY <1>2, <1>11
  <2> QED  BY <1>11, <2>3, <2>4 DEF Knows
<1>18. Follows(req[c])'
  <2>1. PICK k \in Found' : recs'[k] = rec  BY <1>8, <1>9
  <2>2. Says(live, recs[k])'  BY <1>6, <1>16, <2>1 DEF Says, StoredCron
  <2>3. IsSchedule(live)'  BY <1>1, <1>6, SchedulerAssumption DEF IsSchedule
  <2> QED  BY <2>2, <2>3 DEF Follows
<1>19. JobsFollow(req[c])'
  <2> SUFFICES ASSUME NEW k \in Ids, jobs'[k] # NoCron,
                      ~ (req'[c].pc \in {"upsert", "register", "remove"} /\ req'[c].id = k)
               PROVE  FALSE
    BY DEF JobsFollow
  <2>1. k \in Found /\ k = id  BY <1>6, <1>7, <1>10
  <2> QED  BY <1>2, <1>11, <2>1
<1> QED  BY <1>12, <1>14, <1>15, <1>17, <1>18, <1>19 DEF Settled

LEMMA StoreToggleSettled ==
  ASSUME TypeOK, TypeOK', NoExpiry, NEW c \in Clients, Settled(c), StoreToggle(c)
  PROVE  Settled(c)'
<1> DEFINE r == req[c]
           id == r.id
           rec == [r.snap EXCEPT !.enabled = r.on]
           pc == IF r.on THEN "upsert" ELSE "remove"
<1>0. /\ r \in RequestType /\ r.pc = "toggle" /\ recs \in [Ids -> RecordType \cup {NoRec}]
      /\ live \in Configs \cup {NoFlow}
  BY DEF TypeOK, StoreToggle, At
<1>1. /\ id \in Ids /\ id \in Found /\ r.on \in BOOLEAN /\ r.snap \in RecordType
      /\ SameSchedule(recs[id], r.snap)
      /\ r.on => live # NoFlow /\ live.cron # NoCron /\ live.input
  BY <1>0 DEF RequestType, Settled, Knows
<1>2. IsSchedule(live)  BY <1>0, <1>1 DEF Settled, Follows
<1>3. live.mode => Says(live, recs[id])
  BY <1>0, <1>1, <1>2 DEF Settled, Follows, AtMostOne
<1>4. r.on => live.mode  BY <1>0, <1>1, <1>2 DEF NoExpiry, IsSchedule
<1>5. /\ rec \in RecordType /\ rec.cron = recs[id].cron /\ rec.end = recs[id].end
      /\ rec.input = recs[id].input /\ rec.enabled = r.on
  BY <1>1 DEF RecordType, SameSchedule
<1>6. rec # NoRec  BY <1>5, SchedulerAssumption
<1>7. /\ recs' = [recs EXCEPT ![id] = rec] /\ req'[c] = Telling(id, pc)
      /\ UNCHANGED <<live, jobs, requests, fire>>
  BY GotoIs DEF StoreToggle, Rest
<1> HIDE DEF rec
<1>8. req'[c].id = id /\ req'[c].pc = pc  BY <1>7 DEF Telling, Idle
<1>9. \A k \in Found : k = id  BY <1>1 DEF Settled, AtMostOne
<1> HIDE DEF id
<1>10. recs'[id] = rec /\ (\A k \in Ids : k # id => recs'[k] = recs[k])  BY <1>0, <1>1, <1>7
<1>11. Found' = {id}  BY <1>1, <1>6, <1>9, <1>10 DEF Found
<1>12. \A k \in Ids : jobs[k] # NoCron => k \in Found
  BY <1>0 DEF Settled, JobsFollow, Enabled, Found
<1>13. AtMostOne'  BY <1>11 DEF AtMostOne
<1>14. Lasts(rec)
  <2>1. Lasts(recs[id])  BY <1>1 DEF Settled, AllLast
  <2>2. r.on => rec.input  BY <1>1, <1>3, <1>4, <1>5 DEF Says
  <2> QED  BY <1>5, <2>1, <2>2 DEF Lasts
<1>15. AllLast'
  <2>1. \A k \in Found' : Lasts(recs'[k])  BY <1>10, <1>11, <1>14
  <2>2. \A h \in Handlers :
          fire'[h].pc # "expired" /\ (fire'[h].snap # NoRec => Lasts(fire'[h].snap))
    BY <1>7 DEF Settled, AllLast
  <2> QED  BY <2>1, <2>2 DEF AllLast, Lasts
<1>16. NothingYet(req[c])'  BY <1>0, <1>7 DEF Settled, NothingYet
<1>17. Knows(req[c])'
  <2>3. r.on => Enabled(req[c].id)'
    <3>1. recs'[req'[c].id] = rec  BY <1>8, <1>10
    <3> QED  BY <1>5, <1>6, <3>1 DEF Enabled
  <2> QED  BY <1>8, <2>3 DEF Knows
<1>18. Follows(req[c])'
  <2>1. live.mode => Says(live, rec)
    BY <1>1, <1>3, <1>5 DEF Says
  <2>2. PICK k \in Found' : recs'[k] = rec  BY <1>10, <1>11
  <2>3. live.mode => Says(live, recs[k])'  BY <1>7, <2>1, <2>2 DEF Says, StoredCron
  <2>4. IsSchedule(live)' /\ live' = live  BY <1>2, <1>7 DEF IsSchedule
  <2> QED  BY <2>3, <2>4 DEF Follows
<1>19. JobsFollow(req[c])'
  <2> SUFFICES ASSUME NEW k \in Ids, jobs'[k] # NoCron,
                      ~ (req'[c].pc \in {"upsert", "register", "remove"} /\ req'[c].id = k)
               PROVE  FALSE
    BY DEF JobsFollow
  <2> QED  BY <1>7, <1>8, <1>9, <1>12
<1> QED  BY <1>13, <1>15, <1>16, <1>17, <1>18, <1>19 DEF Settled

LEMMA DeleteScheduleSettled ==
  ASSUME TypeOK, TypeOK', NEW c \in Clients, Settled(c), DeleteSchedule(c)
  PROVE  Settled(c)'
<1> DEFINE r == req[c]
<1>0. /\ r \in RequestType /\ r.pc = "delete" /\ recs \in [Ids -> RecordType \cup {NoRec}]
  BY DEF TypeOK, DeleteSchedule, At
<1>1. r.id \in Found /\ r.id \in Ids /\ ~ IsSchedule(live)
  BY <1>0 DEF RequestType, Settled, Knows
<1>2. /\ recs' = [recs EXCEPT ![r.id] = NoRec] /\ req'[c] = [r EXCEPT !.pc = "remove"]
      /\ UNCHANGED <<live, jobs, requests, fire>>
  BY GotoIs DEF DeleteSchedule, Rest
<1>3. req'[c].pc = "remove" /\ req'[c].id = r.id  BY <1>0, <1>2 DEF RequestType
<1>4. \A k \in Found : k = r.id  BY <1>1 DEF Settled, AtMostOne
<1>5. Found' = {}
  <2>1. recs'[r.id] = NoRec /\ (\A k \in Ids : k # r.id => recs'[k] = recs[k])
    BY <1>0, <1>1, <1>2
  <2> QED  BY <1>4, <2>1 DEF Found
<1>6. \A k \in Ids : jobs[k] # NoCron => k \in Found
  BY <1>0 DEF Settled, JobsFollow, Enabled, Found
<1>7. AtMostOne' /\ AllLast'
  BY <1>2, <1>5 DEF Settled, AtMostOne, AllLast, Lasts
<1>8. NothingYet(req[c])'  BY <1>0, <1>2 DEF Settled, NothingYet
<1>9. Knows(req[c])'  BY <1>3 DEF Knows
<1>10. Follows(req[c])'
  <2>1. ~ IsSchedule(live)'  BY <1>1, <1>2 DEF IsSchedule
  <2> QED  BY <1>5, <2>1 DEF Follows
<1>11. JobsFollow(req[c])'
  BY <1>2, <1>3, <1>4, <1>6 DEF JobsFollow
<1> QED  BY <1>7, <1>8, <1>9, <1>10, <1>11 DEF Settled

(* Telling the beat: the job of the record is registered or removed. *)
LEMMA BeatTold ==
  ASSUME TypeOK, TypeOK', NEW c \in Clients, Settled(c), Register(c) \/ Remove(c)
  PROVE  Settled(c)'
<1> DEFINE r == req[c]
<1>0. /\ r \in RequestType /\ r.pc \in {"register", "remove"} /\ r.id \in Ids
      /\ jobs \in [Ids -> Crons \cup {NoCron}]
  BY DEF TypeOK, Register, Remove, At, RequestType
<1>1. req'[c].pc = "idle" /\ UNCHANGED <<live, recs, requests, fire>>
  BY GotoIs DEF Register, Remove, Rest, Idle
<1>2. Found' = Found /\ (\A id : Enabled(id)' <=> Enabled(id))  BY <1>1 DEF Found, Enabled
<1>3. AtMostOne' /\ AllLast'
  BY <1>1, <1>2 DEF Settled, AtMostOne, AllLast, Lasts
<1>4. NothingYet(req[c])'  BY <1>0, <1>1 DEF Settled, NothingYet
<1>5. Knows(req[c])'  BY <1>1 DEF Knows
<1>6. Follows(req[c])'
  BY <1>0, <1>1, <1>2 DEF Settled, Follows, IsSchedule, Says, StoredCron
<1>7. \A k \in Ids : k # r.id /\ jobs[k] # NoCron => Enabled(k) /\ jobs[k] = recs[k].cron
  BY <1>0 DEF Settled, JobsFollow
<1>8. \A k \in Ids : k # r.id => jobs'[k] = jobs[k]
  BY <1>0 DEF Register, Remove
<1>9. jobs'[r.id] # NoCron => Enabled(r.id) /\ jobs'[r.id] = recs[r.id].cron
  <2>1. CASE Remove(c)
    BY <1>0, <2>1 DEF Remove
  <2>2. CASE Register(c)
    <3>1. Enabled(r.id) /\ r.snap # NoRec /\ SameSchedule(recs[r.id], r.snap)
      BY <2>2 DEF Register, At, Settled, Knows
    <3>2. r.snap.enabled  BY <3>1 DEF SameSchedule, Enabled
    <3> QED  BY <1>0, <2>2, <3>1, <3>2 DEF Register, SameSchedule
  <2> QED  BY <2>1, <2>2
<1>10. JobsFollow(req[c])'
  <2>1. \A k \in Ids : jobs'[k] # NoCron => Enabled(k) /\ jobs'[k] = recs[k].cron
    BY <1>7, <1>8, <1>9
  <2> QED  BY <1>1, <1>2, <2>1 DEF JobsFollow
<1> QED  BY <1>3, <1>4, <1>5, <1>6, <1>10 DEF Settled

LEMMA RequestStepSettled ==
  ASSUME TypeOK, TypeOK', NoExpiry, NEW c \in Clients, Settled(c), RequestStep(c)
  PROVE  Settled(c)'
<1> DEFINE r == req[c]
<1>0. r \in RequestType /\ live \in Configs \cup {NoFlow}  BY DEF TypeOK
<1>1. /\ NothingYet(r) /\ Knows(r) /\ Follows(r) /\ JobsFollow(r)
      /\ \A i \in Found, j \in Found : i = j
  BY DEF Settled, AtMostOne
<1>2. CASE SaveFlow(c)
  <2> DEFINE u == AfterSave(r, r.cfg)
  <2>1. /\ r.pc = "save" /\ live' = r.cfg /\ req'[c] = u
        /\ UNCHANGED <<recs, jobs, requests, fire>>
    BY <1>2, GotoIs DEF SaveFlow, At, Rest
  <2>2. r.op = "update" /\ r.cfg \in Configs /\ r.cfg # NoFlow /\ r.cfg.kind \in {"schedule", "chat"}
    BY <1>0, <1>1, <2>1, SchedulerAssumption DEF Knows, RequestType, ConfigType
  <2>3. requests' # 0  BY <1>1, <2>1 DEF NothingYet
  <2>4. CASE r.cfg.kind = "schedule" /\ r.cfg.mode
    <3>1. u = [r EXCEPT !.pc = "find", !.cfg = r.cfg, !.on = CanScheduleEnable(r.cfg)]
      BY <2>4 DEF AfterSave
    <3>2. u.pc = "find" /\ u.op = "update" /\ u.cfg = live' /\ u.on = CanScheduleEnable(live')
      BY <1>0, <2>1, <2>2, <3>1 DEF RequestType
    <3>3. IsSchedule(live') /\ (u.on => live'.cron # NoCron /\ live'.input)
      BY <2>1, <2>2, <2>4, <3>2 DEF IsSchedule, CanScheduleEnable
    <3> HIDE DEF u
    <3> QED  BY <2>1, <2>3, <3>2, <3>3, FlowChanges
  <2>5. CASE r.cfg.kind # "schedule"
    <3>1. u = [r EXCEPT !.pc = "detach", !.cfg = NoFlow]  BY <2>2, <2>5 DEF AfterSave
    <3>2. u.pc = "detach"  BY <1>0, <3>1 DEF RequestType
    <3>3. ~ IsSchedule(live')  BY <2>1, <2>5 DEF IsSchedule
    <3> HIDE DEF u
    <3> QED  BY <2>1, <2>3, <3>2, <3>3, FlowChanges
  <2>6. CASE r.cfg.kind = "schedule" /\ ~ r.cfg.mode
    <3>1. u = Idle  BY <2>6 DEF AfterSave
    <3>2. u.pc = "idle"  BY <3>1 DEF Idle
    <3>3. IsSchedule(live') /\ ~ live'.mode  BY <2>1, <2>2, <2>6 DEF IsSchedule
    <3> HIDE DEF u
    <3> QED  BY <2>1, <2>3, <3>2, <3>3, FlowChanges
  <2> QED  BY <2>4, <2>5, <2>6
<1>3. CASE FindSchedule(c)
  <2>1. r.pc = "find" /\ UNCHANGED <<live, recs, jobs, requests, fire>>
    BY <1>3 DEF FindSchedule, At, Rest
  <2>2. \/ Found = {} /\ req'[c] = [r EXCEPT !.pc = "store"]
        \/ \E id \in Found : req'[c] = [r EXCEPT !.pc = "store", !.id = id, !.snap = recs[id]]
    BY <1>3, GotoIs DEF FindSchedule
  <2>3. r.snap = NoRec  BY <1>0, <2>1 DEF RequestType
  <2>4. /\ req'[c].pc = "store" /\ req'[c].op = r.op /\ req'[c].cfg = r.cfg /\ req'[c].on = r.on
        /\ IF req'[c].snap = NoRec THEN Found = {} ELSE req'[c].id \in Found
    <3>1. CASE Found = {} /\ req'[c] = [r EXCEPT !.pc = "store"]
      BY <1>0, <2>3, <3>1 DEF RequestType
    <3>2. ASSUME NEW id \in Found, req'[c] = [r EXCEPT !.pc = "store", !.id = id, !.snap = recs[id]]
          PROVE  /\ req'[c].pc = "store" /\ req'[c].op = r.op /\ req'[c].cfg = r.cfg
                 /\ req'[c].on = r.on /\ req'[c].snap # NoRec /\ req'[c].id \in Found
      <4>1. recs[id] # NoRec  BY DEF Found
      <4>2. req'[c].id = id /\ req'[c].snap = recs[id]  BY <1>0, <3>2 DEF RequestType
      <4>3. /\ req'[c].pc = "store" /\ req'[c].op = r.op /\ req'[c].cfg = r.cfg
            /\ req'[c].on = r.on
        BY <1>0, <3>2 DEF RequestType
      <4> QED  BY <4>1, <4>2, <4>3
    <3> QED  BY <2>2, <3>1, <3>2
  <2>5. Knows(req'[c]) /\ Follows(req'[c]) /\ JobsFollow(req'[c])
    BY <1>1, <2>1, <2>4 DEF Knows, Follows, JobsFollow
  <2> QED  BY <2>1, <2>5, LookingKeeps
<1>4. CASE StoreSchedule(c)  BY <1>4, StoreScheduleSettled
<1>5. CASE FindObsolete(c)
  <2>1. r.pc = "detach" /\ UNCHANGED <<live, recs, jobs, requests, fire>>
    BY <1>5 DEF FindObsolete, At, Rest
  <2>2. \/ Found = {} /\ req'[c] = Idle
        \/ \E id \in Found : req'[c] = [r EXCEPT !.pc = "delete", !.id = id]
    BY <1>5, GotoIs DEF FindObsolete
  <2>3. \/ Found = {} /\ req'[c].pc = "idle"
        \/ req'[c].pc = "delete" /\ req'[c].id \in Found
    <3>1. CASE req'[c] = Idle /\ Found = {}  BY <3>1 DEF Idle
    <3>2. ASSUME NEW id \in Found, req'[c] = [r EXCEPT !.pc = "delete", !.id = id]
          PROVE  req'[c].pc = "delete" /\ req'[c].id = id
      BY <1>0, <3>2 DEF RequestType
    <3> QED  BY <2>2, <3>1, <3>2
  <2>4. Knows(req'[c]) /\ Follows(req'[c]) /\ JobsFollow(req'[c])
    BY <1>1, <2>1, <2>3 DEF Knows, Follows, JobsFollow
  <2> QED  BY <2>1, <2>4, LookingKeeps
<1>6. CASE DeleteSchedule(c)  BY <1>6, DeleteScheduleSettled
<1>7. CASE CheckStatus(c)
  <2>1. r.pc = "check" /\ UNCHANGED <<live, recs, jobs, requests, fire>>
    BY <1>7 DEF CheckStatus, At, Rest
  <2>2. PICK rec : req'[c] = IF CanEnable(live, rec) THEN [r EXCEPT !.pc = "toggle"] ELSE Idle
    BY <1>7, GotoIs DEF CheckStatus
  <2>3. \/ /\ req'[c].pc = "toggle" /\ req'[c].id = r.id /\ req'[c].snap = r.snap
           /\ live # NoFlow /\ live.cron # NoCron /\ live.input
        \/ req'[c].pc = "idle"
    BY <1>0, <2>2 DEF Idle, CanEnable, RequestType
  <2>4. Knows(req'[c]) /\ Follows(req'[c]) /\ JobsFollow(req'[c])
    BY <1>1, <2>1, <2>3 DEF Knows, Follows, JobsFollow
  <2> QED  BY <2>1, <2>4, LookingKeeps
<1>8. CASE StoreToggle(c)  BY <1>8, StoreToggleSettled
<1>9. CASE ReadRecord(c)
  <2>1. r.pc = "upsert" /\ UNCHANGED <<live, recs, jobs, requests, fire>>
    BY <1>9 DEF ReadRecord, At, Rest
  <2>2. req'[c] = [r EXCEPT !.pc = "register", !.snap = recs[r.id]]
    BY <1>9, GotoIs DEF ReadRecord
  <2>3. req'[c].pc = "register" /\ req'[c].id = r.id /\ req'[c].snap = recs[r.id]
    BY <1>0, <2>2 DEF RequestType
  <2>4. Enabled(r.id) /\ recs[r.id] # NoRec  BY <1>1, <2>1 DEF Knows, Enabled
  <2>5. SameSchedule(recs[r.id], req'[c].snap)  BY <2>3 DEF SameSchedule
  <2>6. Knows(req'[c]) /\ Follows(req'[c]) /\ JobsFollow(req'[c])
    BY <1>1, <2>1, <2>3, <2>4, <2>5 DEF Knows, Follows, JobsFollow
  <2> QED  BY <2>1, <2>6, LookingKeeps
<1>10. CASE Register(c) \/ Remove(c)  BY <1>10, BeatTold
<1> QED
  BY <1>2, <1>3, <1>4, <1>5, <1>6, <1>7, <1>8, <1>9, <1>10 DEF RequestStep

LEMMA TickSettled ==
  ASSUME TypeOK, TypeOK', NEW c \in Clients, Settled(c), Tick
  PROVE  Settled(c)'
<1>1. UNCHANGED <<live, recs, jobs, req, fire, requests>>  BY DEF Tick
<1>2. Found' = Found /\ \A id \in Found : SameSchedule(recs'[id], recs[id])
  BY <1>1 DEF Found, SameSchedule
<1>3. \A h \in Handlers :
        fire'[h].pc # "expired" /\ (fire'[h].snap # NoRec => Lasts(fire'[h].snap))
  BY <1>1 DEF Settled, AllLast
<1> QED  BY <1>1, <1>2, <1>3, SettledAside

(* A restart that waits for the request gives every record that is on its  *)
(* job; without a queue no other job is left.                              *)
LEMMA RestartSettled ==
  ASSUME TypeOK, TypeOK', NEW c \in Clients, Settled(c), Restart, ~ Interrupts
  PROVE  Settled(c)'
<1>1. req[c].pc = "idle" /\ req'[c].pc = "idle" /\ UNCHANGED <<live, recs, requests>>
  BY DEF Restart, At, Idle
<1>2. Found' = Found /\ (\A id : Enabled(id)' <=> Enabled(id))  BY <1>1 DEF Found, Enabled
<1>3. \A h \in Handlers :
        fire'[h].pc # "expired" /\ (fire'[h].snap # NoRec => Lasts(fire'[h].snap))
  BY DEF Restart, Free, Settled, AllLast
<1>4. AtMostOne' /\ AllLast'
  BY <1>1, <1>2, <1>3 DEF Settled, AtMostOne, AllLast, Lasts
<1>5. NothingYet(req[c])'  BY <1>1, <1>2 DEF Settled, NothingYet
<1>6. Knows(req[c])'  BY <1>1 DEF Knows
<1>7. Follows(req[c])'
  BY <1>1, <1>2 DEF Settled, Follows, IsSchedule, Says, StoredCron
<1>8. \A id \in Ids : jobs[id] # NoCron => Enabled(id) /\ jobs[id] = recs[id].cron
  BY <1>1 DEF Settled, JobsFollow
<1>9. \A id \in Ids :
        jobs'[id] = IF Enabled(id) THEN recs[id].cron ELSE IF QueueMode THEN jobs[id] ELSE NoCron
  BY DEF Restart
<1>10. \A id \in Ids : jobs'[id] # NoCron => Enabled(id) /\ jobs'[id] = recs[id].cron
  BY <1>8, <1>9
<1>11. JobsFollow(req[c])'  BY <1>1, <1>2, <1>10 DEF JobsFollow
<1> QED  BY <1>4, <1>5, <1>6, <1>7, <1>11 DEF Settled

LEMMA SettledInit ==
  ASSUME Init, NEW c \in Clients
  PROVE  Settled(c)
<1>1. Found = {}  BY DEF Init, Found
<1>2. req[c].pc = "idle"  BY DEF Init, Idle
<1>3. AtMostOne /\ AllLast  BY <1>1 DEF Init, AtMostOne, AllLast, Free
<1>4. NothingYet(req[c]) /\ Knows(req[c])  BY <1>1, <1>2 DEF NothingYet, Knows
<1>5. Follows(req[c])  BY <1>1 DEF Init, Follows, IsSchedule
<1>6. JobsFollow(req[c])  BY DEF Init, JobsFollow
<1> QED  BY <1>3, <1>4, <1>5, <1>6 DEF Settled

LEMMA SettledStep ==
  ASSUME NEW c, Clients = {c}, ~ Interrupts, NoExpiry, Inv, Inv', Settled(c), [Next]_vars
  PROVE  Settled(c)'
<1>0. TypeOK /\ TypeOK' /\ c \in Clients  BY DEF Inv
<1>1. CASE NewRequest(c)  BY <1>0, <1>1, NewRequestSettled
<1>2. CASE RequestStep(c)  BY <1>0, <1>2, RequestStepSettled
<1>3. CASE \E h \in Handlers : FireStep(h)  BY <1>0, <1>3, FireStepSettled
<1>4. CASE Tick  BY <1>0, <1>4, TickSettled
<1>5. CASE Restart  BY <1>0, <1>5, RestartSettled
<1>6. CASE UNCHANGED vars
  <2>1. Found' = Found /\ \A id \in Found : SameSchedule(recs'[id], recs[id])
    BY <1>6 DEF vars, Found, SameSchedule
  <2>2. \A h \in Handlers :
          fire'[h].pc # "expired" /\ (fire'[h].snap # NoRec => Lasts(fire'[h].snap))
    BY <1>6 DEF vars, Settled, AllLast
  <2> QED  BY <1>0, <1>6, <2>1, <2>2, SettledAside DEF vars
<1> QED
  BY <1>1, <1>2, <1>3, <1>4, <1>5, <1>6 DEF Next, Interrupt

(* What it comes to: the four properties. *)
LEMMA SettledGives ==
  ASSUME NEW c, Clients = {c}, Inv, Settled(c)
  PROVE  OneRecord /\ RecordOfFlow /\ NoRecordWithoutFlow /\ NoOrphanJob
<1>1. /\ \A i \in Found, j \in Found : i = j
      /\ Follows(req[c]) /\ JobsFollow(req[c])
  BY DEF Settled, AtMostOne
<1>2. OneRecord
  <2>1. CASE Found = {}
    <3>1. Cardinality(Found) = 0  BY <2>1, FS_EmptySet
    <3> QED  BY <3>1 DEF OneRecord, Found
  <2>2. CASE Found # {}
    <3>1. PICK i \in Found : TRUE  BY <2>2
    <3>2. Found = {i}  BY <1>1, <3>1
    <3>3. Cardinality(Found) = 1  BY <3>2, FS_Singleton
    <3> QED  BY <3>3 DEF OneRecord, Found
  <2> QED  BY <2>1, <2>2
<1>3. ASSUME AtRest PROVE req[c].pc = "idle"  BY <1>3 DEF AtRest, At
<1>4. RecordOfFlow
  BY <1>1, <1>3 DEF RecordOfFlow, Follows, IsSchedule, Says
<1>5. NoRecordWithoutFlow
  BY <1>1, <1>3 DEF NoRecordWithoutFlow, Follows, IsSchedule
<1>6. NoOrphanJob  BY <1>1, <1>3 DEF NoOrphanJob, JobsFollow
<1> QED  BY <1>2, <1>4, <1>5, <1>6

LEMMA AlwaysSettled ==
  ASSUME NEW CONSTANT c, Clients = {c}, ~ Interrupts, NoExpiry
  PROVE  Spec => [](OneRecord /\ RecordOfFlow /\ NoRecordWithoutFlow /\ NoOrphanJob)
<1>1. Init => Inv /\ Settled(c)  BY InvInit, SettledInit
<1>2. Inv /\ Settled(c) /\ [Next]_vars => (Inv /\ Settled(c))'
  BY InvStep, SettledStep
<1>3. Inv /\ Settled(c) => OneRecord /\ RecordOfFlow /\ NoRecordWithoutFlow /\ NoOrphanJob
  BY SettledGives
<1> QED  BY <1>1, <1>2, <1>3, PTL DEF Spec

(* While requests come one after the other, a flow has one record:         *)
(* createOrUpdateSchedule finds the one that is there, and saves that one. *)
THEOREM OneRecordPerFlow ==
  ASSUME NEW CONSTANT c, Clients = {c}, ~ Interrupts, NoExpiry
  PROVE  Spec => []OneRecord
<1>1. Spec => [](OneRecord /\ RecordOfFlow /\ NoRecordWithoutFlow /\ NoOrphanJob)
  BY AlwaysSettled
<1> QED  BY <1>1, PTL

(* Then the record says what the flow saved last says, whatever the jobs   *)
(* that fire in between read and write.                                    *)
THEOREM RecordFollowsFlow ==
  ASSUME NEW CONSTANT c, Clients = {c}, ~ Interrupts, NoExpiry
  PROVE  Spec => []RecordOfFlow
<1>1. Spec => [](OneRecord /\ RecordOfFlow /\ NoRecordWithoutFlow /\ NoOrphanJob)
  BY AlwaysSettled
<1> QED  BY <1>1, PTL

(* Then a flow that was deleted, or is no schedule any more, loses its     *)
(* record, and no job that fired brings it back.                           *)
THEOREM RecordGoesWithFlow ==
  ASSUME NEW CONSTANT c, Clients = {c}, ~ Interrupts, NoExpiry
  PROVE  Spec => []NoRecordWithoutFlow
<1>1. Spec => [](OneRecord /\ RecordOfFlow /\ NoRecordWithoutFlow /\ NoOrphanJob)
  BY AlwaysSettled
<1> QED  BY <1>1, PTL

(* Then every job is that of a schedule that is on and fires when it says, *)
(* also after a restart has registered the jobs anew.                      *)
THEOREM JobsFollowRecords ==
  ASSUME NEW CONSTANT c, Clients = {c}, ~ Interrupts, NoExpiry
  PROVE  Spec => []NoOrphanJob
<1>1. Spec => [](OneRecord /\ RecordOfFlow /\ NoRecordWithoutFlow /\ NoOrphanJob)
  BY AlwaysSettled
<1> QED  BY <1>1, PTL
===========================================================================
