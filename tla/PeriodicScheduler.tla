------------------------- MODULE PeriodicScheduler -------------------------
(***************************************************************************)
(* Periodic builds: the scheduler loop of cbsd-server                      *)
(* (scheduler/mod.rs, scheduler/trigger.rs) against the requests that edit *)
(* the task table (routes/periodic.rs, db/periodic.rs).                    *)
(*                                                                         *)
(* One action is one SQL statement, or one wake-up of the loop.  Time is a *)
(* cyclic clock whose tick is the base retry delay; a cron expression is   *)
(* the set of ticks of the day at which it occurs, and a pending retry is  *)
(* a count of ticks.  Submission itself is SubmitInsert .. SubmitEnqueue   *)
(* of BuildServer; here it succeeds or fails.                              *)
(***************************************************************************)
EXTENDS Integers, FiniteSets

CONSTANTS
    MaxTasks,    \* task ids are 1 .. MaxTasks, in the order of the id column
    Handlers,    \* requests in flight
    Crons,       \* cron expressions
    Occurs,      \* the ticks of the day at which each expression occurs
    FormatOf,    \* the tag format of a task with that expression
    Day,         \* ticks in a day
    MaxRetry,    \* MAX_RETRY_COUNT
    MaxEdits,    \* bound: requests and changes of the world
    MaxFaults,   \* bound: statements that fail
    Prompt,      \* no tick passes while the loop is busy
    None

Tasks == 1 .. MaxTasks

ASSUME ClockAssumption ==
    /\ Day \in Nat \ {0}
    /\ Occurs \in [Crons -> SUBSET (0 .. Day - 1)]

\* What the braces of a tag format hold: nothing, a name of a date or of a
\* field of the descriptor, or another name; or they are not closed.
Placeholders == {"none", "empty", "date", "field", "unknown", "unclosed"}

ASSUME FormatAssumption == FormatOf \in [Crons -> Placeholders]

ASSUME BoundsAssumption ==
    MaxTasks \in Nat /\ MaxRetry \in Nat \ {0} /\ MaxEdits \in Nat /\ MaxFaults \in Nat

ASSUME NoneAssumption == None \notin Nat /\ Prompt \in BOOLEAN

VARIABLES
    now,      \* tick of the day
    task,     \* periodic_tasks
    owner,    \* the account that created the tasks
    target,   \* what resolving the descriptor meets: the channel tables
    permit,   \* scheduler_notify holds a permit
    sched,    \* the loop: where it is, the task it sleeps for, the row it re-read
    handler,  \* requests
    edits, faults

periodic == << now, task, owner, target, permit, sched, handler, edits, faults >>

(***************************************************************************)
(* Rows and time.                                                          *)
(***************************************************************************)
NoRow == [st |-> "none", on |-> FALSE, cron |-> None, retry |-> None, count |-> 0]
FreshRow(c) == [NoRow EXCEPT !.st = "there", !.on = TRUE, !.cron = c]

\* get_task finds a row.
There(t) == task[t].st = "there"

\* list_enabled_tasks
ListEnabledTasks == {t \in Tasks : task[t].on}

\* 30 s * 1.5^count, at most 600 s, in ticks of 30 s: how many of the twenty fit.
Backoff(count) == Cardinality({n \in 1 .. 20 : n * 2 ^ count <= 3 ^ count})

\* How far ahead a retry or an occurrence can lie.
Delays == 0 .. Day + 20

\* The tick of the day d ticks from now.
Ahead(d) == IF now + d >= Day THEN now + d - Day ELSE now + d

\* Cron::find_next_occurrence, exclusive of now: d ticks from now.
NextOccurrence(c, d) ==
    /\ d \in 1 .. Day
    /\ Ahead(d) \in Occurs[c]
    /\ \A e \in 1 .. d - 1 : Ahead(e) \notin Occurs[c]

\* Task t is due in d ticks: its retry when one is pending, else its next
\* cron occurrence.
DueIn(t, d) ==
    /\ t \in ListEnabledTasks
    /\ IF task[t].retry # None THEN d = task[t].retry
                               ELSE NextOccurrence(task[t].cron, d)

\* (d, t) is the first entry of the schedule sorted by time and id.
First(t, d) ==
    /\ DueIn(t, d)
    /\ \A u \in Tasks, e \in Delays :
         DueIn(u, e) => d < e \/ (d = e /\ t <= u)

Loop(pc) == [pc |-> pc, t |-> 0, left |-> 0, row |-> NoRow, err |-> "none"]
Waiting == sched.pc \in {"idle", "sleep"}
NoEdit == [pc |-> "free", op |-> "none", t |-> 0, cron |-> None]

PeriodicInit ==
    /\ now = 0
    /\ task = [t \in Tasks |-> NoRow]
    /\ owner = "ok"
    /\ target = "ok"
    /\ permit = FALSE
    /\ sched = Loop("load")
    /\ handler = [s \in Handlers |-> NoEdit]
    /\ edits = 0
    /\ faults = 0

\* A statement succeeds, or fails while the bound allows.
Outcomes == IF faults < MaxFaults THEN BOOLEAN ELSE {TRUE}
Fault(ok) == faults' = IF ok THEN faults ELSE faults + 1
Edit == edits < MaxEdits /\ edits' = edits + 1

(***************************************************************************)
(* The loop: run_scheduler.                                                *)
(***************************************************************************)
\* Steps 1 to 4: load the enabled tasks, compute and sort the schedule.  After
\* a failed load the loop sleeps and loads again.
Load ==
    /\ sched.pc = "load"
    /\ \E ok \in Outcomes :
         /\ Fault(ok)
         /\ \/ /\ ~ok
               /\ sched' = sched
            \/ /\ ok
               /\ \A t \in Tasks, d \in Delays : ~DueIn(t, d)
               /\ sched' = Loop("planned")
            \/ /\ ok
               /\ \E t \in Tasks, d \in Delays :
                    /\ First(t, d)
                    /\ sched' = [Loop("planned") EXCEPT !.t = t, !.left = d]
    /\ UNCHANGED << now, task, owner, target, permit, handler, edits >>

\* Steps 5 and 6: sleep until the first entry, or wait for a notification when
\* the schedule is empty.
Await ==
    /\ sched.pc = "planned"
    /\ sched' = [sched EXCEPT !.pc = IF sched.t = 0 THEN "idle" ELSE "sleep"]
    /\ UNCHANGED << now, task, owner, target, permit, handler, edits, faults >>

\* notified(): the wait ends, in both selects, and the permit is consumed.
Notified ==
    /\ Waiting
    /\ permit
    /\ permit' = FALSE
    /\ sched' = Loop("load")
    /\ UNCHANGED << now, task, owner, target, handler, edits, faults >>

\* Mutant: both arms of the select reload.
FireTimeReloads ==
    /\ sched.pc = "sleep"
    /\ sched.left = 0
    /\ sched' = Loop("load")
    /\ UNCHANGED << now, task, owner, target, permit, handler, edits, faults >>

\* The sleep ends.
FireTime ==
    /\ sched.pc = "sleep"
    /\ sched.left = 0
    /\ sched' = [sched EXCEPT !.pc = "fetch"]
    /\ UNCHANGED << now, task, owner, target, permit, handler, edits, faults >>

\* Step 7: read the task again; it may be disabled or gone by now.
Fetch ==
    /\ sched.pc = "fetch"
    /\ \E ok \in Outcomes :
         /\ Fault(ok)
         /\ sched' = IF ok /\ task[sched.t].on
                     THEN [sched EXCEPT !.pc = "owner", !.row = task[sched.t]]
                     ELSE Loop("load")
    /\ UNCHANGED << now, task, owner, target, permit, handler, edits >>

Fail(err) == [sched EXCEPT !.pc = "record", !.err = err]

\* is_user_active, of the owner.
IsUserActive == owner # "inactive"

\* trigger_periodic_build, step 1: the owner is active.
CheckOwner ==
    /\ sched.pc = "owner"
    /\ \E ok \in Outcomes :
         /\ Fault(ok)
         /\ sched' = IF ~ok THEN Fail("transient")
                     ELSE IF ~IsUserActive THEN Fail("owner")
                     ELSE [sched EXCEPT !.pc = "caps"]
    /\ UNCHANGED << now, task, owner, target, permit, handler, edits >>

\* caps_satisfy_trigger_requirements, of the capabilities the owner has now.
CapsSatisfyTriggerRequirements == owner # "no_caps"

\* Step 3, which reads no table: the stored descriptor parses and names known
\* components.
ValidDescriptor == target # "bad_descriptor"

\* validate_tag_format, on a request: a name must be known; braces without a
\* name, or not closed, pass.
ValidateTagFormat(f) == f # "unknown"

\* resolve_placeholder: a date is made of digits, a field holds any text.
ResolvePlaceholder(f) ==
    CASE f = "date"  -> {"oci"}
      [] f = "field" -> {"oci", "other"}
      [] OTHER       -> {}

\* interpolate_tag: what has no value stays, braces included.
InterpolateTag(f) ==
    IF f = "none" THEN {"oci"}
    ELSE IF ResolvePlaceholder(f) = {} THEN {"other"} ELSE ResolvePlaceholder(f)

\* validate_oci_tag: letters, digits, _ . and -, and no braces.
ValidateOciTag(tag) == tag = "oci"

\* Step 2: the owner's row and capabilities; then the descriptor and the tag.
CheckCaps ==
    /\ sched.pc = "caps"
    /\ \E ok \in Outcomes, tag \in InterpolateTag(FormatOf[sched.row.cron]) :
         /\ Fault(ok)
         /\ sched' = IF ~ok THEN Fail("transient")
                     ELSE IF ~CapsSatisfyTriggerRequirements THEN Fail("owner")
                     ELSE IF ~ValidDescriptor \/ ~ValidateOciTag(tag) THEN Fail("fatal")
                     ELSE [sched EXCEPT !.pc = "resolve"]
    /\ UNCHANGED << now, task, owner, target, permit, handler, edits >>

\* classify_resolution_error: by the wording of the message.  "default channel
\* no longer exists" and "default type no longer exists" match no pattern.
Classify(msg) ==
    IF msg \in {"insufficient scope", "not found", "not configured", "no default"}
    THEN "fatal" ELSE "transient"

\* Step 8: resolve_and_rewrite.
Resolve ==
    /\ sched.pc = "resolve"
    /\ \E ok \in Outcomes :
         /\ Fault(ok)
         /\ sched' = IF ~ok THEN Fail(Classify("failed to"))
                     ELSE IF target # "ok" THEN Fail(Classify(target))
                     ELSE [sched EXCEPT !.pc = "submit"]
    /\ UNCHANGED << now, task, owner, target, permit, handler, edits >>

\* Step 10: insert_build_internal; the new row refers to the task, and the
\* INSERT fails when the task is gone.
Submit ==
    /\ sched.pc = "submit"
    /\ \E ok \in Outcomes :
         /\ Fault(ok)
         /\ sched' = IF ok /\ There(sched.t) THEN [sched EXCEPT !.pc = "record"]
                     ELSE Fail("transient")
    /\ UNCHANGED << now, task, owner, target, permit, handler, edits >>

(***************************************************************************)
(* The statements of db/periodic.rs that change a row.                     *)
(***************************************************************************)
UpdateTriggerSuccess(row) == [row EXCEPT !.retry = None, !.count = 0]
DisableWithError(row) == [row EXCEPT !.on = FALSE, !.retry = None]
UpdateRetry(row, count, delay) == [row EXCEPT !.retry = delay, !.count = count]
EnableRow(row) == [row EXCEPT !.on = TRUE, !.retry = None, !.count = 0]
DisableRow(row) == [row EXCEPT !.on = FALSE, !.retry = None]
DeletedRow == [NoRow EXCEPT !.st = "deleted"]

\* The UPDATE of update_task: the definition, and the retry state cleared.
UpdateRow(row, c) == [row EXCEPT !.cron = c, !.retry = None, !.count = 0]

\* Mutant: a task is only disabled once it is past the limit.
RetriedPastLimit(row) ==
    LET count == sched.row.count + 1 IN
    IF count > MaxRetry THEN DisableWithError(row)
    ELSE UpdateRetry(row, count, Backoff(sched.row.count))

\* Mutant: the retry is not counted.
RetriedUncounted(row) ==
    IF sched.row.count + 1 >= MaxRetry THEN DisableWithError(row)
    ELSE UpdateRetry(row, sched.row.count, Backoff(sched.row.count))

\* Step 12, a transient error: retry after the backoff, or give up.  The new
\* count comes from the row as re-read in step 7.
Retried(row) ==
    LET count == sched.row.count + 1 IN
    IF count >= MaxRetry THEN DisableWithError(row)
    ELSE UpdateRetry(row, count, Backoff(sched.row.count))

Recorded(row) ==
    CASE sched.err = "none"               -> UpdateTriggerSuccess(row)
      [] sched.err \in {"owner", "fatal"} -> DisableWithError(row)
      [] sched.err = "transient"          -> Retried(row)

\* Steps 9 to 12: write the outcome back, where the row still exists; a
\* failing statement is only logged.
Record ==
    /\ sched.pc = "record"
    /\ \E ok \in Outcomes :
         /\ Fault(ok)
         /\ task' = IF ok /\ There(sched.t)
                    THEN [task EXCEPT ![sched.t] = Recorded(task[sched.t])] ELSE task
    /\ sched' = Loop("load")
    /\ UNCHANGED << now, owner, target, permit, handler, edits >>

(***************************************************************************)
(* Requests: routes/periodic.rs.  Permission checks read no table; a       *)
(* request that fails them ends without an effect.                         *)
(***************************************************************************)
\* create_task: the INSERT, under a random id.
CreateTask(s, t, c) ==
    /\ handler[s] = NoEdit
    /\ ValidateTagFormat(FormatOf[c])
    /\ task[t].st = "none"
    /\ Edit
    /\ task' = [task EXCEPT ![t] = FreshRow(c)]
    /\ handler' = [handler EXCEPT ![s] = [NoEdit EXCEPT !.pc = "notify", !.t = t]]
    /\ UNCHANGED << now, owner, target, permit, sched, faults >>

\* A request reads the row of task t, to check who may manage it, and goes on
\* with op.
ReadTask(s, t, op, c) ==
    /\ handler[s] = NoEdit
    /\ There(t)
    /\ Edit
    /\ handler' = [handler EXCEPT ![s] = [pc |-> "write", op |-> op, t |-> t, cron |-> c]]
    /\ UNCHANGED << now, task, owner, target, permit, sched, faults >>

\* update_task keeps the columns it read, or carries new ones: the expression
\* written is the one read here unless the body has another.
UpdateTask(s, t) ==
    \E c \in Crons : ValidateTagFormat(FormatOf[c]) /\ ReadTask(s, t, "update", c)
EnableTask(s, t) == ReadTask(s, t, "enable", None)
DisableTask(s, t) == ReadTask(s, t, "disable", None)
DeleteTask(s, t) == ReadTask(s, t, "delete", None)

\* The statement of a request, which leaves row; a row that is gone meanwhile is a
\* 404 and notifies nobody.
Overwrite(s, row) ==
    /\ handler[s].pc = "write"
    /\ IF There(handler[s].t)
       THEN /\ task' = [task EXCEPT ![handler[s].t] = row]
            /\ handler' = [handler EXCEPT ![s].pc = "notify"]
       ELSE /\ task' = task
            /\ handler' = [handler EXCEPT ![s] = NoEdit]
    /\ UNCHANGED << now, owner, target, permit, sched, edits, faults >>

Enabled(s) == handler[s].op = "enable" /\ Overwrite(s, EnableRow(task[handler[s].t]))
Disabled(s) == handler[s].op = "disable" /\ Overwrite(s, DisableRow(task[handler[s].t]))
Deleted(s) == handler[s].op = "delete" /\ Overwrite(s, DeletedRow)

\* The UPDATE of update_task, which notifies whether or not it found the row.
Updated(s) ==
    /\ handler[s].pc = "write"
    /\ handler[s].op = "update"
    /\ task' = [t \in Tasks |-> IF t = handler[s].t /\ There(t)
                                THEN UpdateRow(task[t], handler[s].cron) ELSE task[t]]
    /\ handler' = [handler EXCEPT ![s].pc = "notify"]
    /\ UNCHANGED << now, owner, target, permit, sched, edits, faults >>

Statement(s) == Enabled(s) \/ Disabled(s) \/ Deleted(s) \/ Updated(s)

\* Mutant: notify_waiters, which only wakes a loop that is waiting already.
NotifyWaiters(s) ==
    /\ handler[s].pc = "notify"
    /\ permit' = Waiting
    /\ handler' = [handler EXCEPT ![s] = NoEdit]
    /\ UNCHANGED << now, task, owner, target, sched, edits, faults >>

\* scheduler_notify.notify_one(): one permit is kept for the next wait.
NotifyOne(s) ==
    /\ handler[s].pc = "notify"
    /\ permit' = TRUE
    /\ handler' = [handler EXCEPT ![s] = NoEdit]
    /\ UNCHANGED << now, task, owner, target, sched, edits, faults >>

(***************************************************************************)
(* The surroundings.                                                       *)
(***************************************************************************)
Owners == {"ok", "inactive", "no_caps"}
Targets == {"ok", "bad_descriptor", "not found", "no longer exists"}

\* The owner is (de)activated or gains or loses capabilities; channels and
\* types are created, renamed or deleted.
WorldChanges ==
    /\ Edit
    /\ owner' \in Owners
    /\ target' \in Targets
    /\ << owner', target' >> # << owner, target >>
    /\ UNCHANGED << now, task, permit, sched, handler, faults >>

Elapse(n) == IF n = None \/ n = 0 THEN n ELSE n - 1

Tick ==
    /\ Prompt => Waiting /\ ~permit /\ (sched.pc = "sleep" => sched.left > 0)
    /\ now' = Ahead(1)
    /\ task' = [t \in Tasks |-> [task[t] EXCEPT !.retry = Elapse(@)]]
    /\ sched' = [sched EXCEPT !.left = Elapse(@)]
    /\ UNCHANGED << owner, target, permit, handler, edits, faults >>

\* The server stops and starts again: only the table is kept.
Restart ==
    /\ Edit
    /\ permit' = FALSE
    /\ sched' = Loop("load")
    /\ handler' = [s \in Handlers |-> NoEdit]
    /\ UNCHANGED << now, task, owner, target, faults >>

LoopStep == Load \/ Await \/ Notified \/ FireTime \/ Fetch \/ CheckOwner \/ CheckCaps
          \/ Resolve \/ Submit \/ Record

Request(s) ==
    \/ \E t \in Tasks :
         \/ \E c \in Crons : CreateTask(s, t, c)
         \/ UpdateTask(s, t) \/ EnableTask(s, t) \/ DisableTask(s, t) \/ DeleteTask(s, t)
    \/ Statement(s)
    \/ NotifyOne(s)

PeriodicNext ==
    \/ LoopStep
    \/ \E s \in Handlers : Request(s)
    \/ WorldChanges
    \/ Tick
    \/ Restart

\* The runtime polls the loop and every request handler, and time passes.
Fairness ==
    /\ WF_periodic(LoopStep)
    /\ \A s \in Handlers : WF_periodic(Statement(s) \/ NotifyOne(s))
    /\ WF_periodic(Tick)

PeriodicSpec == PeriodicInit /\ [][PeriodicNext]_periodic
FairSpec == PeriodicSpec /\ Fairness

(***************************************************************************)
(* Properties.                                                             *)
(***************************************************************************)
Rows == [st : {"none", "there", "deleted"}, on : BOOLEAN, cron : Crons \union {None},
         retry : (0 .. 20) \union {None}, count : 0 .. MaxRetry - 1]

\* Every variable has its type; a retry is at most twenty ticks away, and no
\* row counts as many retries as disable it (MAX_RETRY_COUNT).
PeriodicTypeOK ==
    /\ now \in 0 .. Day - 1
    /\ task \in [Tasks -> Rows]
    /\ owner \in Owners
    /\ target \in Targets
    /\ permit \in BOOLEAN
    /\ sched \in [pc : {"load", "planned", "idle", "sleep", "fetch", "owner", "caps", "resolve",
                        "submit", "record"},
                  t : Tasks \union {0}, left : Delays, row : Rows,
                  err : {"none", "owner", "fatal", "transient"}]
    /\ handler \in [Handlers -> [pc : {"free", "write", "notify"},
                                 op : {"none", "update", "enable", "disable", "delete"},
                                 t : Tasks \union {0}, cron : Crons \union {None}]]
    /\ edits \in 0 .. MaxEdits
    /\ faults \in 0 .. MaxFaults

\* No lost wake-up: once the loop has its schedule, no enabled task comes due before the
\* loop wakes, unless a permit is waiting for it or a request that has written
\* the table is about to leave one.  (run_scheduler against the notify_one of
\* every handler, which may run between the load and the wait.)
NeverOversleeps ==
    Waiting \/ sched.pc = "planned" =>
        \/ permit
        \/ \E s \in Handlers : handler[s].pc = "notify"
        \/ \A t \in Tasks, d \in Delays :
             DueIn(t, d) => sched.t # 0 /\ sched.left <= d

Pending(t) == task[t].on /\ task[t].retry # None

\* A pending retry is carried out until it succeeds, or until the task is
\* disabled by the retry limit or by a request; two retrying tasks do not
\* starve each other.  (Steps 9 to 12 of run_scheduler.)
RetryServed == \A t \in Tasks : Pending(t) ~> ~Pending(t)

Fires(t) == sched.pc = "owner" /\ sched.t = t
Schedulable(t) == task[t].on /\ Occurs[task[t].cron] # {}

\* The only enabled task fires again and again, whatever failed before and
\* whichever requests came before.  (run_scheduler.)
LoneTaskFires ==
    \A t \in Tasks :
        <>[](Schedulable(t) /\ \A u \in Tasks \ {t} : ~task[u].on) => []<>Fires(t)

\* Every task that stays enabled fires again and again.  (Design 008: a queue
\* of all enabled tasks, from which the tasks of one tick are taken in the
\* order of their ids.)
EveryTaskFires == \A t \in Tasks : <>[]Schedulable(t) => []<>Fires(t)
=============================================================================
