----------------------------- MODULE CronService -----------------------------
(***************************************************************************)
(* The job scheduler of pkg/cron/service.go, as the gateway runs it:       *)
(*                                                                         *)
(*   - one run loop that collects the due jobs under the service's lock    *)
(*     and executes them one after the other outside it;                   *)
(*   - tool calls (AddJob, RemoveJob, EnableJob) that other goroutines     *)
(*     make at any moment, also while a job's handler runs;                *)
(*   - a store file that every operation rewrites with os.WriteFile, which *)
(*     truncates first: a failed or interrupted write leaves the old file, *)
(*     or one that does not parse (Torn);                                  *)
(*   - Stop, exit, crash at any point, and the next process's boot.        *)
(*                                                                         *)
(* Each section that holds cs.mu is one action.  Time is counted in whole  *)
(* units; the clock never goes back.  A job's LastRunAtMS, LastStatus,     *)
(* LastError and UpdatedAtMS are written by no guard and read by none, so  *)
(* they are left out.                                                      *)
(***************************************************************************)
EXTENDS Naturals, FiniteSets

CONSTANTS
    MaxJobs,            \* bound: jobs ever created
    MaxTime,            \* bound: the clock stops there
    MaxFaults,          \* bound: crashes, failed writes and failed reads
    Periods,            \* EveryMS values of "every" schedules, 0 included
    MinDelay,           \* least at_seconds a caller of the cron tool passes
    CronExprs,          \* cron expressions
    NextTick(_, _),     \* gronx.NextTickAfter(expr, now); 0 stands for its error
    Torn                \* the content of a store file that does not parse

JobIds == 1 .. MaxJobs
Instants == 1 .. MaxTime

(* A *int64 that is nil.  Instants start at 1. *)
Nil == 0

ASSUME BoundsAssumption ==
    /\ MaxJobs \in Nat
    /\ MaxTime \in Nat \ {0}
    /\ MaxFaults \in Nat
    /\ Periods \subseteq Nat
    /\ MinDelay \in Nat

(* What the service relies on gronx for: an expression is either never    *)
(* accepted, or its next tick is strictly later and monotone in the clock. *)
ASSUME NextTickAssumption ==
    \A e \in CronExprs :
        /\ \A t \in Instants : NextTick(e, t) \in Nat
        /\ \/ \A t \in Instants : NextTick(e, t) = Nil
           \/ /\ \A t \in Instants : NextTick(e, t) > t
              /\ \A s, t \in Instants : s <= t => NextTick(e, s) <= NextTick(e, t)

-----------------------------------------------------------------------------
(* The data. *)

Schedules ==
    [kind : {"at"}, arg : Nat]
        \cup [kind : {"every"}, arg : Nat]
        \cup [kind : {"cron"}, arg : CronExprs]

JobStates == [enabled : BOOLEAN, next : Nat]

(* CronStore.Jobs.  Jobs are only ever appended and identifiers are fresh, *)
(* so the order of the list is the order of the identifiers.               *)
IsStore(s) == DOMAIN s \subseteq JobIds /\ s \in [DOMAIN s -> JobStates]

EmptyStore == [i \in {} |-> [enabled |-> FALSE, next |-> Nil]]

ASSUME TornAssumption == \A S \in SUBSET JobIds : Torn \notin [S -> JobStates]

VARIABLES
    now,        \* the wall clock
    up,         \* a gateway process exists
    running,    \* cs.running
    loop,       \* the runLoop goroutine: "off", "idle" (in select) or "exec"
    jobs,       \* cs.store.Jobs, without the fields that never change
    sched,      \* Schedule of each job, fixed when the job is created
    created,    \* number of identifiers generated so far
    disk,       \* the content of jobs.json
    due,        \* the copies in dueJobs that checkJobs has not executed yet
    cur,        \* the job whose handler runs now, or Nil
    faults,     \* crashes, failed writes and failed reads so far
    lastStart,  \* history: when the handler last started for a job, or Nil
    acked       \* history: jobs a caller was told are stored, still wanted

vars == <<now, up, running, loop, jobs, sched, created, disk, due, cur, faults,
          lastStart, acked>>

-----------------------------------------------------------------------------
(* Mutant: a one-shot whose instant is now counts as still to come. *)
ComputeNextRunInclusive(s, t) ==
    CASE s.kind = "at"    -> IF s.arg >= t THEN s.arg ELSE Nil
      [] s.kind = "every" -> IF s.arg > 0 THEN t + s.arg ELSE Nil
      [] s.kind = "cron"  -> NextTick(s.arg, t)

(* computeNextRun: nil for a one-shot whose time has come, for a period    *)
(* that is not positive and for an expression gronx rejects.               *)
ComputeNextRun(s, t) ==
    CASE s.kind = "at"    -> IF s.arg > t THEN s.arg ELSE Nil
      [] s.kind = "every" -> IF s.arg > 0 THEN t + s.arg ELSE Nil
      [] s.kind = "cron"  -> NextTick(s.arg, t)

(* The jobs checkJobs collects. *)
DueJobs ==
    {i \in DOMAIN jobs : jobs[i].enabled /\ jobs[i].next # Nil /\ jobs[i].next <= now}

(* removeJobUnsafe: the list without the job. *)
Without(store, id) == [i \in DOMAIN store \ {id} |-> store[i]]

(* The list with one job more. *)
Appended(store, id, job) ==
    [i \in DOMAIN store \cup {id} |-> IF i = id THEN job ELSE store[i]]

(* recomputeNextRuns: only enabled jobs are re-armed. *)
Recomputed(store) ==
    [i \in DOMAIN store |->
        IF store[i].enabled
        THEN [store[i] EXCEPT !.next = ComputeNextRun(sched[i], now)]
        ELSE store[i]]

(* Mutant: the list is marshalled before the change is made to it. *)
SavedStale(store) == disk' = jobs /\ UNCHANGED faults

(* saveStoreUnsafe succeeds. *)
Saved(store) == disk' = store /\ UNCHANGED faults

(* saveStoreUnsafe returns an error: os.WriteFile failed before or after   *)
(* it truncated the file.                                                  *)
SaveFailed ==
    /\ faults < MaxFaults
    /\ faults' = faults + 1
    /\ disk' \in {disk, Torn}

(* A save whose error is only logged. *)
SaveLogged(store) == Saved(store) \/ SaveFailed

-----------------------------------------------------------------------------
Init ==
    /\ now = 1
    /\ up = FALSE
    /\ running = FALSE
    /\ loop = "off"
    /\ jobs = EmptyStore
    /\ sched = [i \in JobIds |-> [kind |-> "at", arg |-> Nil]]
    /\ created = 0
    /\ disk = EmptyStore
    /\ due = {}
    /\ cur = Nil
    /\ faults = 0
    /\ lastStart = [i \in JobIds |-> Nil]
    /\ acked = {}

Tick ==
    /\ now < MaxTime
    /\ now' = now + 1
    /\ UNCHANGED <<up, running, loop, jobs, sched, created, disk, due, cur,
                   faults, lastStart, acked>>

(* The file does not parse, or the read fails on an intact one. *)
LoadFails ==
    \/ disk = Torn /\ UNCHANGED faults
    \/ disk # Torn /\ faults < MaxFaults /\ faults' = faults + 1

(* Mutant: Start ignores the error of loadStore. *)
BootIgnoringError ==
    /\ ~up
    /\ LoadFails
    /\ up' = TRUE
    /\ jobs' = EmptyStore
    /\ disk' = EmptyStore
    /\ running' = TRUE /\ loop' = "idle"
    /\ acked' = {}
    /\ UNCHANGED <<now, sched, created, due, cur, lastStart>>

(* Start's loadStore fails: the store stays the fresh empty one, the       *)
(* gateway reports the error and goes on without a run loop.               *)
BootUnreadable ==
    /\ ~up
    /\ LoadFails
    /\ up' = TRUE
    /\ jobs' = EmptyStore
    /\ acked' = {}
    /\ UNCHANGED <<now, running, loop, sched, created, disk, due, cur, lastStart>>

(* Mutant: Start trusts the next runs it finds in the file. *)
BootWithoutRecompute ==
    /\ ~up
    /\ disk # Torn
    /\ up' = TRUE
    /\ jobs' = disk
    /\ \/ Saved(disk) /\ running' = TRUE /\ loop' = "idle"
       \/ SaveFailed /\ UNCHANGED <<running, loop>>
    /\ UNCHANGED <<now, sched, created, due, cur, lastStart, acked>>

(* NewCronService and Start with a file that parses. *)
Boot ==
    /\ ~up
    /\ disk # Torn
    /\ up' = TRUE
    /\ jobs' = Recomputed(disk)
    /\ \/ Saved(Recomputed(disk)) /\ running' = TRUE /\ loop' = "idle"
       \/ SaveFailed /\ UNCHANGED <<running, loop>>
    /\ UNCHANGED <<now, sched, created, due, cur, lastStart, acked>>

(* Stop: the run loop sees the closed channel only when it selects again. *)
Stop ==
    /\ running
    /\ running' = FALSE
    /\ UNCHANGED <<now, up, loop, jobs, sched, created, disk, due, cur, faults,
                   lastStart, acked>>

LoopExit ==
    /\ loop = "idle"
    /\ ~running
    /\ loop' = "off"
    /\ UNCHANGED <<now, up, running, jobs, sched, created, disk, due, cur, faults,
                   lastStart, acked>>

(* What a process leaves behind when it ends, whatever it was doing. *)
ProcessGone ==
    /\ up' = FALSE
    /\ running' = FALSE
    /\ loop' = "off"
    /\ jobs' = EmptyStore
    /\ due' = {}
    /\ cur' = Nil
    /\ UNCHANGED <<now, sched, created, lastStart, acked>>

(* gatewayCmd returns after Stop; a job that is still executing is cut off. *)
Exit ==
    /\ up
    /\ ~running
    /\ ProcessGone
    /\ UNCHANGED <<disk, faults>>

(* The process is killed, possibly in the middle of a write. *)
Crash ==
    /\ up
    /\ faults < MaxFaults
    /\ faults' = faults + 1
    /\ ProcessGone
    /\ disk' \in {disk, Torn}

-----------------------------------------------------------------------------
(* The run loop. *)

(* Mutant: the store is saved only when something was due. *)
CheckJobsSavingOnlyWork ==
    /\ loop = "idle"
    /\ running
    /\ due' = DueJobs
    /\ jobs' = [i \in DOMAIN jobs |->
                   IF i \in DueJobs THEN [jobs[i] EXCEPT !.next = Nil] ELSE jobs[i]]
    /\ IF DueJobs = {} THEN UNCHANGED <<disk, faults>> ELSE SaveLogged(jobs')
    /\ loop' = IF DueJobs = {} THEN "idle" ELSE "exec"
    /\ UNCHANGED <<now, up, running, sched, created, cur, lastStart, acked>>

(* checkJobs up to its unlock: every tick saves, also when nothing is due. *)
CheckJobs ==
    /\ loop = "idle"
    /\ running
    /\ due' = DueJobs
    /\ jobs' = [i \in DOMAIN jobs |->
                   IF i \in DueJobs THEN [jobs[i] EXCEPT !.next = Nil] ELSE jobs[i]]
    /\ SaveLogged(jobs')
    /\ loop' = IF DueJobs = {} THEN "idle" ELSE "exec"
    /\ UNCHANGED <<now, up, running, sched, created, cur, lastStart, acked>>

(* executeJob calls the handler on the next copy, in list order. *)
BeginJob ==
    /\ loop = "exec"
    /\ cur = Nil
    /\ cur' \in due
    /\ \A i \in due : cur' <= i
    /\ due' = due \ {cur'}
    /\ lastStart' = [lastStart EXCEPT ![cur'] = now]
    /\ UNCHANGED <<now, up, running, loop, jobs, sched, created, disk, faults, acked>>

(* Mutant: a next run that an enable call set meanwhile is kept. *)
ExecutedKeepingNext(store, id) ==
    IF id \notin DOMAIN store THEN store
    ELSE IF sched[id].kind = "at" THEN Without(store, id)
    ELSE IF store[id].next # Nil THEN store
    ELSE [store EXCEPT ![id].next = ComputeNextRun(sched[id], now)]

(* What executeJob leaves in the list for a job that still exists. *)
Executed(store, id) ==
    IF id \notin DOMAIN store THEN store
    ELSE IF sched[id].kind = "at" THEN Without(store, id)  \* DeleteAfterRun: AddJob sets it
    ELSE [store EXCEPT ![id].next = ComputeNextRun(sched[id], now)]

(* Mutants: the loop goes back to its ticker after one job of the batch, *)
(* with the rest forgotten or still in hand.                             *)
FinishJobAbandonsBatch ==
    /\ loop = "exec"
    /\ cur # Nil
    /\ jobs' = Executed(jobs, cur)
    /\ acked' = IF sched[cur].kind = "at" THEN acked \ {cur} ELSE acked
    /\ SaveLogged(jobs')
    /\ cur' = Nil
    /\ due' = {}
    /\ loop' = "idle"
    /\ UNCHANGED <<now, up, running, sched, created, lastStart>>

FinishJobKeepsBatch ==
    /\ loop = "exec"
    /\ cur # Nil
    /\ jobs' = Executed(jobs, cur)
    /\ acked' = IF sched[cur].kind = "at" THEN acked \ {cur} ELSE acked
    /\ SaveLogged(jobs')
    /\ cur' = Nil
    /\ loop' = "idle"
    /\ UNCHANGED <<now, up, running, sched, created, due, lastStart>>

(* The handler has returned; executeJob updates the job if it still exists. *)
FinishJob ==
    /\ loop = "exec"
    /\ cur # Nil
    /\ jobs' = Executed(jobs, cur)
    /\ acked' = IF sched[cur].kind = "at" THEN acked \ {cur} ELSE acked
    /\ SaveLogged(jobs')
    /\ cur' = Nil
    /\ loop' = IF due = {} THEN "idle" ELSE "exec"
    /\ UNCHANGED <<now, up, running, sched, created, due, lastStart>>

-----------------------------------------------------------------------------
(* Calls from other goroutines: the agent's turns and a job's own turn. *)

(* The schedules the cron tool builds: at_seconds and every_seconds may be *)
(* zero.  It does not refuse negative values either: to computeNextRun     *)
(* they are an at time of now and a period of zero, which are covered.     *)
NewSchedules ==
    [kind : {"at"}, arg : (now + MinDelay) .. MaxTime]
        \cup [kind : {"every"}, arg : Periods]
        \cup [kind : {"cron"}, arg : CronExprs]

AddJob ==
    /\ up
    /\ created < MaxJobs
    /\ \E s \in NewSchedules :
         LET id  == created + 1
             job == [enabled |-> TRUE, next |-> ComputeNextRun(s, now)]
         IN  /\ created' = id
             /\ sched' = [sched EXCEPT ![id] = s]
             /\ jobs' = Appended(jobs, id, job)
             /\ \/ Saved(jobs') /\ acked' = acked \cup {id}
                \/ SaveFailed /\ UNCHANGED acked    \* the caller gets an error
    /\ UNCHANGED <<now, up, running, loop, due, cur, lastStart>>

RemoveJob ==
    /\ up
    /\ \E id \in DOMAIN jobs :
         /\ jobs' = Without(jobs, id)
         /\ acked' = acked \ {id}
         /\ SaveLogged(jobs')
    /\ UNCHANGED <<now, up, running, loop, sched, created, due, cur, lastStart>>

EnableJob ==
    /\ up
    /\ \E id \in DOMAIN jobs, enabled \in BOOLEAN :
         /\ jobs' = [jobs EXCEPT ![id] =
                        [enabled |-> enabled,
                         next |-> IF enabled THEN ComputeNextRun(sched[id], now)
                                  ELSE Nil]]
         /\ SaveLogged(jobs')
    /\ UNCHANGED <<now, up, running, loop, sched, created, due, cur, lastStart, acked>>

-----------------------------------------------------------------------------
Next ==
    \/ Tick
    \/ BootUnreadable \/ Boot \/ Stop \/ LoopExit \/ Exit \/ Crash
    \/ CheckJobs \/ BeginJob \/ FinishJob
    \/ AddJob \/ RemoveJob \/ EnableJob

Spec == Init /\ [][Next]_vars

(* The ticker keeps firing and the loop keeps going.  That a handler       *)
(* returns is an assumption about the provider and the outbound queue: the *)
(* HTTP client has no timeout.                                             *)
Fairness ==
    /\ WF_vars(CheckJobs)
    /\ WF_vars(BeginJob)
    /\ WF_vars(FinishJob)

FairSpec == Spec /\ Fairness

-----------------------------------------------------------------------------
(* Properties. *)

(* The variables keep the shape the code gives them; in particular the     *)
(* loop never goes back to its ticker with copies left to execute.         *)
TypeOK ==
    /\ now \in Instants
    /\ up \in BOOLEAN
    /\ running \in BOOLEAN
    /\ loop \in {"off", "idle", "exec"}
    /\ IsStore(jobs)
    /\ sched \in [JobIds -> Schedules]
    /\ created \in 0 .. MaxJobs
    /\ disk = Torn \/ IsStore(disk)
    /\ due \subseteq JobIds
    /\ cur \in JobIds \cup {Nil}
    /\ faults \in 0 .. MaxFaults
    /\ lastStart \in [JobIds -> Instants \cup {Nil}]
    /\ acked \subseteq JobIds
    /\ running => up /\ loop # "off"
    /\ loop # "off" => up
    /\ due # {} \/ cur # Nil => loop = "exec"

(* The handler is being called for job id. *)
Starts(id) == cur = Nil /\ cur' = id

Recurring(s) == s.kind # "at"

(* A schedule computeNextRun accepts. *)
Valid(s) == ComputeNextRun(s, now) # Nil

(* checkJobs clears NextRunAtMS of what it collects and executeJob sets it *)
(* again: no other order of calls, failures, crashes and restarts leaves   *)
(* an enabled recurring job with a usable schedule without a next run, so  *)
(* a job never silently drops out of the schedule.                         *)
RecurringStaysArmed ==
    up => \A id \in DOMAIN jobs :
            jobs[id].enabled /\ Recurring(sched[id]) /\ Valid(sched[id])
                => jobs[id].next # Nil \/ id \in due \/ id = cur

(* A one-shot reminder is handed to the handler at most once in its life,  *)
(* never before its instant: not again after a crash between the run and   *)
(* the save that deletes it, not after a restart that reads an older file, *)
(* and not because someone disables and enables it while it runs.          *)
OneShotRunsOnce ==
    [][\A id \in JobIds :
          Starts(id) /\ ~Recurring(sched[id])
              => lastStart[id] = Nil /\ now >= sched[id].arg]_vars

(* Two runs of a recurring job are at least one period (one cron tick)     *)
(* apart, also when enable calls, slow handlers or a restart fall between  *)
(* them: executeJob and recomputeNextRuns count from their own clock.      *)
RecurringRunsSpaced ==
    [][\A id \in JobIds :
          Starts(id) /\ Recurring(sched[id]) /\ lastStart[id] # Nil
              => now >= ComputeNextRun(sched[id], lastStart[id])]_vars

(* A job AddJob reported as stored and nobody removed is in the service's  *)
(* list and in every readable file, whatever saves fail and whenever the   *)
(* process dies: only a boot that cannot read the file loses jobs.         *)
AckedJobsSurvive ==
    \A id \in acked :
        /\ up => id \in DOMAIN jobs
        /\ disk # Torn => id \in DOMAIN disk

(* A list that could not be read is not replaced by the empty one that     *)
(* stands for it in memory (service.go:89-91, 293-307): without a run loop *)
(* nothing saves until a job is added, so that the file can still be       *)
(* repaired, or read by the next process.                                  *)
UnreadListKept ==
    [][~running /\ loop = "off" /\ DOMAIN jobs = {} /\ DOMAIN jobs' = {}
         => disk' \in {disk, Torn}]_vars

(* A save whose error was only logged is made good by a later one while    *)
(* the service runs, because checkJobs saves on every tick.                *)
FailedSavesHeal ==
    (running /\ disk # jobs) ~> (disk = jobs \/ ~running)

(* A due job of a running service is collected unless a call takes it out  *)
(* of the due set first, and what is collected is handed to the handler: a *)
(* batch of slow jobs only delays it, and neither Remove, Disable nor Stop *)
(* calls it back.                                                          *)
DueJobsAreServed ==
    \A id \in JobIds :
        /\ running /\ id \in DueJobs ~> id \in due \/ ~running \/ id \notin DueJobs
        /\ id \in due ~> cur = id \/ ~up

(* What the cron tool's description (tools/cron.go:64) says of at_seconds: *)
(* "One-time reminder: seconds from now when to trigger".  So an enabled   *)
(* reminder that has not been triggered still has its next run, unless the *)
(* loop has just collected it.                                             *)
RemindersStayArmed ==
    running =>
        \A id \in DOMAIN jobs :
            jobs[id].enabled /\ ~Recurring(sched[id]) /\ lastStart[id] = Nil
                => jobs[id].next # Nil \/ id \in due

=============================================================================
