-------------------------- MODULE CronServiceProofs --------------------------
(***************************************************************************)
(* Theorems about CronService for every value of its constants: type       *)
(* correctness, and that no job falls out of the schedule, is lost, runs   *)
(* twice, too soon or too late, under any interleaving of the loop with    *)
(* tool calls, failed writes, crashes and restarts; and the safety parts   *)
(* of DueJobsAreServed and FailedSavesHeal.                                *)
(***************************************************************************)
EXTENDS CronService, WellFoundedInduction, TLAPS

-----------------------------------------------------------------------------
(* Facts about computeNextRun. *)

(* computeNextRun returns nil or an instant. *)
LEMMA NextRunType ==
    ASSUME NEW s \in Schedules, NEW t \in Instants
    PROVE  ComputeNextRun(s, t) \in Nat
<1>1. CASE s.kind = "at"
  BY <1>1 DEF Schedules, ComputeNextRun, Nil
<1>2. CASE s.kind = "every"
  BY <1>2 DEF Schedules, ComputeNextRun, Nil, Instants
<1>3. CASE s.kind = "cron"
  <2>1. s.arg \in CronExprs
    BY <1>3 DEF Schedules
  <2> QED
    BY <1>3, <2>1, NextTickAssumption DEF ComputeNextRun
<1> QED
  BY <1>1, <1>2, <1>3 DEF Schedules

(* A next run is later than the instant it is computed at. *)
LEMMA NextRunLater ==
    ASSUME NEW s \in Schedules, NEW t \in Instants, ComputeNextRun(s, t) # Nil
    PROVE  ComputeNextRun(s, t) > t
<1>1. CASE s.kind = "at"
  BY <1>1 DEF Schedules, ComputeNextRun, Nil
<1>2. CASE s.kind = "every"
  BY <1>2 DEF Schedules, ComputeNextRun, Nil, Instants
<1>3. CASE s.kind = "cron"
  <2>1. s.arg \in CronExprs
    BY <1>3 DEF Schedules
  <2> QED
    BY <1>3, <2>1, NextTickAssumption DEF ComputeNextRun
<1> QED
  BY <1>1, <1>2, <1>3 DEF Schedules

(* The next run of a recurring schedule never moves back as time passes. *)
LEMMA NextRunMonotone ==
    ASSUME NEW s \in Schedules, Recurring(s),
           NEW t \in Instants, NEW u \in Instants, t <= u
    PROVE  ComputeNextRun(s, t) <= ComputeNextRun(s, u)
<1>1. CASE s.kind = "every"
  BY <1>1 DEF Schedules, ComputeNextRun, Nil, Instants
<1>2. CASE s.kind = "cron"
  <2>1. s.arg \in CronExprs
    BY <1>2 DEF Schedules
  <2> QED
    BY <1>2, <2>1, NextTickAssumption DEF ComputeNextRun, Nil, Instants
<1> QED
  BY <1>1, <1>2 DEF Schedules, Recurring

(* Whether a recurring schedule is usable does not depend on the instant. *)
LEMMA ValidityConstant ==
    ASSUME NEW s \in Schedules, Recurring(s),
           NEW t \in Instants, NEW u \in Instants, ComputeNextRun(s, t) # Nil
    PROVE  ComputeNextRun(s, u) # Nil
<1>1. CASE s.kind = "every"
  BY <1>1 DEF Schedules, ComputeNextRun, Nil, Instants
<1>2. CASE s.kind = "cron"
  <2>1. s.arg \in CronExprs
    BY <1>2 DEF Schedules
  <2> QED
    BY <1>2, <2>1, NextTickAssumption DEF ComputeNextRun, Nil, Instants
<1> QED
  BY <1>1, <1>2 DEF Schedules, Recurring

-----------------------------------------------------------------------------
(* Facts about the job list. *)

(* The list of a fresh service is a job list without jobs. *)
LEMMA EmptyIsStore == IsStore(EmptyStore) /\ DOMAIN EmptyStore = {}
BY DEF IsStore, EmptyStore, JobStates, Nil

(* removeJobUnsafe leaves a job list that lacks the job and keeps the others. *)
LEMMA WithoutIsStore ==
    ASSUME NEW s, IsStore(s), NEW id
    PROVE  /\ IsStore(Without(s, id))
           /\ DOMAIN Without(s, id) = DOMAIN s \ {id}
           /\ \A i \in DOMAIN s \ {id} : Without(s, id)[i] = s[i]
BY DEF IsStore, Without

(* AddJob's append leaves a job list with the new job and the others. *)
LEMMA AppendedIsStore ==
    ASSUME NEW s, IsStore(s), NEW id \in JobIds, NEW job \in JobStates
    PROVE  /\ IsStore(Appended(s, id, job))
           /\ DOMAIN Appended(s, id, job) = DOMAIN s \cup {id}
           /\ Appended(s, id, job)[id] = job
           /\ \A i \in DOMAIN s \ {id} : Appended(s, id, job)[i] = s[i]
BY DEF IsStore, Appended

(* recomputeNextRuns keeps the set of jobs and re-arms the enabled ones. *)
LEMMA RecomputedIsStore ==
    ASSUME TypeOK, NEW s, IsStore(s)
    PROVE  /\ IsStore(Recomputed(s))
           /\ DOMAIN Recomputed(s) = DOMAIN s
           /\ \A i \in DOMAIN s :
                /\ Recomputed(s)[i].enabled = s[i].enabled
                /\ s[i].enabled => Recomputed(s)[i].next = ComputeNextRun(sched[i], now)
<1>1. \A i \in DOMAIN s : s[i] \in JobStates /\ i \in JobIds
  BY DEF IsStore
<1>2. \A i \in DOMAIN s : ComputeNextRun(sched[i], now) \in Nat
  BY <1>1, NextRunType DEF TypeOK
<1>3. \A i \in DOMAIN s :
        /\ [s[i] EXCEPT !.next = ComputeNextRun(sched[i], now)] \in JobStates
        /\ [s[i] EXCEPT !.next = ComputeNextRun(sched[i], now)].enabled = s[i].enabled
        /\ [s[i] EXCEPT !.next = ComputeNextRun(sched[i], now)].next
              = ComputeNextRun(sched[i], now)
  BY <1>1, <1>2 DEF JobStates
<1> QED
  BY <1>1, <1>3 DEF IsStore, Recomputed

(* The list after executeJob: the job is gone or re-armed, nothing else changes. *)
LEMMA ExecutedIsStore ==
    ASSUME TypeOK, NEW id \in JobIds
    PROVE  /\ IsStore(Executed(jobs, id))
           /\ DOMAIN Executed(jobs, id) \subseteq DOMAIN jobs
           /\ \A i \in DOMAIN jobs \ {id} :
                i \in DOMAIN Executed(jobs, id) /\ Executed(jobs, id)[i] = jobs[i]
           /\ id \in DOMAIN jobs /\ Recurring(sched[id]) => id \in DOMAIN Executed(jobs, id)
           /\ id \in DOMAIN Executed(jobs, id) =>
                /\ Recurring(sched[id])
                /\ Executed(jobs, id)[id].enabled = jobs[id].enabled
                /\ Executed(jobs, id)[id].next = ComputeNextRun(sched[id], now)
<1>1. CASE id \notin DOMAIN jobs
  BY <1>1 DEF TypeOK, Executed
<1>2. CASE id \in DOMAIN jobs /\ sched[id].kind = "at"
  <2>1. Executed(jobs, id) = Without(jobs, id)
    BY <1>2 DEF Executed
  <2>2. /\ IsStore(Without(jobs, id))
        /\ DOMAIN Without(jobs, id) = DOMAIN jobs \ {id}
        /\ \A i \in DOMAIN jobs \ {id} : Without(jobs, id)[i] = jobs[i]
    BY WithoutIsStore DEF TypeOK
  <2>3. id \notin DOMAIN Executed(jobs, id) /\ ~Recurring(sched[id])
    BY <1>2, <2>1, <2>2 DEF Recurring
  <2> QED
    BY <2>1, <2>2, <2>3
<1>3. CASE id \in DOMAIN jobs /\ sched[id].kind # "at"
  <2>1. Executed(jobs, id) = [jobs EXCEPT ![id].next = ComputeNextRun(sched[id], now)]
    BY <1>3 DEF Executed
  <2>2. jobs \in [DOMAIN jobs -> JobStates] /\ DOMAIN jobs \subseteq JobIds
    BY DEF TypeOK, IsStore
  <2>3. ComputeNextRun(sched[id], now) \in Nat
    BY NextRunType DEF TypeOK
  <2> QED
    BY <1>3, <2>1, <2>2, <2>3 DEF IsStore, JobStates, Recurring
<1> QED
  BY <1>1, <1>2, <1>3

(* The list after checkJobs: the collected jobs have no next run. *)
LEMMA CheckedIsStore ==
    ASSUME TypeOK, CheckJobs
    PROVE  /\ IsStore(jobs')
           /\ DOMAIN jobs' = DOMAIN jobs
           /\ \A i \in DOMAIN jobs :
                /\ jobs'[i].enabled = jobs[i].enabled
                /\ i \in DueJobs => jobs'[i].next = Nil
                /\ i \notin DueJobs => jobs'[i].next = jobs[i].next
BY DEF TypeOK, CheckJobs, IsStore, JobStates, Nil

-----------------------------------------------------------------------------
(* Type correctness. *)

(* A save, successful or not, leaves a file of the right shape. *)
LEMMA SaveType ==
    ASSUME TypeOK, NEW s, IsStore(s), SaveLogged(s)
    PROVE  (disk' = Torn \/ IsStore(disk')) /\ faults' \in 0 .. MaxFaults
BY BoundsAssumption DEF TypeOK, SaveLogged, Saved, SaveFailed

(* The initial state has the shape TypeOK describes. *)
LEMMA TypeInit == Init => TypeOK
<1> SUFFICES ASSUME Init PROVE TypeOK
  OBVIOUS
<1>1. sched \in [JobIds -> Schedules]
  BY DEF Init, Schedules, Nil
<1>2. now \in Instants /\ created \in 0 .. MaxJobs /\ faults \in 0 .. MaxFaults
  BY BoundsAssumption DEF Init, Instants
<1>3. lastStart \in [JobIds -> Instants \cup {Nil}]
  BY DEF Init
<1>4. IsStore(jobs) /\ IsStore(disk)
  BY EmptyIsStore DEF Init
<1>5. /\ up \in BOOLEAN /\ running \in BOOLEAN /\ loop \in {"off", "idle", "exec"}
      /\ due \subseteq JobIds /\ cur \in JobIds \cup {Nil} /\ acked \subseteq JobIds
  BY DEF Init
<1>6. /\ running => up /\ loop # "off"
      /\ loop # "off" => up
      /\ due # {} \/ cur # Nil => loop = "exec"
  BY DEF Init
<1> QED
  BY <1>1, <1>2, <1>3, <1>4, <1>5, <1>6 DEF TypeOK

(* Every operation of the scheduler keeps that shape. *)
LEMMA TypeStep == TypeOK /\ [Next]_vars => TypeOK'
<1> SUFFICES ASSUME TypeOK, [Next]_vars PROVE TypeOK'
  OBVIOUS
<1>1. CASE Tick
  BY <1>1, BoundsAssumption DEF Tick, TypeOK, Instants
<1>2. CASE BootUnreadable
  <2>1. faults' \in 0 .. MaxFaults
    BY <1>2, BoundsAssumption DEF BootUnreadable, LoadFails, TypeOK
  <2> QED
    BY <1>2, <2>1, EmptyIsStore DEF BootUnreadable, TypeOK
<1>3. CASE Boot
  <2>1. IsStore(Recomputed(disk))
    BY <1>3, RecomputedIsStore DEF Boot, TypeOK
  <2>2. SaveLogged(Recomputed(disk))
    BY <1>3 DEF Boot, SaveLogged
  <2>3. (disk' = Torn \/ IsStore(disk')) /\ faults' \in 0 .. MaxFaults
    BY <2>1, <2>2, SaveType
  <2>4. running = FALSE /\ loop = "off" /\ due = {} /\ cur = Nil
    BY <1>3 DEF Boot, TypeOK
  <2>5. /\ running' \in BOOLEAN /\ loop' \in {"off", "idle", "exec"}
        /\ running' => up' /\ loop' # "off"
        /\ loop' # "off" => up'
        /\ due' = {} /\ cur' = Nil
    BY <1>3, <2>4 DEF Boot
  <2>6. IsStore(jobs') /\ up' \in BOOLEAN
    BY <1>3, <2>1 DEF Boot
  <2> QED
    BY <1>3, <2>3, <2>5, <2>6 DEF Boot, TypeOK
<1>4. CASE Stop
  BY <1>4 DEF Stop, TypeOK
<1>5. CASE LoopExit
  BY <1>5 DEF LoopExit, TypeOK, Nil
<1>6. CASE Exit
  BY <1>6, EmptyIsStore DEF Exit, ProcessGone, TypeOK
<1>7. CASE Crash
  <2>1. faults' \in 0 .. MaxFaults /\ (disk' = Torn \/ IsStore(disk'))
    BY <1>7, BoundsAssumption DEF Crash, TypeOK
  <2> QED
    BY <1>7, <2>1, EmptyIsStore DEF Crash, ProcessGone, TypeOK
<1>8. CASE CheckJobs
  <2>1. IsStore(jobs')
    BY <1>8, CheckedIsStore
  <2>2. (disk' = Torn \/ IsStore(disk')) /\ faults' \in 0 .. MaxFaults
    BY <1>8, <2>1, SaveType DEF CheckJobs
  <2>3. DueJobs \subseteq JobIds
    BY DEF DueJobs, TypeOK, IsStore
  <2> QED
    BY <1>8, <2>1, <2>2, <2>3 DEF CheckJobs, TypeOK
<1>9. CASE BeginJob
  BY <1>9 DEF BeginJob, TypeOK
<1>10. CASE FinishJob
  <2>1. cur \in JobIds
    BY <1>10 DEF FinishJob, TypeOK
  <2>2. IsStore(jobs')
    BY <1>10, <2>1, ExecutedIsStore DEF FinishJob
  <2>3. (disk' = Torn \/ IsStore(disk')) /\ faults' \in 0 .. MaxFaults
    BY <1>10, <2>2, SaveType DEF FinishJob
  <2> QED
    BY <1>10, <2>2, <2>3 DEF FinishJob, TypeOK
<1>11. CASE AddJob
  <2>1. PICK s \in NewSchedules :
           /\ created' = created + 1
           /\ sched' = [sched EXCEPT ![created + 1] = s]
           /\ jobs' = Appended(jobs, created + 1,
                               [enabled |-> TRUE, next |-> ComputeNextRun(s, now)])
           /\ \/ Saved(jobs') /\ acked' = acked \cup {created + 1}
              \/ SaveFailed /\ UNCHANGED acked
    BY <1>11 DEF AddJob
  <2>2. created + 1 \in JobIds /\ s \in Schedules
    <3>1. created + 1 \in JobIds
      BY <1>11, BoundsAssumption DEF AddJob, TypeOK, JobIds
    <3>2. \A t \in (now + MinDelay) .. MaxTime : t \in Nat
      BY BoundsAssumption DEF TypeOK, Instants
    <3>3. Periods \subseteq Nat
      BY BoundsAssumption
    <3> QED
      BY <2>1, <3>1, <3>2, <3>3 DEF NewSchedules, Schedules
  <2>3. [enabled |-> TRUE, next |-> ComputeNextRun(s, now)] \in JobStates
    BY <2>2, NextRunType DEF TypeOK, JobStates
  <2>4. IsStore(jobs')
    BY <2>1, <2>2, <2>3, AppendedIsStore DEF TypeOK
  <2>5. (disk' = Torn \/ IsStore(disk')) /\ faults' \in 0 .. MaxFaults
    BY <2>1, <2>4, SaveType DEF SaveLogged
  <2>6. created' \in 0 .. MaxJobs /\ sched' \in [JobIds -> Schedules]
    BY <2>1, <2>2 DEF TypeOK, JobIds
  <2>7. acked' \subseteq JobIds
    BY <2>1, <2>2 DEF TypeOK
  <2> QED
    BY <1>11, <2>4, <2>5, <2>6, <2>7 DEF AddJob, TypeOK
<1>12. CASE RemoveJob
  <2>1. PICK id \in DOMAIN jobs :
           /\ jobs' = Without(jobs, id)
           /\ acked' = acked \ {id}
           /\ SaveLogged(jobs')
    BY <1>12 DEF RemoveJob
  <2>2. IsStore(jobs')
    BY <2>1, WithoutIsStore DEF TypeOK
  <2>3. (disk' = Torn \/ IsStore(disk')) /\ faults' \in 0 .. MaxFaults
    BY <2>1, <2>2, SaveType
  <2> QED
    BY <1>12, <2>1, <2>2, <2>3 DEF RemoveJob, TypeOK
<1>13. CASE EnableJob
  <2>1. PICK id \in DOMAIN jobs, enabled \in BOOLEAN :
           /\ jobs' = [jobs EXCEPT ![id] =
                        [enabled |-> enabled,
                         next |-> IF enabled THEN ComputeNextRun(sched[id], now)
                                  ELSE Nil]]
           /\ SaveLogged(jobs')
    BY <1>13 DEF EnableJob
  <2>2. ComputeNextRun(sched[id], now) \in Nat
    BY NextRunType DEF TypeOK, IsStore
  <2>3. IsStore(jobs')
    BY <2>1, <2>2 DEF TypeOK, IsStore, JobStates, Nil
  <2> QED
    BY <1>13, <2>1, <2>3, SaveType DEF EnableJob, TypeOK
<1>14. CASE UNCHANGED vars
  BY <1>14 DEF vars, TypeOK
<1> QED
  BY <1>1, <1>2, <1>3, <1>4, <1>5, <1>6, <1>7, <1>8, <1>9, <1>10, <1>11, <1>12,
     <1>13, <1>14 DEF Next

(* Every reachable state of the scheduler has the shape TypeOK describes. *)
THEOREM TypeCorrect == Spec => []TypeOK
BY TypeInit, TypeStep, PTL DEF Spec

-----------------------------------------------------------------------------
(* The inductive invariant. *)

(* No variable mentions an identifier that has not been generated, a       *)
(* process that is down has no list, and no handler started in the future. *)
Generated ==
    /\ ~up => DOMAIN jobs = {}
    /\ \A id \in JobIds : id > created =>
         /\ id \notin DOMAIN jobs
         /\ disk # Torn => id \notin DOMAIN disk
         /\ id \notin due
         /\ id \notin acked
         /\ lastStart[id] = Nil
    /\ \A id \in JobIds : lastStart[id] <= now
    /\ cur # Nil => lastStart[cur] # Nil /\ cur \notin due

(* Why a one-shot cannot run twice: once it is collected its instant is in *)
(* the past, and computeNextRun never arms it again.                       *)
OneShotInv ==
    \A id \in JobIds :
        ~Recurring(sched[id]) =>
            /\ id \in due => lastStart[id] = Nil
            /\ id \in due \/ lastStart[id] # Nil => sched[id].arg <= now
            /\ id \in DOMAIN jobs /\ jobs[id].enabled /\ jobs[id].next # Nil
                  => /\ jobs[id].next = sched[id].arg
                     /\ lastStart[id] = Nil
                     /\ id \notin due

(* Why two runs keep their distance: a next run counts from a clock that   *)
(* is past the last start, except while the handler runs, when executeJob  *)
(* is still to set it.                                                     *)
SpacedInv ==
    \A id \in JobIds :
        Recurring(sched[id]) /\ lastStart[id] # Nil =>
            /\ id \in due => now >= ComputeNextRun(sched[id], lastStart[id])
            /\ id # cur /\ id \in DOMAIN jobs /\ jobs[id].enabled /\ jobs[id].next # Nil
                  => jobs[id].next >= ComputeNextRun(sched[id], lastStart[id])

Inv ==
    /\ TypeOK
    /\ Generated
    /\ RecurringStaysArmed
    /\ AckedJobsSurvive
    /\ OneShotInv
    /\ SpacedInv

-----------------------------------------------------------------------------
(* What each operation does to the list and the file, job by job. *)

(* After a save the file holds the list, the old content or garbage. *)
LEMMA SaveCases ==
    ASSUME NEW s, SaveLogged(s)
    PROVE  disk' = s \/ disk' = disk \/ disk' = Torn
BY DEF SaveLogged, Saved, SaveFailed

(* Start: each job of the file is in the list, re-armed if it is enabled. *)
LEMMA BootEffect ==
    ASSUME TypeOK, Boot
    PROVE  /\ disk # Torn /\ IsStore(disk)
           /\ DOMAIN jobs' = DOMAIN disk
           /\ \A i \in DOMAIN disk :
                /\ i \in JobIds
                /\ jobs'[i].enabled => jobs'[i].next = ComputeNextRun(sched[i], now)
           /\ disk' = jobs' \/ disk' = disk \/ disk' = Torn
           /\ due = {} /\ cur = Nil
<1>1. disk # Torn /\ IsStore(disk) /\ jobs' = Recomputed(disk)
  BY DEF Boot, TypeOK
<1>2. SaveLogged(jobs')
  BY DEF Boot, SaveLogged
<1>3. due = {} /\ cur = Nil
  BY DEF Boot, TypeOK
<1> QED
  BY <1>1, <1>2, <1>3, RecomputedIsStore, SaveCases DEF IsStore

(* AddJob: one fresh enabled job is added, the others stay as they are. *)
LEMMA AddEffect ==
    ASSUME TypeOK, AddJob
    PROVE  /\ created + 1 \in JobIds /\ created' = created + 1
           /\ sched'[created + 1] \in Schedules
           /\ \A i \in JobIds \ {created + 1} : sched'[i] = sched[i]
           /\ DOMAIN jobs' = DOMAIN jobs \cup {created + 1}
           /\ \A i \in DOMAIN jobs \ {created + 1} : jobs'[i] = jobs[i]
           /\ jobs'[created + 1].next = ComputeNextRun(sched'[created + 1], now)
           /\ \/ disk' = jobs' /\ acked' = acked \cup {created + 1}
              \/ disk' \in {disk, Torn} /\ acked' = acked
<1>1. PICK s \in NewSchedules :
         /\ created' = created + 1
         /\ sched' = [sched EXCEPT ![created + 1] = s]
         /\ jobs' = Appended(jobs, created + 1,
                             [enabled |-> TRUE, next |-> ComputeNextRun(s, now)])
         /\ \/ Saved(jobs') /\ acked' = acked \cup {created + 1}
            \/ SaveFailed /\ UNCHANGED acked
  BY DEF AddJob
<1>2. created + 1 \in JobIds
  BY BoundsAssumption DEF AddJob, TypeOK, JobIds
<1>3. s \in Schedules
  <2>1. \A t \in (now + MinDelay) .. MaxTime : t \in Nat
    BY BoundsAssumption DEF TypeOK, Instants
  <2>2. Periods \subseteq Nat
    BY BoundsAssumption
  <2> QED
    BY <1>1, <2>1, <2>2 DEF NewSchedules, Schedules
<1>4. [enabled |-> TRUE, next |-> ComputeNextRun(s, now)] \in JobStates
  BY <1>3, NextRunType DEF TypeOK, JobStates
<1>5. /\ DOMAIN jobs' = DOMAIN jobs \cup {created + 1}
      /\ jobs'[created + 1] = [enabled |-> TRUE, next |-> ComputeNextRun(s, now)]
      /\ \A i \in DOMAIN jobs \ {created + 1} : jobs'[i] = jobs[i]
  <2> DEFINE id  == created + 1
             job == [enabled |-> TRUE, next |-> ComputeNextRun(s, now)]
  <2>1. IsStore(jobs) /\ id \in JobIds /\ job \in JobStates
    BY <1>2, <1>4 DEF TypeOK
  <2>2. jobs' = Appended(jobs, id, job)
    BY <1>1
  <2> HIDE DEF id, job
  <2>3. /\ DOMAIN Appended(jobs, id, job) = DOMAIN jobs \cup {id}
        /\ Appended(jobs, id, job)[id] = job
        /\ \A i \in DOMAIN jobs \ {id} : Appended(jobs, id, job)[i] = jobs[i]
    BY DEF Appended
  <2> QED
    BY <2>2, <2>3 DEF id, job
<1>6. sched'[created + 1] = s /\ \A i \in JobIds \ {created + 1} : sched'[i] = sched[i]
  BY <1>1, <1>2 DEF TypeOK
<1>7. \/ disk' = jobs' /\ acked' = acked \cup {created + 1}
      \/ disk' \in {disk, Torn} /\ acked' = acked
  BY <1>1 DEF Saved, SaveFailed
<1>8. jobs'[created + 1].next = ComputeNextRun(sched'[created + 1], now)
  BY <1>5, <1>6
<1> QED
  BY <1>1, <1>2, <1>3, <1>5, <1>6, <1>7, <1>8

(* RemoveJob: one job is gone, the others stay as they are. *)
LEMMA RemoveEffect ==
    ASSUME TypeOK, RemoveJob
    PROVE  \E id \in DOMAIN jobs :
             /\ DOMAIN jobs' = DOMAIN jobs \ {id}
             /\ \A i \in DOMAIN jobs' : jobs'[i] = jobs[i]
             /\ acked' = acked \ {id}
             /\ disk' = jobs' \/ disk' = disk \/ disk' = Torn
<1>1. PICK id \in DOMAIN jobs :
         /\ jobs' = Without(jobs, id)
         /\ acked' = acked \ {id}
         /\ SaveLogged(jobs')
  BY DEF RemoveJob
<1>2. DOMAIN jobs' = DOMAIN jobs \ {id} /\ \A i \in DOMAIN jobs' : jobs'[i] = jobs[i]
  BY <1>1, WithoutIsStore DEF TypeOK
<1> QED
  BY <1>1, <1>2, SaveCases

(* EnableJob: one job is re-armed or disarmed, the others stay as they are. *)
LEMMA EnableEffect ==
    ASSUME TypeOK, EnableJob
    PROVE  /\ DOMAIN jobs' = DOMAIN jobs
           /\ \A i \in DOMAIN jobs :
                \/ jobs'[i] = jobs[i]
                \/ jobs'[i].enabled => jobs'[i].next = ComputeNextRun(sched[i], now)
           /\ disk' = jobs' \/ disk' = disk \/ disk' = Torn
<1>1. PICK id \in DOMAIN jobs, enabled \in BOOLEAN :
         /\ jobs' = [jobs EXCEPT ![id] =
                      [enabled |-> enabled,
                       next |-> IF enabled THEN ComputeNextRun(sched[id], now)
                                ELSE Nil]]
         /\ SaveLogged(jobs')
  BY DEF EnableJob
<1>2. jobs \in [DOMAIN jobs -> JobStates]
  BY DEF TypeOK, IsStore
<1>3. DOMAIN jobs' = DOMAIN jobs /\ \A i \in DOMAIN jobs \ {id} : jobs'[i] = jobs[i]
  BY <1>1, <1>2
<1>4. jobs'[id].enabled => jobs'[id].next = ComputeNextRun(sched[id], now)
  BY <1>1, <1>2
<1> QED
  BY <1>1, <1>3, <1>4, SaveCases

(* The end of executeJob: its job is gone or re-armed, the others stay. *)
LEMMA FinishEffect ==
    ASSUME TypeOK, FinishJob
    PROVE  /\ cur \in JobIds
           /\ DOMAIN jobs' \subseteq DOMAIN jobs
           /\ \A i \in DOMAIN jobs \ {cur} : i \in DOMAIN jobs' /\ jobs'[i] = jobs[i]
           /\ cur \in DOMAIN jobs /\ Recurring(sched[cur]) => cur \in DOMAIN jobs'
           /\ cur \in DOMAIN jobs' =>
                Recurring(sched[cur]) /\ jobs'[cur].next = ComputeNextRun(sched[cur], now)
           /\ disk' = jobs' \/ disk' = disk \/ disk' = Torn
           /\ acked' \subseteq acked
           /\ ~Recurring(sched[cur]) => cur \notin acked'
<1>1. cur \in JobIds
  BY DEF FinishJob, TypeOK
<1>2. jobs' = Executed(jobs, cur) /\ SaveLogged(jobs')
  BY DEF FinishJob
<1>3. acked' \subseteq acked /\ (~Recurring(sched[cur]) => cur \notin acked')
  BY DEF FinishJob, Recurring
<1> QED
  BY <1>1, <1>2, <1>3, ExecutedIsStore, SaveCases

(* checkJobs: the jobs that were due lose their next run and are collected. *)
LEMMA CheckEffect ==
    ASSUME TypeOK, CheckJobs
    PROVE  /\ DOMAIN jobs' = DOMAIN jobs
           /\ \A i \in DOMAIN jobs :
                /\ jobs'[i].enabled = jobs[i].enabled
                /\ i \in DueJobs => jobs'[i].next = Nil
                /\ i \notin DueJobs => jobs'[i].next = jobs[i].next
           /\ disk' = jobs' \/ disk' = disk \/ disk' = Torn
           /\ due = {} /\ cur = Nil
           /\ DueJobs \subseteq DOMAIN jobs
<1>1. SaveLogged(jobs') /\ due = {} /\ cur = Nil
  BY DEF CheckJobs, TypeOK
<1>2. DueJobs \subseteq DOMAIN jobs
  BY DEF DueJobs
<1> QED
  BY <1>1, <1>2, CheckedIsStore, SaveCases

-----------------------------------------------------------------------------
(* Each part of the invariant is kept by every step. *)

(* The inductive invariant holds initially. *)
LEMMA InvInit == Init => Inv
<1> SUFFICES ASSUME Init PROVE Inv
  OBVIOUS
<1>1. TypeOK
  BY TypeInit
<1>2. /\ DOMAIN jobs = {} /\ DOMAIN disk = {} /\ due = {} /\ cur = Nil /\ acked = {}
      /\ ~up /\ now = 1 /\ \A id \in JobIds : lastStart[id] = Nil
  BY EmptyIsStore DEF Init
<1>3. Generated
  BY <1>2 DEF Generated, Nil
<1>4. RecurringStaysArmed /\ AckedJobsSurvive
  BY <1>2 DEF RecurringStaysArmed, AckedJobsSurvive
<1>5. OneShotInv /\ SpacedInv
  BY <1>2 DEF OneShotInv, SpacedInv
<1> QED
  BY <1>1, <1>3, <1>4, <1>5 DEF Inv

(* Every job in sight has an identifier that was generated. *)
LEMMA GeneratedStep == TypeOK /\ TypeOK' /\ Generated /\ [Next]_vars => Generated'
<1> SUFFICES ASSUME TypeOK, TypeOK', Generated, [Next]_vars PROVE Generated'
  OBVIOUS
<1> USE DEF Generated
<1>1. CASE Tick
  BY <1>1 DEF Tick, TypeOK, Instants, Nil
<1>2. CASE BootUnreadable
  BY <1>2, EmptyIsStore DEF BootUnreadable, TypeOK
<1>3. CASE Boot
  BY <1>3, BootEffect DEF Boot
<1>4. CASE Stop \/ LoopExit \/ UNCHANGED vars
  BY <1>4 DEF Stop, LoopExit, vars
<1>5. CASE Exit \/ Crash
  BY <1>5, EmptyIsStore DEF Exit, Crash, ProcessGone
<1>6. CASE CheckJobs
  BY <1>6, CheckEffect DEF CheckJobs, TypeOK
<1>7. CASE BeginJob
  BY <1>7 DEF BeginJob, TypeOK, Instants, Nil, JobIds
<1>8. CASE FinishJob
  BY <1>8, FinishEffect DEF FinishJob, TypeOK
<1>9. CASE AddJob
  <2>1. created \in Nat
    BY DEF TypeOK
  <2>2. \A id \in JobIds : id > created' => id > created /\ id # created + 1
    BY <1>9, <2>1, AddEffect DEF JobIds
  <2> QED
    BY <1>9, <2>2, AddEffect DEF AddJob
<1>10. CASE RemoveJob
  BY <1>10, RemoveEffect DEF RemoveJob
<1>11. CASE EnableJob
  BY <1>11, EnableEffect DEF EnableJob
<1> QED
  BY <1>1, <1>2, <1>3, <1>4, <1>5, <1>6, <1>7, <1>8, <1>9, <1>10, <1>11 DEF Next

(* No operation leaves an enabled recurring job without a next run. *)
LEMMA ArmedStep ==
    TypeOK /\ TypeOK' /\ RecurringStaysArmed /\ [Next]_vars => RecurringStaysArmed'
<1> SUFFICES ASSUME TypeOK, TypeOK', RecurringStaysArmed, [Next]_vars, up',
                    NEW id \in DOMAIN jobs', jobs'[id].enabled,
                    Recurring(sched'[id]), ComputeNextRun(sched'[id], now') # Nil
             PROVE  jobs'[id].next # Nil \/ id \in due' \/ id = cur'
  BY DEF RecurringStaysArmed, Valid
<1>0. id \in JobIds /\ now \in Instants /\ now' \in Instants
  BY DEF TypeOK, IsStore
<1>a. sched[id] \in Schedules /\ sched'[id] \in Schedules
  BY <1>0 DEF TypeOK
<1>b. ComputeNextRun(sched'[id], now) # Nil
  BY <1>0, <1>a, ValidityConstant
<1>c. up /\ id \in DOMAIN jobs /\ jobs[id].enabled /\ sched'[id] = sched[id]
         => jobs[id].next # Nil \/ id \in due \/ id = cur
  BY <1>b DEF RecurringStaysArmed, Valid
<1>1. CASE Tick
  BY <1>1, <1>c DEF Tick
<1>2. CASE BootUnreadable
  BY <1>2, EmptyIsStore DEF BootUnreadable
<1>3. CASE Boot
  BY <1>3, <1>b, BootEffect DEF Boot
<1>4. CASE Stop \/ LoopExit \/ UNCHANGED vars
  BY <1>4, <1>c DEF Stop, LoopExit, vars
<1>5. CASE Exit \/ Crash
  BY <1>5 DEF Exit, Crash, ProcessGone
<1>6. CASE CheckJobs
  <2>1. up
    BY <1>6 DEF CheckJobs, TypeOK
  <2> QED
    BY <1>0, <1>6, <1>c, <2>1, CheckEffect DEF CheckJobs, JobIds, Nil
<1>7. CASE BeginJob
  BY <1>0, <1>7, <1>c DEF BeginJob, JobIds, Nil
<1>8. CASE FinishJob
  BY <1>8, <1>b, <1>c, FinishEffect DEF FinishJob
<1>9. CASE AddJob
  <2>1. up /\ UNCHANGED <<now, due, cur>>
    BY <1>9 DEF AddJob
  <2>2. /\ DOMAIN jobs' = DOMAIN jobs \cup {created + 1}
        /\ \A i \in JobIds \ {created + 1} : sched'[i] = sched[i]
        /\ \A i \in DOMAIN jobs \ {created + 1} : jobs'[i] = jobs[i]
        /\ jobs'[created + 1].next = ComputeNextRun(sched'[created + 1], now)
    BY <1>9, AddEffect
  <2>3. CASE id = created + 1
    BY <1>b, <2>2, <2>3
  <2>4. CASE id # created + 1
    <3>1. id \in DOMAIN jobs /\ jobs'[id] = jobs[id] /\ sched'[id] = sched[id]
      BY <1>0, <2>2, <2>4
    <3> QED
      BY <1>c, <2>1, <3>1
  <2> QED
    BY <2>3, <2>4
<1>10. CASE RemoveJob
  BY <1>10, <1>c, RemoveEffect DEF RemoveJob
<1>11. CASE EnableJob
  BY <1>11, <1>b, <1>c, EnableEffect DEF EnableJob
<1> QED
  BY <1>1, <1>2, <1>3, <1>4, <1>5, <1>6, <1>7, <1>8, <1>9, <1>10, <1>11 DEF Next

(* No operation drops an acknowledged job from the list or a readable file. *)
LEMMA AckedStep ==
    TypeOK /\ TypeOK' /\ AckedJobsSurvive /\ [Next]_vars => AckedJobsSurvive'
<1> SUFFICES ASSUME TypeOK, TypeOK', AckedJobsSurvive, [Next]_vars,
                    NEW id \in acked'
             PROVE  /\ up' => id \in DOMAIN jobs'
                    /\ disk' # Torn => id \in DOMAIN disk'
  BY DEF AckedJobsSurvive
<1>0. id \in JobIds
  BY DEF TypeOK
<1>a. id \in acked => /\ up => id \in DOMAIN jobs
                      /\ disk # Torn => id \in DOMAIN disk
  BY DEF AckedJobsSurvive
<1>1. CASE Tick
  BY <1>1, <1>a DEF Tick
<1>2. CASE BootUnreadable
  BY <1>2 DEF BootUnreadable
<1>3. CASE Boot
  BY <1>3, <1>a, BootEffect DEF Boot
<1>4. CASE Stop \/ LoopExit \/ UNCHANGED vars
  BY <1>4, <1>a DEF Stop, LoopExit, vars
<1>5. CASE Exit \/ Crash
  BY <1>5, <1>a DEF Exit, Crash, ProcessGone
<1>6. CASE CheckJobs
  <2>1. up
    BY <1>6 DEF CheckJobs, TypeOK
  <2> QED
    BY <1>6, <1>a, <2>1, CheckEffect DEF CheckJobs
<1>7. CASE BeginJob
  BY <1>7, <1>a DEF BeginJob
<1>8. CASE FinishJob
  <2>1. up
    BY <1>8 DEF FinishJob, TypeOK
  <2> QED
    BY <1>8, <1>a, <2>1, FinishEffect DEF FinishJob
<1>9. CASE AddJob
  BY <1>9, <1>a, AddEffect DEF AddJob
<1>10. CASE RemoveJob
  BY <1>10, <1>a, RemoveEffect DEF RemoveJob
<1>11. CASE EnableJob
  BY <1>11, <1>a, EnableEffect DEF EnableJob
<1> QED
  BY <1>1, <1>2, <1>3, <1>4, <1>5, <1>6, <1>7, <1>8, <1>9, <1>10, <1>11 DEF Next

(* A one-shot is only ever armed for its own instant, and before it. *)
LEMMA OneShotNext ==
    ASSUME NEW s \in Schedules, ~Recurring(s), NEW t \in Instants,
           ComputeNextRun(s, t) # Nil
    PROVE  ComputeNextRun(s, t) = s.arg /\ s.arg > t
BY DEF Recurring, ComputeNextRun, Schedules, Nil

(* A one-shot that has started is never armed or collected again. *)
LEMMA OneShotStep ==
    TypeOK /\ TypeOK' /\ Generated /\ OneShotInv /\ [Next]_vars => OneShotInv'
<1> SUFFICES ASSUME TypeOK, TypeOK', Generated, OneShotInv, [Next]_vars,
                    NEW id \in JobIds, ~Recurring(sched'[id])
             PROVE  /\ id \in due' => lastStart'[id] = Nil
                    /\ id \in due' \/ lastStart'[id] # Nil => sched'[id].arg <= now'
                    /\ id \in DOMAIN jobs' /\ jobs'[id].enabled /\ jobs'[id].next # Nil
                          => /\ jobs'[id].next = sched'[id].arg
                             /\ lastStart'[id] = Nil
                             /\ id \notin due'
  BY DEF OneShotInv
<1>0. now \in Instants /\ now' \in Instants /\ sched[id] \in Schedules
  BY DEF TypeOK
<1>a. sched'[id] = sched[id] =>
         /\ id \in due => lastStart[id] = Nil
         /\ id \in due \/ lastStart[id] # Nil => sched[id].arg <= now
         /\ id \in DOMAIN jobs /\ jobs[id].enabled /\ jobs[id].next # Nil
               => /\ jobs[id].next = sched[id].arg
                  /\ lastStart[id] = Nil
                  /\ id \notin due
  BY DEF OneShotInv
<1>b. sched'[id] = sched[id] /\ ComputeNextRun(sched[id], now) # Nil =>
         ComputeNextRun(sched[id], now) = sched[id].arg /\ sched[id].arg > now
  BY <1>0, OneShotNext
<1>c. sched[id] = sched'[id] => sched[id].arg \in Nat
  BY <1>0 DEF Schedules, Recurring
<1>1. CASE Tick
  BY <1>0, <1>1, <1>a, <1>c DEF Tick, Instants
<1>2. CASE BootUnreadable
  BY <1>2, <1>a, EmptyIsStore DEF BootUnreadable
<1>3. CASE Boot
  <2>1. id \in due' \/ lastStart'[id] # Nil => sched'[id].arg <= now'
    BY <1>3, <1>a DEF Boot
  <2>2. id \notin due'
    BY <1>3, BootEffect DEF Boot
  <2>3. ASSUME id \in DOMAIN jobs', jobs'[id].enabled, jobs'[id].next # Nil
        PROVE  jobs'[id].next = sched'[id].arg /\ lastStart'[id] = Nil
    <3>1. jobs'[id].next = ComputeNextRun(sched[id], now) /\ sched'[id] = sched[id]
      BY <1>3, <2>3, BootEffect DEF Boot
    <3>2. jobs'[id].next = sched[id].arg /\ sched[id].arg > now
      BY <2>3, <3>1, <1>b
    <3> QED
      BY <1>0, <1>3, <1>a, <1>c, <3>1, <3>2 DEF Boot, Instants
  <2> QED
    BY <2>1, <2>2, <2>3
<1>4. CASE Stop \/ LoopExit \/ UNCHANGED vars
  BY <1>4, <1>a DEF Stop, LoopExit, vars
<1>5. CASE Exit \/ Crash
  BY <1>5, <1>a, EmptyIsStore DEF Exit, Crash, ProcessGone
<1>6. CASE CheckJobs
  <2>1. sched'[id] = sched[id] /\ lastStart' = lastStart /\ now' = now /\ due' = DueJobs
    BY <1>6 DEF CheckJobs
  <2>2. id \in DueJobs => lastStart[id] = Nil /\ sched[id].arg <= now
    BY <2>1, <1>a DEF DueJobs
  <2> QED
    BY <1>6, <1>a, <2>1, <2>2, CheckEffect
<1>7. CASE BeginJob
  <2>1. sched'[id] = sched[id] /\ jobs' = jobs /\ now' = now /\ due' \subseteq due
    BY <1>7 DEF BeginJob
  <2>2. CASE id = cur'
    <3>1. id \in due /\ id \notin due'
      BY <1>7, <2>2 DEF BeginJob
    <3> QED
      BY <1>a, <2>1, <3>1
  <2>3. CASE id # cur'
    <3>1. lastStart'[id] = lastStart[id]
      BY <1>7, <2>3 DEF BeginJob, TypeOK
    <3> QED
      BY <1>a, <2>1, <3>1
  <2> QED
    BY <2>2, <2>3
<1>8. CASE FinishJob
  BY <1>8, <1>a, FinishEffect DEF FinishJob
<1>9. CASE AddJob
  <2>1. now' = now /\ lastStart' = lastStart /\ due' = due
    BY <1>9 DEF AddJob
  <2>2. CASE id = created + 1
    <3>1. lastStart[id] = Nil /\ id \notin due
      BY <2>2 DEF Generated, TypeOK
    <3>2. sched'[id] \in Schedules /\ jobs'[id].next = ComputeNextRun(sched'[id], now)
      BY <1>9, <2>2, AddEffect
    <3> QED
      BY <1>0, <2>1, <3>1, <3>2, OneShotNext
  <2>3. CASE id # created + 1
    BY <1>9, <1>a, <2>1, <2>3, AddEffect
  <2> QED
    BY <2>2, <2>3
<1>10. CASE RemoveJob
  BY <1>10, <1>a, RemoveEffect DEF RemoveJob
<1>11. CASE EnableJob
  <2>1. sched'[id] = sched[id] /\ lastStart' = lastStart /\ now' = now /\ due' = due
    BY <1>11 DEF EnableJob
  <2>2. CASE id \in DOMAIN jobs /\ jobs'[id] = jobs[id]
    BY <1>a, <2>1, <2>2
  <2>3. CASE jobs'[id].enabled => jobs'[id].next = ComputeNextRun(sched[id], now)
    BY <1>0, <1>a, <1>b, <1>c, <2>1, <2>3 DEF Instants
  <2> QED
    BY <1>11, <1>a, <2>1, <2>2, <2>3, EnableEffect
<1> QED
  BY <1>1, <1>2, <1>3, <1>4, <1>5, <1>6, <1>7, <1>8, <1>9, <1>10, <1>11 DEF Next

(* A recurring job is never armed for an instant too close to its last run. *)
LEMMA SpacedStep ==
    TypeOK /\ TypeOK' /\ Generated /\ SpacedInv /\ [Next]_vars => SpacedInv'
<1> SUFFICES ASSUME TypeOK, TypeOK', Generated, SpacedInv, [Next]_vars,
                    NEW id \in JobIds, Recurring(sched'[id]), lastStart'[id] # Nil
             PROVE  /\ id \in due' =>
                         now' >= ComputeNextRun(sched'[id], lastStart'[id])
                    /\ id # cur' /\ id \in DOMAIN jobs' /\ jobs'[id].enabled
                          /\ jobs'[id].next # Nil
                       => jobs'[id].next >= ComputeNextRun(sched'[id], lastStart'[id])
  BY DEF SpacedInv
<1>0. now \in Instants /\ now' \in Instants /\ sched[id] \in Schedules
  BY DEF TypeOK
<1>a. sched'[id] = sched[id] /\ lastStart'[id] = lastStart[id] =>
         /\ id \in due => now >= ComputeNextRun(sched[id], lastStart[id])
         /\ id # cur /\ id \in DOMAIN jobs /\ jobs[id].enabled /\ jobs[id].next # Nil
            => jobs[id].next >= ComputeNextRun(sched[id], lastStart[id])
  BY DEF SpacedInv
<1>b. sched'[id] = sched[id] /\ lastStart'[id] = lastStart[id] =>
         /\ ComputeNextRun(sched[id], lastStart[id]) \in Nat
         /\ ComputeNextRun(sched[id], now) \in Nat
         /\ ComputeNextRun(sched[id], lastStart[id]) <= ComputeNextRun(sched[id], now)
  <2> SUFFICES ASSUME sched'[id] = sched[id], lastStart'[id] = lastStart[id]
               PROVE  /\ ComputeNextRun(sched[id], lastStart[id]) \in Nat
                      /\ ComputeNextRun(sched[id], now) \in Nat
                      /\ ComputeNextRun(sched[id], lastStart[id])
                            <= ComputeNextRun(sched[id], now)
    OBVIOUS
  <2>1. lastStart[id] \in Instants /\ lastStart[id] <= now
    BY DEF TypeOK, Generated
  <2> QED
    BY <1>0, <2>1, NextRunType, NextRunMonotone
<1>1. CASE Tick
  BY <1>0, <1>1, <1>a, <1>b DEF Tick, Instants
<1>2. CASE BootUnreadable
  BY <1>2, <1>a, EmptyIsStore DEF BootUnreadable
<1>3. CASE Boot
  BY <1>3, <1>b, BootEffect DEF Boot
<1>4. CASE Stop \/ LoopExit \/ UNCHANGED vars
  BY <1>4, <1>a DEF Stop, LoopExit, vars
<1>5. CASE Exit \/ Crash
  BY <1>5, <1>a, EmptyIsStore DEF Exit, Crash, ProcessGone
<1>6. CASE CheckJobs
  <2>1. /\ sched' = sched /\ lastStart' = lastStart /\ now' = now
        /\ due' = DueJobs /\ cur' = cur
    BY <1>6 DEF CheckJobs
  <2>2. id # cur
    BY <1>6, CheckEffect DEF JobIds, Nil
  <2>3. id \in DueJobs =>
          /\ id \in DOMAIN jobs /\ jobs[id].enabled /\ jobs[id].next # Nil
          /\ jobs[id].next <= now /\ jobs[id].next \in Nat
    BY DEF DueJobs, TypeOK, IsStore, JobStates
  <2>4. id \in DueJobs => now >= ComputeNextRun(sched[id], lastStart[id])
    BY <1>0, <1>a, <1>b, <2>1, <2>2, <2>3 DEF Instants
  <2> QED
    BY <1>6, <1>a, <2>1, <2>2, <2>4, CheckEffect
<1>7. CASE BeginJob
  <2>1. /\ sched' = sched /\ jobs' = jobs /\ now' = now /\ due' = due \ {cur'}
        /\ id # cur
    BY <1>7 DEF BeginJob, JobIds, Nil
  <2>2. CASE id = cur'
    BY <2>1, <2>2
  <2>3. CASE id # cur'
    <3>1. lastStart'[id] = lastStart[id]
      BY <1>7, <2>3 DEF BeginJob, TypeOK
    <3> QED
      BY <1>a, <2>1, <3>1
  <2> QED
    BY <2>2, <2>3
<1>8. CASE FinishJob
  <2>1. sched' = sched /\ lastStart' = lastStart /\ now' = now /\ due' = due
    BY <1>8 DEF FinishJob
  <2>2. CASE id = cur
    BY <1>8, <1>a, <1>b, <2>1, <2>2, FinishEffect
  <2>3. CASE id # cur
    BY <1>8, <1>a, <2>1, <2>3, FinishEffect
  <2> QED
    BY <2>2, <2>3
<1>9. CASE AddJob
  <2>1. now' = now /\ lastStart' = lastStart /\ due' = due /\ cur' = cur
    BY <1>9 DEF AddJob
  <2>2. id # created + 1
    BY <2>1 DEF Generated, TypeOK
  <2> QED
    BY <1>9, <1>a, <2>1, <2>2, AddEffect
<1>10. CASE RemoveJob
  BY <1>10, <1>a, RemoveEffect DEF RemoveJob
<1>11. CASE EnableJob
  <2>1. /\ sched' = sched /\ lastStart' = lastStart /\ now' = now /\ due' = due
        /\ cur' = cur
    BY <1>11 DEF EnableJob
  <2> QED
    BY <1>11, <1>a, <1>b, <2>1, EnableEffect
<1> QED
  BY <1>1, <1>2, <1>3, <1>4, <1>5, <1>6, <1>7, <1>8, <1>9, <1>10, <1>11 DEF Next

(* The conjunction is inductive. *)
THEOREM Invariance == Spec => []Inv
<1>1. Inv /\ [Next]_vars => Inv'
  BY TypeStep, GeneratedStep, ArmedStep, AckedStep, OneShotStep, SpacedStep DEF Inv
<1> QED
  BY <1>1, InvInit, PTL DEF Spec

-----------------------------------------------------------------------------
(* The results. *)

(* No interleaving, failed save, crash or restart leaves an enabled        *)
(* recurring job with a usable schedule without a next run.                *)
THEOREM RecurringJobsStayArmed == Spec => []RecurringStaysArmed
<1>1. Inv => RecurringStaysArmed
  BY DEF Inv
<1> QED
  BY <1>1, Invariance, PTL

(* A job reported as stored stays in the list and in every readable file. *)
THEOREM StoredJobsSurvive == Spec => []AckedJobsSurvive
<1>1. Inv => AckedJobsSurvive
  BY DEF Inv
<1> QED
  BY <1>1, Invariance, PTL

(* Only BeginJob hands a job to the handler. *)
LEMMA StartsOnlyInBegin ==
    ASSUME TypeOK, [Next]_vars, NEW id \in JobIds, Starts(id)
    PROVE  BeginJob
<1>1. cur = Nil /\ cur' # Nil
  BY DEF Starts, JobIds, Nil
<1> QED
  BY <1>1 DEF Next, vars, Tick, BootUnreadable, Boot, Stop, LoopExit, Exit, Crash,
     ProcessGone, CheckJobs, FinishJob, AddJob, RemoveJob, EnableJob

(* A one-shot runs at most once in its life, and not before its instant. *)
THEOREM OneShotsRunOnce == Spec => OneShotRunsOnce
<1>1. Inv /\ [Next]_vars =>
        [\A id \in JobIds :
            Starts(id) /\ ~Recurring(sched[id])
                => lastStart[id] = Nil /\ now >= sched[id].arg]_vars
  <2> SUFFICES ASSUME Inv, [Next]_vars, NEW id \in JobIds,
                      Starts(id), ~Recurring(sched[id])
               PROVE  lastStart[id] = Nil /\ now >= sched[id].arg
    OBVIOUS
  <2>1. id \in due
    BY StartsOnlyInBegin DEF Inv, BeginJob, Starts
  <2>2. now \in Nat /\ sched[id].arg \in Nat
    BY DEF Inv, TypeOK, Instants, Schedules, Recurring
  <2> QED
    BY <2>1, <2>2 DEF Inv, OneShotInv
<1> QED
  BY <1>1, Invariance, PTL DEF Spec, OneShotRunsOnce

(* Two runs of a recurring job are at least one period apart. *)
THEOREM RecurringRunsAreSpaced == Spec => RecurringRunsSpaced
<1>1. Inv /\ [Next]_vars =>
        [\A id \in JobIds :
            Starts(id) /\ Recurring(sched[id]) /\ lastStart[id] # Nil
                => now >= ComputeNextRun(sched[id], lastStart[id])]_vars
  <2> SUFFICES ASSUME Inv, [Next]_vars, NEW id \in JobIds,
                      Starts(id), Recurring(sched[id]), lastStart[id] # Nil
               PROVE  now >= ComputeNextRun(sched[id], lastStart[id])
    OBVIOUS
  <2>1. id \in due
    BY StartsOnlyInBegin DEF Inv, BeginJob, Starts
  <2> QED
    BY <2>1 DEF Inv, SpacedInv
<1> QED
  BY <1>1, Invariance, PTL DEF Spec, RecurringRunsSpaced

-----------------------------------------------------------------------------
(* What is armed, and for when. *)

(* No enabled recurring job is armed beyond the next run its schedule      *)
(* gives from now.                                                         *)
NextRunWithinPeriod ==
    \A id \in DOMAIN jobs :
        jobs[id].enabled /\ Recurring(sched[id]) /\ jobs[id].next # Nil
            => jobs[id].next <= ComputeNextRun(sched[id], now)

(* An enabled one-shot whose instant is still to come is armed for it. *)
RemindersArmedUntilDue ==
    \A id \in DOMAIN jobs :
        jobs[id].enabled /\ ~Recurring(sched[id]) /\ sched[id].arg > now
            => jobs[id].next = sched[id].arg

(* A job of a process that is up: where it comes from, step by step.  A    *)
(* next run is nil, has been there before, or is what computeNextRun gives *)
(* for the current instant.                                                *)
LEMMA NextRunOrigin ==
    ASSUME TypeOK, [Next]_vars, NEW id \in DOMAIN jobs', jobs'[id].enabled
    PROVE  \/ /\ id \in DOMAIN jobs /\ jobs'[id] = jobs[id]
              /\ sched'[id] = sched[id] /\ now <= now'
           \/ CheckJobs /\ id \in DOMAIN jobs /\ jobs[id].enabled /\ id \in DueJobs
              /\ jobs'[id].next = Nil /\ sched'[id] = sched[id] /\ now' = now
           \/ CheckJobs /\ id \in DOMAIN jobs /\ jobs[id].enabled
              /\ jobs'[id].next = jobs[id].next /\ sched'[id] = sched[id] /\ now' = now
           \/ now' = now /\ jobs'[id].next = ComputeNextRun(sched'[id], now)
<1>1. CASE Tick
  BY <1>1 DEF Tick, TypeOK, Instants
<1>2. CASE BootUnreadable \/ Exit \/ Crash
  BY <1>2, EmptyIsStore DEF BootUnreadable, Exit, Crash, ProcessGone
<1>3. CASE Boot
  BY <1>3, BootEffect DEF Boot
<1>4. CASE Stop \/ LoopExit \/ BeginJob \/ UNCHANGED vars
  BY <1>4 DEF Stop, LoopExit, BeginJob, vars, TypeOK, Instants
<1>5. CASE CheckJobs
  BY <1>5, CheckEffect DEF CheckJobs
<1>6. CASE FinishJob
  <2>1. sched' = sched /\ now' = now /\ now <= now
    BY <1>6 DEF FinishJob, TypeOK, Instants
  <2> QED
    BY <1>6, <2>1, FinishEffect
<1>7. CASE AddJob
  <2>1. now' = now /\ now <= now
    BY <1>7 DEF AddJob, TypeOK, Instants
  <2>2. \A i \in DOMAIN jobs : i \in JobIds
    BY DEF TypeOK, IsStore
  <2> QED
    BY <1>7, <2>1, <2>2, AddEffect
<1>8. CASE RemoveJob
  <2>1. sched' = sched /\ now' = now /\ now <= now
    BY <1>8 DEF RemoveJob, TypeOK, Instants
  <2> QED
    BY <1>8, <2>1, RemoveEffect
<1>9. CASE EnableJob
  <2>1. sched' = sched /\ now' = now /\ now <= now
    BY <1>9 DEF EnableJob, TypeOK, Instants
  <2> QED
    BY <1>9, <2>1, EnableEffect
<1> QED
  BY <1>1, <1>2, <1>3, <1>4, <1>5, <1>6, <1>7, <1>8, <1>9 DEF Next

(* A recurring job does not wait longer than its schedule says: whatever   *)
(* enable calls, runs, restarts and saves that fail lie behind it, its     *)
(* next run is at most the one computeNextRun gives now                    *)
(* (service.go:211, 235, 346).                                             *)
THEOREM RecurringJobsComeInTime == Spec => []NextRunWithinPeriod
<1>1. Init => NextRunWithinPeriod
  BY EmptyIsStore DEF Init, NextRunWithinPeriod
<1>2. TypeOK /\ TypeOK' /\ NextRunWithinPeriod /\ [Next]_vars => NextRunWithinPeriod'
  <2> SUFFICES ASSUME TypeOK, TypeOK', NextRunWithinPeriod, [Next]_vars,
                      NEW id \in DOMAIN jobs', jobs'[id].enabled, Recurring(sched'[id]),
                      jobs'[id].next # Nil
               PROVE  jobs'[id].next <= ComputeNextRun(sched'[id], now')
    BY DEF NextRunWithinPeriod
  <2>1. now \in Instants /\ now' \in Instants /\ sched'[id] \in Schedules
    BY DEF TypeOK, IsStore
  <2>2. CASE /\ id \in DOMAIN jobs /\ jobs'[id] = jobs[id]
             /\ sched'[id] = sched[id] /\ now <= now'
    <3>1. jobs[id].next <= ComputeNextRun(sched[id], now) /\ jobs[id].next \in Nat
      BY <2>2 DEF NextRunWithinPeriod, TypeOK, IsStore, JobStates
    <3>2. ComputeNextRun(sched[id], now) <= ComputeNextRun(sched[id], now')
      BY <2>1, <2>2, NextRunMonotone
    <3>3. ComputeNextRun(sched[id], now) \in Nat /\ ComputeNextRun(sched[id], now') \in Nat
      BY <2>1, <2>2, NextRunType
    <3> QED
      BY <2>2, <3>1, <3>2, <3>3
  <2>3. CASE CheckJobs /\ id \in DOMAIN jobs /\ jobs[id].enabled
             /\ jobs'[id].next = jobs[id].next /\ sched'[id] = sched[id] /\ now' = now
    BY <2>3 DEF NextRunWithinPeriod
  <2>4. CASE now' = now /\ jobs'[id].next = ComputeNextRun(sched'[id], now)
    <3>1. ComputeNextRun(sched'[id], now) \in Nat
      BY <2>1, NextRunType
    <3> QED
      BY <2>4, <3>1
  <2> QED
    BY <2>2, <2>3, <2>4, NextRunOrigin
<1> QED
  BY <1>1, <1>2, TypeCorrect, PTL DEF Spec

(* An enabled reminder whose instant is still to come is armed for that    *)
(* instant: what RemindersStayArmed finds broken is confined to reminders  *)
(* that are re-armed when their time has come (service.go:225).            *)
THEOREM RemindersAreArmedUntilDue == Spec => []RemindersArmedUntilDue
<1>1. Init => RemindersArmedUntilDue
  BY EmptyIsStore DEF Init, RemindersArmedUntilDue
<1>2. TypeOK /\ TypeOK' /\ RemindersArmedUntilDue /\ [Next]_vars => RemindersArmedUntilDue'
  <2> SUFFICES ASSUME TypeOK, TypeOK', RemindersArmedUntilDue, [Next]_vars,
                      NEW id \in DOMAIN jobs', jobs'[id].enabled, ~Recurring(sched'[id]),
                      sched'[id].arg > now'
               PROVE  jobs'[id].next = sched'[id].arg
    BY DEF RemindersArmedUntilDue
  <2>1. now \in Nat /\ now' \in Nat /\ sched'[id] \in Schedules /\ sched'[id].arg \in Nat
    BY DEF TypeOK, IsStore, Instants, Schedules, Recurring
  <2>2. CASE /\ id \in DOMAIN jobs /\ jobs'[id] = jobs[id]
             /\ sched'[id] = sched[id] /\ now <= now'
    BY <2>1, <2>2 DEF RemindersArmedUntilDue
  <2>3. CASE CheckJobs /\ id \in DOMAIN jobs /\ jobs[id].enabled /\ id \in DueJobs
             /\ jobs'[id].next = Nil /\ sched'[id] = sched[id] /\ now' = now
    <3>1. jobs[id].next <= now /\ jobs[id].next = sched[id].arg
      BY <2>3 DEF DueJobs, RemindersArmedUntilDue
    <3> QED
      BY <2>1, <2>3, <3>1
  <2>4. CASE CheckJobs /\ id \in DOMAIN jobs /\ jobs[id].enabled
             /\ jobs'[id].next = jobs[id].next /\ sched'[id] = sched[id] /\ now' = now
    BY <2>4 DEF RemindersArmedUntilDue
  <2>5. CASE now' = now /\ jobs'[id].next = ComputeNextRun(sched'[id], now)
    BY <2>1, <2>5 DEF ComputeNextRun, Recurring
  <2> QED
    BY <2>2, <2>3, <2>4, <2>5, NextRunOrigin
<1> QED
  BY <1>1, <1>2, TypeCorrect, PTL DEF Spec

-----------------------------------------------------------------------------
(* The safety part of DueJobsAreServed: what a due job and a batch may     *)
(* come to, and that the run loop can always go on.                        *)

(* The step leaves every other job of the list as it is. *)
OnlyOn(id) ==
    \A i \in DOMAIN jobs \ {id} : i \in DOMAIN jobs' /\ jobs'[i] = jobs[i]

(* A due job of a running service stays due until it is collected, unless  *)
(* a call on this very job or the end of its own run comes first.          *)
DueJobsWait ==
    [][\A id \in JobIds :
          running /\ id \in DueJobs =>
              \/ id \in DueJobs' \/ id \in due'
              \/ ~running'
              \/ (RemoveJob \/ EnableJob) /\ OnlyOn(id)
              \/ FinishJob /\ cur = id]_vars

(* What is collected is handed to the handler, job by job, and nothing     *)
(* joins a batch that has begun; only the end of the process cuts it off.  *)
BatchesAreWorkedOff ==
    [][loop = "exec" =>
          /\ due' \subseteq due
          /\ \A id \in due : id \in due' \/ Starts(id) \/ ~up'
          /\ cur # Nil => cur' = cur \/ FinishJob \/ ~up'
          /\ loop' = "idle" => due' = {} /\ cur' = Nil]_vars

(* The loop of a running service is there, and one that executes is in a   *)
(* handler or has a first job to hand over.                                *)
LoopGoesOn ==
    /\ running => loop # "off"
    /\ loop = "exec" /\ cur = Nil => \E id \in due : \A i \in due : id <= i

(* While the service runs only a save that fails can part the file from    *)
(* the list: every other step that changes the list, and every tick,       *)
(* leaves the two equal.  This is the safety part of FailedSavesHeal.      *)
FileKeepsUp ==
    [][running' /\ faults' = faults
          /\ (~running \/ disk = jobs \/ jobs' # jobs \/ CheckJobs)
              => disk' = jobs']_vars

(* A tool call that takes a job out or re-arms it leaves the others alone. *)
LEMMA CallsTouchOneJob ==
    ASSUME TypeOK, RemoveJob \/ EnableJob, NEW id \in DOMAIN jobs,
           id \notin DOMAIN jobs' \/ jobs'[id] # jobs[id]
    PROVE  OnlyOn(id)
<1>1. CASE RemoveJob
  <2>1. PICK j \in DOMAIN jobs : DOMAIN jobs' = DOMAIN jobs \ {j}
                                  /\ \A i \in DOMAIN jobs' : jobs'[i] = jobs[i]
    BY <1>1, RemoveEffect
  <2> QED
    BY <2>1 DEF OnlyOn
<1>2. CASE EnableJob
  <2>1. PICK j \in DOMAIN jobs : \E v : jobs' = [jobs EXCEPT ![j] = v]
    BY <1>2 DEF EnableJob
  <2> QED
    BY <2>1 DEF OnlyOn
<1> QED
  BY <1>1, <1>2

(* A due job is not lost between two ticks (service.go:139-162).           *)
THEOREM DueJobsAreKept == Spec => DueJobsWait
<1>1. Inv /\ [Next]_vars =>
        [\A id \in JobIds :
          running /\ id \in DueJobs =>
              \/ id \in DueJobs' \/ id \in due'
              \/ ~running'
              \/ (RemoveJob \/ EnableJob) /\ OnlyOn(id)
              \/ FinishJob /\ cur = id]_vars
  <2> SUFFICES ASSUME TypeOK, Generated, [Next]_vars, NEW id \in JobIds, running,
                      id \in DueJobs, id \notin DueJobs', running'
               PROVE  \/ id \in due'
                      \/ (RemoveJob \/ EnableJob) /\ OnlyOn(id)
                      \/ FinishJob /\ cur = id
    BY DEF Inv
  <2>1. /\ id \in DOMAIN jobs /\ jobs[id].enabled /\ jobs[id].next # Nil /\ jobs[id].next <= now
        /\ jobs[id].next \in Nat /\ now \in Nat
    BY DEF DueJobs, TypeOK, IsStore, JobStates, Instants
  <2>2. now' >= now => id \notin DOMAIN jobs' \/ jobs'[id] # jobs[id]
    <3>1. CASE now' = now
      BY <2>1, <3>1 DEF DueJobs
    <3>2. ASSUME now' >= now, now' \in Nat, id \in DOMAIN jobs', jobs'[id] = jobs[id] PROVE FALSE
      BY <2>1, <3>2 DEF DueJobs
    <3>3. now' = now \/ now' = now + 1
      BY DEF Next, vars, Tick, BootUnreadable, Boot, Stop, LoopExit, Exit, Crash,
             ProcessGone, CheckJobs, BeginJob, FinishJob, AddJob, RemoveJob, EnableJob
    <3> QED
      BY <2>1, <3>1, <3>2, <3>3
  <2>3. CASE Tick \/ Stop \/ LoopExit \/ BeginJob \/ UNCHANGED vars
    BY <2>1, <2>2, <2>3 DEF Tick, Stop, LoopExit, BeginJob, vars
  <2>4. CASE BootUnreadable \/ Boot \/ Exit \/ Crash
    BY <2>4 DEF BootUnreadable, Boot, Exit, Crash, ProcessGone, TypeOK
  <2>5. CASE CheckJobs
    BY <2>5 DEF CheckJobs
  <2>6. CASE FinishJob
    BY <2>1, <2>2, <2>6, FinishEffect DEF FinishJob
  <2>7. CASE AddJob
    <3>1. id # created + 1
      BY <2>1 DEF Generated, TypeOK
    <3>2. id \in DOMAIN jobs' /\ jobs'[id] = jobs[id]
      BY <2>1, <2>7, <3>1, AddEffect
    <3>3. now' = now
      BY <2>7 DEF AddJob
    <3> QED
      BY <2>1, <2>2, <3>2, <3>3
  <2>8. CASE RemoveJob \/ EnableJob
    BY <2>1, <2>2, <2>8, CallsTouchOneJob DEF RemoveJob, EnableJob
  <2> QED
    BY <2>3, <2>4, <2>5, <2>6, <2>7, <2>8 DEF Next
<1> QED
  BY <1>1, Invariance, PTL DEF Spec, DueJobsWait

(* A batch is worked off whole: neither Remove, Disable nor Stop calls a   *)
(* collected job back (service.go:170-173).                                *)
THEOREM BatchesAreFinished == Spec => BatchesAreWorkedOff
<1>1. TypeOK /\ [Next]_vars =>
        [loop = "exec" =>
          /\ due' \subseteq due
          /\ \A id \in due : id \in due' \/ Starts(id) \/ ~up'
          /\ cur # Nil => cur' = cur \/ FinishJob \/ ~up'
          /\ loop' = "idle" => due' = {} /\ cur' = Nil]_vars
  <2> SUFFICES ASSUME TypeOK, [Next]_vars, loop = "exec"
               PROVE  /\ due' \subseteq due
                      /\ \A id \in due : id \in due' \/ Starts(id) \/ ~up'
                      /\ cur # Nil => cur' = cur \/ FinishJob \/ ~up'
                      /\ loop' = "idle" => due' = {} /\ cur' = Nil
    OBVIOUS
  <2>1. CASE Tick \/ Stop \/ UNCHANGED vars
    BY <2>1 DEF Tick, Stop, vars
  <2>2. CASE BootUnreadable \/ Boot \/ LoopExit \/ CheckJobs
    BY <2>2 DEF BootUnreadable, Boot, LoopExit, CheckJobs, TypeOK
  <2>3. CASE Exit \/ Crash
    BY <2>3 DEF Exit, Crash, ProcessGone
  <2>4. CASE BeginJob
    BY <2>4 DEF BeginJob, Starts
  <2>5. CASE FinishJob
    BY <2>5 DEF FinishJob
  <2>6. CASE AddJob \/ RemoveJob \/ EnableJob
    BY <2>6 DEF AddJob, RemoveJob, EnableJob
  <2> QED
    BY <2>1, <2>2, <2>3, <2>4, <2>5, <2>6 DEF Next
<1> QED
  BY <1>1, TypeCorrect, PTL DEF Spec, BatchesAreWorkedOff

(* The run loop is never at a loss between two jobs: with the theorem      *)
(* above, a batch of n jobs is n hand-overs and n returns of the handler.  *)
THEOREM LoopIsNeverStuck == Spec => []LoopGoesOn
<1> DEFINE InExec == loop = "exec" => cur # Nil \/ due # {}
<1>1. Init => InExec
  BY DEF Init
<1>2. TypeOK /\ InExec /\ [Next]_vars => InExec'
  <2> SUFFICES ASSUME TypeOK, InExec, [Next]_vars, loop' = "exec"
               PROVE  cur' # Nil \/ due' # {}
    OBVIOUS
  <2>1. CASE Tick \/ BootUnreadable \/ Boot \/ Stop \/ LoopExit \/ UNCHANGED vars
    BY <2>1 DEF Tick, BootUnreadable, Boot, Stop, LoopExit, vars
  <2>2. CASE Exit \/ Crash
    BY <2>2 DEF Exit, Crash, ProcessGone
  <2>3. CASE CheckJobs \/ FinishJob
    BY <2>3 DEF CheckJobs, FinishJob
  <2>4. CASE BeginJob
    BY <2>4 DEF BeginJob, TypeOK, JobIds, Nil
  <2>5. CASE AddJob \/ RemoveJob \/ EnableJob
    BY <2>5 DEF AddJob, RemoveJob, EnableJob
  <2> QED
    BY <2>1, <2>2, <2>3, <2>4, <2>5 DEF Next
<1>3. TypeOK /\ InExec => LoopGoesOn
  <2> SUFFICES ASSUME TypeOK, loop = "exec", cur = Nil, due # {}
               PROVE  \E id \in due : \A i \in due : id <= i
    BY DEF LoopGoesOn, TypeOK
  <2>1. due \subseteq Nat
    BY DEF TypeOK, JobIds
  <2>2. PICK id \in due : \A i \in due : <<i, id>> \notin OpToRel(<, Nat)
    BY <2>1, NatLessThanWellFounded, WFMin, Zenon
  <2>3. \A i \in due : ~(i < id)
    BY <2>1, <2>2, Zenon DEF OpToRel
  <2> QED
    BY <2>1, <2>3
<1> QED
  BY <1>1, <1>2, <1>3, TypeCorrect, PTL DEF Spec

(* No operation of a running service forgets to save, and every tick makes *)
(* a failed save good (service.go:164, 218, 354, 380, 404).                *)
THEOREM FilesKeepUp == Spec => FileKeepsUp
<1>1. TypeOK /\ [Next]_vars =>
        [running' /\ faults' = faults
            /\ (~running \/ disk = jobs \/ jobs' # jobs \/ CheckJobs)
                => disk' = jobs']_vars
  <2> SUFFICES ASSUME TypeOK, [Next]_vars, running', faults' = faults,
                      ~running \/ disk = jobs \/ jobs' # jobs \/ CheckJobs
               PROVE  disk' = jobs'
    OBVIOUS
  <2>0. faults + 1 # faults
    BY DEF TypeOK
  <2>1. ASSUME NEW s, SaveLogged(s) PROVE disk' = s
    BY <2>0, <2>1 DEF SaveLogged, Saved, SaveFailed
  <2>2. CASE ~CheckJobs /\ (Tick \/ BootUnreadable \/ Stop \/ LoopExit \/ BeginJob \/ UNCHANGED vars)
    BY <2>2 DEF Tick, BootUnreadable, Stop, LoopExit, BeginJob, vars, TypeOK
  <2>3. CASE Boot
    BY <2>0, <2>3 DEF Boot, Saved, SaveFailed
  <2>4. CASE Exit \/ Crash
    BY <2>4 DEF Exit, Crash, ProcessGone
  <2>5. CASE CheckJobs \/ FinishJob \/ RemoveJob \/ EnableJob
    BY <2>1, <2>5 DEF CheckJobs, FinishJob, RemoveJob, EnableJob
  <2>6. CASE AddJob
    BY <2>0, <2>6 DEF AddJob, Saved, SaveFailed
  <2> QED
    BY <2>2, <2>3, <2>4, <2>5, <2>6 DEF Next
<1> QED
  BY <1>1, TypeCorrect, PTL DEF Spec, FileKeepsUp

(* A list that could not be read is left on the disk, whatever runs, calls *)
(* and ends the process meanwhile, as long as no job is added              *)
(* (service.go:89-91): no other operation of a service without jobs and    *)
(* without a run loop writes the file.                                     *)
THEOREM UnreadListsAreKept == Spec => UnreadListKept
<1>1. TypeOK /\ Generated /\ [Next]_vars =>
        [~running /\ loop = "off" /\ DOMAIN jobs = {} /\ DOMAIN jobs' = {}
           => disk' \in {disk, Torn}]_vars
  <2> SUFFICES ASSUME TypeOK, Generated, [Next]_vars,
                      ~running, loop = "off", DOMAIN jobs = {}, DOMAIN jobs' = {}
               PROVE  disk' \in {disk, Torn}
    OBVIOUS
  <2>1. CASE Tick \/ BootUnreadable \/ Stop \/ LoopExit \/ UNCHANGED vars
    BY <2>1 DEF Tick, BootUnreadable, Stop, LoopExit, vars
  <2>2. CASE Boot
    <3>1. IsStore(disk)
      BY <2>2 DEF Boot, TypeOK
    <3>2. DOMAIN Recomputed(disk) = DOMAIN disk
      BY <3>1, RecomputedIsStore
    <3>3. DOMAIN disk = {}
      BY <2>2, <3>2 DEF Boot
    <3>4. Recomputed(disk) = disk
      BY <3>1, <3>3 DEF Recomputed, IsStore
    <3> QED
      BY <2>2, <3>4 DEF Boot, Saved, SaveFailed
  <2>3. CASE Exit \/ Crash
    BY <2>3 DEF Exit, Crash, ProcessGone
  <2>4. CASE CheckJobs \/ BeginJob \/ FinishJob
    BY <2>4 DEF CheckJobs, BeginJob, FinishJob
  <2>5. CASE AddJob
    BY <2>5, AddEffect
  <2>6. CASE RemoveJob \/ EnableJob
    BY <2>6 DEF RemoveJob, EnableJob
  <2> QED
    BY <2>1, <2>2, <2>3, <2>4, <2>5, <2>6 DEF Next
<1> QED
  BY <1>1, Invariance, PTL DEF Spec, Inv, UnreadListKept

=============================================================================
