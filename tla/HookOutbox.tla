----------------------------- MODULE HookOutbox -----------------------------
(***************************************************************************)
(* The outbox of durable hooks (service/hooks/outbox.py) as the processes  *)
(* that share one configuration directory use it: the hook manager that    *)
(* dispatches and recovers jobs (service/hooks/manager.py) and the worker  *)
(* of a detached hook, which outlives it (detached_worker.py).             *)
(*                                                                         *)
(* A job is one file that moves from pending/ to done/ or failed/.  Nobody *)
(* locks it: each task, worker and recovery scan works on a copy of its    *)
(* own, and writes the whole of it.  The age of a file is fresh or old     *)
(* (outbox_retry_age_seconds).  A move is two file operations that a crash *)
(* can separate, and nothing else.                                         *)
(***************************************************************************)
EXTENDS Naturals, FiniteSets

CONSTANTS
    Procs,          \* chrys processes that share the outbox
    Jobs,           \* durable jobs; ids are never reused
    Knows,          \* the jobs whose hook each process has configured
    Detached,       \* those whose hook it has configured as detached
    MaxRetries,     \* outbox_max_retries
    MaxCrashes,     \* bound: processes and workers killed
    MaxFailures,    \* bound: moves and stamps that fail
    NoFile

ASSUME OutboxAssumption ==
    /\ Knows \in [Procs -> SUBSET Jobs]
    /\ Detached \in [Procs -> SUBSET Jobs]
    /\ {MaxRetries, MaxCrashes, MaxFailures} \subseteq Nat
    /\ NoFile \notin [retries : Nat, old : BOOLEAN]

\* Who can have a copy of a job under way: the task of a process, and the
\* worker it spawned.  A process has one worker per job at a time.
Runners == Procs \X {"task", "worker"}

Idle == [pc |-> "none", retries |-> 0]

VARIABLES
    pending,    \* pending/{job}.json, or NoFile
    done,       \* jobs with a file in done/
    failed,     \* jobs with a file in failed/
    up,         \* processes that run
    scan,       \* copies recover_outbox has read and not yet dealt with
    copy,       \* the copy each runner works on, and where it stands
    created,    \* ghost: jobs ever written
    starts,     \* ghost: times the hook was started, counted up to MaxRetries
    passed,     \* ghost: jobs whose hook exited with 0
    rejected,   \* ghost: jobs whose hook failed, timed out or did not launch
    unknown,    \* ghost: jobs given up because their hook was not found
    spent       \* what of each bound is used up

files  == <<pending, done, failed>>
ghosts == <<created, starts, passed, rejected, unknown>>
vars   == <<files, up, scan, copy, ghosts, spent>>

Init == /\ pending = [j \in Jobs |-> NoFile]
        /\ done = {} /\ failed = {}
        /\ up = Procs
        /\ scan = [p \in Procs |-> [j \in Jobs |-> NoFile]]
        /\ copy = [r \in Runners |-> [j \in Jobs |-> Idle]]
        /\ created = {}
        /\ starts = [j \in Jobs |-> 0]
        /\ passed = {} /\ rejected = {} /\ unknown = {}
        /\ spent = [crashes |-> 0, failures |-> 0]

Task(p) == <<p, "task">>
Worker(p) == <<p, "worker">>

SetCopy(r, j, pc, retries) ==
    copy' = [copy EXCEPT ![r][j] = [pc |-> pc, retries |-> retries]]

Moving == {"passed", "failed", "unlink"}

-----------------------------------------------------------------------------
\* Dispatch and start.

\* The pending file is written before the awaited start marker and before the
\* task that will run the hook exists.
Dispatch(p, j) ==
    /\ p \in up /\ j \in Knows[p] \ created
    /\ pending' = [pending EXCEPT ![j] = [retries |-> 0, old |-> FALSE]]
    /\ created' = created \cup {j}
    /\ SetCopy(Task(p), j, "queued", 0)
    /\ UNCHANGED <<done, failed, up, scan, starts, passed, rejected, unknown, spent>>

\* mark_started: the runner's copy, with one more start, replaces whatever is
\* in pending/ now, a file that another process has moved away included.
Stamped(retries) == [retries |-> retries + 1, old |-> FALSE]

\* The task has its slot.  A detached hook goes to its worker, which gets the
\* copy; its task is over.
Start(p, j) ==
    /\ p \in up
    /\ copy[Task(p)][j].pc = "queued"
    /\ LET old == copy[Task(p)][j].retries
           new == Stamped(old).retries IN
       /\ pending' = [pending EXCEPT ![j] = Stamped(old)]
       /\ IF j \in Detached[p]
          THEN /\ copy[Worker(p)][j] = Idle
               /\ copy' = [copy EXCEPT ![Task(p)][j] = Idle,
                                       ![Worker(p)][j] = [pc |-> "running", retries |-> new]]
          ELSE SetCopy(Task(p), j, "running", new)
    /\ starts' = [starts EXCEPT ![j] = IF @ < MaxRetries THEN @ + 1 ELSE @]
    /\ UNCHANGED <<done, failed, up, scan, created, passed, rejected, unknown, spent>>

\* The stamp cannot be written: the job fails without its hook being run.
\* The count in the copy has gone up, but nobody reads it any more.
StampFails(p, j) ==
    /\ p \in up
    /\ copy[Task(p)][j].pc = "queued"
    /\ spent.failures < MaxFailures
    /\ spent' = [spent EXCEPT !.failures = @ + 1]
    /\ SetCopy(Task(p), j, "failed", copy[Task(p)][j].retries)
    /\ rejected' = rejected \cup {j}
    /\ UNCHANGED <<files, up, scan, created, starts, passed, unknown>>

\* The hook exits with 0, or fails in any other way.
Exit(r, j) ==
    /\ copy[r][j].pc = "running"
    /\ \/ /\ SetCopy(r, j, "passed", copy[r][j].retries)
          /\ passed' = passed \cup {j} /\ UNCHANGED rejected
       \/ /\ SetCopy(r, j, "failed", copy[r][j].retries)
          /\ rejected' = rejected \cup {j} /\ UNCHANGED passed
    /\ UNCHANGED <<files, up, scan, created, starts, unknown, spent>>

-----------------------------------------------------------------------------
\* The move out of pending/.

\* Mutant of WriteResult: the pending file goes first.
UnlinkFirst(r, j) ==
    /\ copy[r][j].pc \in {"passed", "failed"}
    /\ pending[j] # NoFile
    /\ pending' = [pending EXCEPT ![j] = NoFile]
    /\ UNCHANGED <<done, failed, up, scan, copy, ghosts, spent>>

\* The file is written in done/ or failed/ ...
WriteResult(r, j) ==
    /\ copy[r][j].pc \in {"passed", "failed"}
    /\ IF copy[r][j].pc = "passed"
       THEN done' = done \cup {j} /\ UNCHANGED failed
       ELSE failed' = failed \cup {j} /\ UNCHANGED done
    /\ SetCopy(r, j, "unlink", copy[r][j].retries)
    /\ UNCHANGED <<pending, up, scan, ghosts, spent>>

\* ... and then taken out of pending/, where it may no longer be.
Unlink(r, j) ==
    /\ copy[r][j].pc = "unlink"
    /\ pending' = [pending EXCEPT ![j] = NoFile]
    /\ SetCopy(r, j, "none", 0)
    /\ UNCHANGED <<done, failed, up, scan, ghosts, spent>>

\* Either operation fails and the error is suppressed: the job is left as it
\* is for the next startup.
MoveFails(r, j) ==
    /\ copy[r][j].pc \in Moving
    /\ spent.failures < MaxFailures
    /\ spent' = [spent EXCEPT !.failures = @ + 1]
    /\ SetCopy(r, j, "none", 0)
    /\ UNCHANGED <<files, up, scan, ghosts>>

-----------------------------------------------------------------------------
\* Recovery at startup.

Age(j) ==
    /\ pending[j] # NoFile /\ ~pending[j].old
    /\ pending' = [pending EXCEPT ![j].old = TRUE]
    /\ UNCHANGED <<done, failed, up, scan, copy, ghosts, spent>>

\* Mutant of Stale: only jobs that were started are old.
StaleIfStarted(file) == file # NoFile /\ file.old /\ file.retries > 0

\* The age of a job that was never started is counted from its creation.
Stale(file) == file # NoFile /\ file.old

Startup(p) ==
    /\ p \notin up
    /\ up' = up \cup {p}
    /\ scan' = [scan EXCEPT ![p] =
                   [j \in Jobs |-> IF Stale(pending[j]) THEN pending[j] ELSE NoFile]]
    /\ UNCHANGED <<files, copy, ghosts, spent>>

\* Mutant of Exhausted: the start to come is counted too.
ExhaustedBefore(file) == file.retries + 1 >= MaxRetries

Exhausted(file) == file.retries >= MaxRetries

\* A job that had its starts, or whose hook this process does not have, is
\* moved to failed/ without being run; any other one is queued again.
Recover(p, j) ==
    /\ p \in up
    /\ scan[p][j] # NoFile
    /\ copy[Task(p)][j] = Idle
    /\ scan' = [scan EXCEPT ![p][j] = NoFile]
    /\ IF Exhausted(scan[p][j]) \/ j \notin Knows[p]
       THEN SetCopy(Task(p), j, "failed", scan[p][j].retries)
       ELSE SetCopy(Task(p), j, "queued", scan[p][j].retries)
    /\ unknown' = IF ~Exhausted(scan[p][j]) /\ j \notin Knows[p]
                  THEN unknown \cup {j} ELSE unknown
    /\ UNCHANGED <<files, up, created, starts, passed, rejected, spent>>

-----------------------------------------------------------------------------
\* The end of a process.

Leave(p) ==
    /\ up' = up \ {p}
    /\ scan' = [scan EXCEPT ![p] = [j \in Jobs |-> NoFile]]
    /\ copy' = [copy EXCEPT ![Task(p)] = [j \in Jobs |-> Idle]]
    /\ UNCHANGED <<files, ghosts>>

\* Recovery and the hooks that outlast the grace period are cancelled; their
\* jobs stay pending.  A move is not interrupted.
Shutdown(p) ==
    /\ p \in up
    /\ \A j \in Jobs : copy[Task(p)][j].pc \notin Moving
    /\ Leave(p)
    /\ UNCHANGED spent

Crash(p) ==
    /\ p \in up
    /\ spent.crashes < MaxCrashes
    /\ spent' = [spent EXCEPT !.crashes = @ + 1]
    /\ Leave(p)

\* A worker is killed on its own, or never came to read its invocation.
WorkerDies(p, j) ==
    /\ copy[Worker(p)][j].pc # "none"
    /\ spent.crashes < MaxCrashes
    /\ spent' = [spent EXCEPT !.crashes = @ + 1]
    /\ SetCopy(Worker(p), j, "none", 0)
    /\ UNCHANGED <<files, up, scan, ghosts>>

-----------------------------------------------------------------------------
Next ==
    \/ \E p \in Procs : Startup(p) \/ Shutdown(p) \/ Crash(p)
    \/ \E p \in Procs, j \in Jobs : \/ Dispatch(p, j) \/ Start(p, j) \/ StampFails(p, j)
                                    \/ Recover(p, j) \/ WorkerDies(p, j)
    \/ \E r \in Runners, j \in Jobs : \/ Exit(r, j) \/ WriteResult(r, j)
                                      \/ Unlink(r, j) \/ MoveFails(r, j)
    \/ \E j \in Jobs : Age(j)

Spec == Init /\ [][Next]_vars

\* Time passes, hooks end and files are moved.  Beyond the code it is assumed
\* that chrys is closed and started again, and that a process which has a job
\* to recover or to start again and again does so in the end.
Fairness ==
    /\ \A j \in Jobs : WF_vars(Age(j))
    /\ \A p \in Procs : WF_vars(Startup(p)) /\ WF_vars(Shutdown(p))
    /\ \A p \in Procs, j \in Jobs : SF_vars(Recover(p, j)) /\ SF_vars(Start(p, j))
    /\ \A r \in Runners, j \in Jobs :
          WF_vars(Exit(r, j)) /\ WF_vars(WriteResult(r, j) \/ Unlink(r, j))

FairSpec == Spec /\ Fairness

-----------------------------------------------------------------------------
TypeOK ==
    /\ pending \in [Jobs -> [retries : Nat, old : BOOLEAN] \cup {NoFile}]
    /\ done \subseteq Jobs /\ failed \subseteq Jobs
    /\ up \subseteq Procs
    /\ scan \in [Procs -> [Jobs -> [retries : Nat, old : BOOLEAN] \cup {NoFile}]]
    /\ copy \in [Runners -> [Jobs -> [pc : {"none", "queued", "running"} \cup Moving,
                                      retries : Nat]]]
    /\ created \subseteq Jobs
    /\ starts \in [Jobs -> Nat]
    /\ passed \subseteq Jobs /\ rejected \subseteq Jobs /\ unknown \subseteq Jobs
    /\ spent \in [crashes : Nat, failures : Nat]

\* Once written, a job has a file in some directory at every moment, whatever
\* crashes, fails or is moved by two processes at once.
NoJobLost == \A j \in created : pending[j] # NoFile \/ j \in done \cup failed

\* The directory tells the truth: a job in done/ ran to exit 0, one in
\* failed/ ran and failed, or could not be run, or was started as often as
\* allowed, or has no hook in some process that came upon it.
OutcomeIsTrue ==
    /\ done \subseteq passed
    /\ \A j \in failed : j \in rejected \cup unknown \/ starts[j] >= MaxRetries

\* At-least-once (outbox.py:21): a job that is given up has been started.
TriedBeforeGivenUp == \A j \in failed : MaxRetries > 0 => starts[j] > 0

\* Every job is settled in the end, if processes come and go.
EveryJobSettles == \A j \in Jobs : j \in created ~> j \in done \cup failed
=============================================================================
