-------------------------- MODULE HookOutboxProofs --------------------------
(***************************************************************************)
(* Theorems about HookOutbox, for any number of processes and jobs, any    *)
(* configuration of each process and any limit on retries: a job that was  *)
(* written is in some directory for ever, and the directory it ends in     *)
(* tells the truth about its hook.                                         *)
(***************************************************************************)
EXTENDS HookOutbox, TLAPS

USE OutboxAssumption DEF OutboxAssumption

-----------------------------------------------------------------------------
(* Types.                                                                  *)

FileOrNone == [retries : Nat, old : BOOLEAN] \cup {NoFile}

Copies == [pc : {"none", "queued", "running"} \cup Moving, retries : Nat]

LEMMA RunnersAre == \A p \in Procs : Task(p) \in Runners /\ Worker(p) \in Runners
BY DEF Task, Worker, Runners

\* A runner's new copy is a copy.
LEMMA SetCopyTyped ==
  ASSUME copy \in [Runners -> [Jobs -> Copies]],
         NEW r \in Runners, NEW j \in Jobs, NEW n \in Nat,
         NEW c \in {"none", "queued", "running"} \cup Moving, SetCopy(r, j, c, n)
  PROVE  copy' \in [Runners -> [Jobs -> Copies]]
BY DEF SetCopy, Copies

LEMMA FilesAreFiles == \A n \in Nat, b \in BOOLEAN : [retries |-> n, old |-> b] # NoFile
OBVIOUS

\* The two bounds are counted one at a time.
LEMMA SpentTyped ==
  ASSUME spent \in [crashes : Nat, failures : Nat]
  PROVE  /\ [spent EXCEPT !.crashes = @ + 1] \in [crashes : Nat, failures : Nat]
         /\ [spent EXCEPT !.failures = @ + 1] \in [crashes : Nat, failures : Nat]
OBVIOUS

LEMMA FreshTyped == Idle \in Copies
BY DEF Idle, Copies

\* The end of a process leaves files, ghosts and workers alone.
LEMMA LeaveTyped ==
  ASSUME TypeOK, NEW p \in Procs, Leave(p)
  PROVE  /\ copy' \in [Runners -> [Jobs -> Copies]]
         /\ scan' \in [Procs -> [Jobs -> FileOrNone]]
         /\ up' \subseteq Procs
BY RunnersAre, FreshTyped DEF TypeOK, Leave, FileOrNone, Copies

\* Every variable keeps its type: HookOutbox's TypeOK, for any constants.
THEOREM OutboxTyped == Spec => []TypeOK
<1>1. Init => TypeOK
  BY FreshTyped DEF Init, TypeOK, Copies
<1>2. TypeOK /\ [Next]_vars => TypeOK'
  <2> SUFFICES ASSUME TypeOK, [Next]_vars PROVE TypeOK'
    OBVIOUS
  <2> USE RunnersAre DEF Moving
  <2>0. CASE UNCHANGED vars
    BY <2>0 DEF vars, files, ghosts, TypeOK
  <2>1. ASSUME NEW p \in Procs, Startup(p) PROVE TypeOK'
    BY <2>1 DEF Startup, Stale, TypeOK, files, ghosts
  <2>2. ASSUME NEW p \in Procs, Shutdown(p) PROVE TypeOK'
    BY <2>2, LeaveTyped DEF Shutdown, Leave, TypeOK, files, ghosts, Copies, FileOrNone
  <2>3. ASSUME NEW p \in Procs, Crash(p) PROVE TypeOK'
    <3>1. spent' \in [crashes : Nat, failures : Nat]
      BY <2>3, SpentTyped DEF Crash, TypeOK
    <3> QED BY <2>3, <3>1, LeaveTyped DEF Crash, Leave, TypeOK, files, ghosts, Copies, FileOrNone
  <2>4. ASSUME NEW p \in Procs, NEW j \in Jobs, Dispatch(p, j) PROVE TypeOK'
    BY <2>4, SetCopyTyped DEF Dispatch, TypeOK, Copies
  <2>5. ASSUME NEW p \in Procs, NEW j \in Jobs, Start(p, j) PROVE TypeOK'
    <3> DEFINE new == Stamped(copy[Task(p)][j].retries)
    <3>1. new \in [retries : Nat, old : BOOLEAN]
      BY DEF Stamped, TypeOK
    <3>2. pending' \in [Jobs -> [retries : Nat, old : BOOLEAN] \cup {NoFile}]
      BY <2>5, <3>1 DEF Start, TypeOK
    <3>3. copy' \in [Runners -> [Jobs -> Copies]]
      <4>1. CASE j \in Detached[p]
        <5>1. [pc |-> "running", retries |-> new.retries] \in Copies
          BY <3>1 DEF Copies
        <5>2. copy' = [copy EXCEPT ![Task(p)][j] = Idle,
                                   ![Worker(p)][j] = [pc |-> "running", retries |-> new.retries]]
          BY <2>5, <4>1 DEF Start
        <5> QED BY <5>1, <5>2, FreshTyped DEF TypeOK, Copies
      <4>2. CASE j \notin Detached[p]
        BY <2>5, <3>1, <4>2, SetCopyTyped DEF Start, TypeOK, Copies
      <4> QED BY <4>1, <4>2
    <3>4. starts' \in [Jobs -> Nat]
      BY <2>5 DEF Start, TypeOK
    <3> QED BY <2>5, <3>2, <3>3, <3>4 DEF Start, TypeOK, Copies
  <2>6. ASSUME NEW p \in Procs, NEW j \in Jobs, Recover(p, j) PROVE TypeOK'
    <3>1. scan[p][j].retries \in Nat
      BY <2>6 DEF Recover, TypeOK
    <3>2. copy' \in [Runners -> [Jobs -> Copies]]
      BY <2>6, <3>1, SetCopyTyped DEF Recover, TypeOK, Copies
    <3> QED BY <2>6, <3>2 DEF Recover, TypeOK, files, Copies
  <2>7. ASSUME NEW p \in Procs, NEW j \in Jobs, WorkerDies(p, j) PROVE TypeOK'
    <3>1. spent' \in [crashes : Nat, failures : Nat]
      BY <2>7, SpentTyped DEF WorkerDies, TypeOK
    <3>2. copy' \in [Runners -> [Jobs -> Copies]]
      BY <2>7, SetCopyTyped DEF WorkerDies, TypeOK, Copies
    <3> QED BY <2>7, <3>1, <3>2 DEF WorkerDies, TypeOK, files, ghosts, Copies
  <2>8. ASSUME NEW r \in Runners, NEW j \in Jobs, Exit(r, j) PROVE TypeOK'
    <3>1. copy[r][j].retries \in Nat
      BY DEF TypeOK
    <3>2. copy' \in [Runners -> [Jobs -> Copies]]
      BY <2>8, <3>1, SetCopyTyped DEF Exit, TypeOK, Copies
    <3> QED BY <2>8, <3>2 DEF Exit, TypeOK, files, Copies
  <2>9. ASSUME NEW r \in Runners, NEW j \in Jobs, WriteResult(r, j) PROVE TypeOK'
    <3>1. copy[r][j].retries \in Nat
      BY DEF TypeOK
    <3>2. copy' \in [Runners -> [Jobs -> Copies]]
      BY <2>9, <3>1, SetCopyTyped DEF WriteResult, TypeOK, Copies
    <3> QED BY <2>9, <3>2 DEF WriteResult, TypeOK, ghosts, Copies
  <2>10. ASSUME NEW r \in Runners, NEW j \in Jobs, Unlink(r, j) PROVE TypeOK'
    BY <2>10, SetCopyTyped DEF Unlink, TypeOK, ghosts, Copies
  <2>11. ASSUME NEW r \in Runners, NEW j \in Jobs, MoveFails(r, j) PROVE TypeOK'
    <3>1. spent' \in [crashes : Nat, failures : Nat]
      BY <2>11, SpentTyped DEF MoveFails, TypeOK
    <3>2. copy' \in [Runners -> [Jobs -> Copies]]
      BY <2>11, SetCopyTyped DEF MoveFails, TypeOK, Copies
    <3> QED BY <2>11, <3>1, <3>2 DEF MoveFails, TypeOK, files, ghosts, Copies
  <2>12. ASSUME NEW j \in Jobs, Age(j) PROVE TypeOK'
    BY ZenonT(60), <2>12 DEF Age, TypeOK, ghosts
  <2>13. ASSUME NEW p \in Procs, NEW j \in Jobs, StampFails(p, j) PROVE TypeOK'
    <3>1. spent' \in [crashes : Nat, failures : Nat]
      BY <2>13, SpentTyped DEF StampFails, TypeOK
    <3>2. copy[Task(p)][j].retries \in Nat
      BY DEF TypeOK
    <3>3. copy' \in [Runners -> [Jobs -> Copies]]
      BY <2>13, <3>2, SetCopyTyped DEF StampFails, TypeOK, Copies
    <3> QED BY <2>13, <3>1, <3>3 DEF StampFails, TypeOK, files, Copies
  <2> QED
    BY <2>0, <2>1, <2>2, <2>3, <2>4, <2>5, <2>6, <2>7, <2>8, <2>9, <2>10, <2>11, <2>12, <2>13 DEF Next
<1> QED BY <1>1, <1>2, PTL DEF Spec

-----------------------------------------------------------------------------
(* No job is lost.                                                         *)

\* NoJobLost with what it rests on: nobody deletes a pending file before the
\* result of the job is in its directory.
LossInv ==
  /\ TypeOK
  /\ \A r \in Runners, j \in Jobs : copy[r][j].pc = "unlink" => j \in done \cup failed
  /\ NoJobLost

\* A step that takes no copy past WriteResult, and no file away.
LEMMA NothingTaken ==
  ASSUME LossInv, TypeOK',
         done \subseteq done', failed \subseteq failed',
         \A r \in Runners, j \in Jobs : copy'[r][j].pc = "unlink" => copy[r][j].pc = "unlink",
         \A j \in created' : pending'[j] # NoFile \/ (j \in created /\ pending'[j] = pending[j])
  PROVE  LossInv'
BY DEF LossInv, NoJobLost, TypeOK

\* A copy that goes anywhere but to its unlinking.
LEMMA SetCopyElsewhere ==
  ASSUME TypeOK, NEW q \in Runners, NEW k \in Jobs, NEW c, NEW n, c # "unlink", SetCopy(q, k, c, n)
  PROVE  \A r \in Runners, j \in Jobs : copy'[r][j].pc = "unlink" => copy[r][j].pc = "unlink"
BY DEF SetCopy, TypeOK

\* A process that goes takes none of its tasks further.
LEMMA LeaveElsewhere ==
  ASSUME TypeOK, NEW p \in Procs, Leave(p)
  PROVE  \A r \in Runners, j \in Jobs : copy'[r][j].pc = "unlink" => copy[r][j].pc = "unlink"
BY RunnersAre DEF Leave, TypeOK, Idle

\* A detached hook: its task ends and its worker has the copy.
LEMMA HandOver ==
  ASSUME TypeOK, NEW p \in Procs, NEW j \in Jobs, Start(p, j), j \in Detached[p]
  PROVE  \A r \in Runners, i \in Jobs :
            \/ copy'[r][i] = copy[r][i]
            \/ copy'[r][i] = Idle
            \/ /\ i = j /\ r = Worker(p)
               /\ copy'[r][i] = [pc |-> "running", retries |-> copy[Task(p)][j].retries + 1]
<1> DEFINE run == [pc |-> "running", retries |-> Stamped(copy[Task(p)][j].retries).retries]
<1>1. copy' = [copy EXCEPT ![Task(p)][j] = Idle, ![Worker(p)][j] = run]
  BY DEF Start
<1>2. Task(p) # Worker(p) /\ Task(p) \in Runners /\ Worker(p) \in Runners
  BY DEF Task, Worker, Runners
<1>3. run = [pc |-> "running", retries |-> copy[Task(p)][j].retries + 1]
  BY DEF Stamped
<1> HIDE DEF run
<1>4. \A r \in Runners, i \in Jobs :
         copy'[r][i] = copy[r][i] \/ copy'[r][i] = Idle \/ (i = j /\ r = Worker(p) /\ copy'[r][i] = run)
  BY <1>1, <1>2 DEF TypeOK
<1> QED BY <1>3, <1>4

\* HookOutbox's NoJobLost: once written, a job has a file in some directory
\* at every moment, with any number of processes, workers and crashes.
THEOREM NoLoss == Spec => []NoJobLost
<1>1. Init => LossInv
  <2> SUFFICES ASSUME Init PROVE LossInv
    OBVIOUS
  <2>1. TypeOK
    BY FreshTyped DEF Init, TypeOK, Copies
  <2> QED BY <2>1 DEF Init, LossInv, NoJobLost, Idle
<1>2. LossInv /\ [Next]_vars /\ TypeOK' => LossInv'
  <2> SUFFICES ASSUME LossInv, [Next]_vars, TypeOK' PROVE LossInv'
    OBVIOUS
  <2>t. TypeOK
    BY DEF LossInv
  <2> USE RunnersAre
  <2>0. CASE UNCHANGED vars
    BY <2>0 DEF vars, files, ghosts, LossInv, NoJobLost
  <2>1. ASSUME NEW p \in Procs, Startup(p) PROVE LossInv'
    BY <2>1, NothingTaken DEF Startup, files, ghosts
  <2>2. ASSUME NEW p \in Procs, Shutdown(p) \/ Crash(p) PROVE LossInv'
    <3>1. Leave(p) /\ UNCHANGED <<files, ghosts>>
      BY <2>2 DEF Shutdown, Crash, Leave
    <3> QED BY <2>t, <3>1, NothingTaken, LeaveElsewhere DEF files, ghosts
  <2>3. ASSUME NEW p \in Procs, NEW j \in Jobs, Dispatch(p, j) PROVE LossInv'
    <3>1. \A r \in Runners, i \in Jobs : copy'[r][i].pc = "unlink" => copy[r][i].pc = "unlink"
      BY <2>3, <2>t, SetCopyElsewhere DEF Dispatch
    <3>2. \A i \in created' : pending'[i] # NoFile \/ (i \in created /\ pending'[i] = pending[i])
      BY <2>3, <2>t, FilesAreFiles DEF Dispatch, TypeOK
    <3> QED BY <2>3, <3>1, <3>2, NothingTaken DEF Dispatch
  <2>4. ASSUME NEW p \in Procs, NEW j \in Jobs, Start(p, j) PROVE LossInv'
    <3>1. \A r \in Runners, i \in Jobs : copy'[r][i].pc = "unlink" => copy[r][i].pc = "unlink"
      <4>1. CASE j \in Detached[p]
        <5> SUFFICES ASSUME NEW r \in Runners, NEW i \in Jobs, copy'[r][i] # copy[r][i]
                     PROVE  copy'[r][i].pc # "unlink"
          OBVIOUS
        <5>1. \/ copy'[r][i] = Idle
              \/ copy'[r][i] = [pc |-> "running", retries |-> copy[Task(p)][j].retries + 1]
          BY <2>4, <2>t, <4>1, HandOver
        <5> QED BY <5>1 DEF Idle
      <4>2. CASE j \notin Detached[p]
        BY <2>4, <2>t, <4>2, SetCopyElsewhere DEF Start
      <4> QED BY <4>1, <4>2
    <3>2. Stamped(copy[Task(p)][j].retries) # NoFile
      <4>1. copy[Task(p)][j].retries \in Nat
        BY <2>t DEF TypeOK
      <4>2. copy[Task(p)][j].retries + 1 \in Nat
        BY <4>1
      <4> QED BY <4>2, FilesAreFiles DEF Stamped
    <3>3. \A i \in created' : pending'[i] # NoFile \/ (i \in created /\ pending'[i] = pending[i])
      BY <2>4, <2>t, <3>2 DEF Start, TypeOK
    <3> QED BY <2>4, <3>1, <3>3, NothingTaken DEF Start
  <2>5. ASSUME NEW p \in Procs, NEW j \in Jobs, Recover(p, j) PROVE LossInv'
    <3>1. PICK c \in {"failed", "queued"} : SetCopy(Task(p), j, c, scan[p][j].retries)
      BY <2>5 DEF Recover
    <3>2. \A r \in Runners, i \in Jobs : copy'[r][i].pc = "unlink" => copy[r][i].pc = "unlink"
      BY <2>t, <3>1, SetCopyElsewhere
    <3> QED BY <2>5, <3>2, NothingTaken DEF Recover, files
  <2>6. ASSUME NEW r \in Runners, NEW j \in Jobs, Exit(r, j) PROVE LossInv'
    <3>1. PICK c \in {"passed", "failed"} : SetCopy(r, j, c, copy[r][j].retries)
      BY <2>6 DEF Exit
    <3>2. \A q \in Runners, i \in Jobs : copy'[q][i].pc = "unlink" => copy[q][i].pc = "unlink"
      BY <2>t, <3>1, SetCopyElsewhere
    <3> QED BY <2>6, <3>2, NothingTaken DEF Exit, files
  <2>11. ASSUME NEW r \in Runners, NEW j \in Jobs, MoveFails(r, j) PROVE LossInv'
    <3>1. \A q \in Runners, i \in Jobs : copy'[q][i].pc = "unlink" => copy[q][i].pc = "unlink"
      BY <2>11, <2>t, SetCopyElsewhere DEF MoveFails
    <3> QED BY <2>11, <3>1, NothingTaken DEF MoveFails, files, ghosts
  <2>7. ASSUME NEW r \in Runners, NEW j \in Jobs, WriteResult(r, j) PROVE LossInv'
    <3>1. done \subseteq done' /\ failed \subseteq failed' /\ j \in done' \cup failed'
      BY <2>7 DEF WriteResult
    <3>2. \A q \in Runners, i \in Jobs : copy'[q][i].pc = "unlink" => copy[q][i].pc = "unlink" \/ i = j
      BY <2>7, <2>t DEF WriteResult, SetCopy, TypeOK
    <3> QED BY <2>7, <3>1, <3>2 DEF WriteResult, LossInv, NoJobLost, ghosts
  <2>8. ASSUME NEW r \in Runners, NEW j \in Jobs, Unlink(r, j) PROVE LossInv'
    <3>1. j \in done \cup failed
      BY <2>8 DEF Unlink, LossInv
    <3>2. \A q \in Runners, i \in Jobs : copy'[q][i].pc = "unlink" => copy[q][i].pc = "unlink"
      BY <2>8, <2>t, SetCopyElsewhere DEF Unlink
    <3>3. \A i \in Jobs : i # j => pending'[i] = pending[i]
      BY <2>8, <2>t DEF Unlink, TypeOK
    <3> QED BY <2>8, <2>t, <3>1, <3>2, <3>3 DEF Unlink, LossInv, NoJobLost, ghosts, TypeOK
  <2>9. ASSUME NEW j \in Jobs, Age(j) PROVE LossInv'
    <3>1. pending[j] \in [retries : Nat, old : BOOLEAN]
      BY <2>9, <2>t DEF Age, TypeOK
    <3>2. [pending[j] EXCEPT !.old = TRUE] # NoFile
      BY <3>1
    <3>3. \A i \in created' : pending'[i] # NoFile \/ (i \in created /\ pending'[i] = pending[i])
      BY <2>9, <2>t, <3>2 DEF Age, ghosts, TypeOK
    <3> QED BY <2>9, <3>3, NothingTaken DEF Age
  <2>10. ASSUME NEW p \in Procs, NEW j \in Jobs, WorkerDies(p, j) PROVE LossInv'
    <3>1. \A q \in Runners, i \in Jobs : copy'[q][i].pc = "unlink" => copy[q][i].pc = "unlink"
      BY <2>10, <2>t, SetCopyElsewhere DEF WorkerDies
    <3> QED BY <2>10, <3>1, NothingTaken DEF WorkerDies, files, ghosts
  <2>12. ASSUME NEW p \in Procs, NEW j \in Jobs, StampFails(p, j) PROVE LossInv'
    <3>1. \A q \in Runners, i \in Jobs : copy'[q][i].pc = "unlink" => copy[q][i].pc = "unlink"
      BY <2>12, <2>t, SetCopyElsewhere DEF StampFails
    <3> QED BY <2>12, <3>1, NothingTaken DEF StampFails, files
  <2> QED
    BY <2>0, <2>1, <2>2, <2>3, <2>4, <2>5, <2>6, <2>7, <2>8, <2>9, <2>10, <2>11, <2>12 DEF Next
<1>3. LossInv => NoJobLost
  BY DEF LossInv
<1> QED BY <1>1, <1>2, <1>3, OutboxTyped, PTL DEF Spec

-----------------------------------------------------------------------------
(* Outcomes.                                                               *)

\* A count of starts that somebody holds is one the hook has had, as far as
\* starts are counted.
Had(n, j) == n <= starts[j] \/ MaxRetries <= starts[j]

GivenUpRightly(j) == j \in rejected \cup unknown \/ starts[j] >= MaxRetries

\* No file, scan or copy counts a start that was none, and a copy that is
\* about to move its job knows why.
PendingHad(j) == pending[j] # NoFile => Had(pending[j].retries, j)

ScanHad(p, j) == scan[p][j] # NoFile => Had(scan[p][j].retries, j)

CopyKnows(r, j) ==
  /\ Had(copy[r][j].retries, j)
  /\ copy[r][j].pc = "passed" => j \in passed
  /\ copy[r][j].pc = "failed" => GivenUpRightly(j)

\* OutcomeIsTrue with what it rests on.
OutcomeInv ==
  /\ TypeOK
  /\ \A j \in Jobs : PendingHad(j)
  /\ \A p \in Procs, j \in Jobs : ScanHad(p, j)
  /\ \A r \in Runners, j \in Jobs : CopyKnows(r, j)
  /\ OutcomeIsTrue

\* What a hook has had, and the reasons to give it up, only grow.
LEMMA ReasonsGrow ==
  ASSUME TypeOK, TypeOK', NEW j \in Jobs,
         starts[j] <= starts'[j], rejected \subseteq rejected', unknown \subseteq unknown'
  PROVE  /\ \A n \in Nat : Had(n, j) => Had(n, j)'
         /\ GivenUpRightly(j) => GivenUpRightly(j)'
<1>1. starts[j] \in Nat /\ starts'[j] \in Nat /\ MaxRetries \in Nat
  BY DEF TypeOK
<1> QED BY <1>1 DEF Had, GivenUpRightly

\* An idle copy claims nothing.
LEMMA IdleKnows ==
  ASSUME TypeOK, NEW r \in Runners, NEW j \in Jobs, copy[r][j] = Idle
  PROVE  CopyKnows(r, j)
<1>1. starts[j] \in Nat
  BY DEF TypeOK
<1> QED BY <1>1 DEF CopyKnows, Idle, Had

\* A step that lets the ghosts grow and leaves the results alone, and in which
\* each file, scan and copy counts what it did before or is as it should be.
LEMMA ReasonsKept ==
  ASSUME OutcomeInv, TypeOK', UNCHANGED <<done, failed>>,
         \A j \in Jobs : starts[j] <= starts'[j],
         passed \subseteq passed', rejected \subseteq rejected', unknown \subseteq unknown',
         \A j \in Jobs : \/ PendingHad(j)'
                         \/ pending[j] # NoFile /\ pending'[j].retries = pending[j].retries,
         \A p \in Procs, j \in Jobs : ScanHad(p, j)' \/ scan'[p][j] = scan[p][j],
         \A r \in Runners, j \in Jobs : CopyKnows(r, j)' \/ copy'[r][j] = copy[r][j]
  PROVE  OutcomeInv'
<1>t. TypeOK
  BY DEF OutcomeInv
<1>g. \A j \in Jobs : /\ \A n \in Nat : Had(n, j) => Had(n, j)'
                      /\ GivenUpRightly(j) => GivenUpRightly(j)'
  BY <1>t, ReasonsGrow
<1>1. \A j \in Jobs : PendingHad(j)'
  <2> SUFFICES ASSUME NEW j \in Jobs, pending[j] # NoFile, pending'[j].retries = pending[j].retries
               PROVE  PendingHad(j)'
    OBVIOUS
  <2>1. Had(pending[j].retries, j) /\ pending[j].retries \in Nat
    BY <1>t DEF OutcomeInv, PendingHad, TypeOK
  <2> QED BY <1>g, <2>1 DEF PendingHad, Had
<1>2. \A p \in Procs, j \in Jobs : ScanHad(p, j)'
  <2> SUFFICES ASSUME NEW p \in Procs, NEW j \in Jobs, scan'[p][j] = scan[p][j], scan[p][j] # NoFile
               PROVE  ScanHad(p, j)'
    BY DEF ScanHad
  <2>1. Had(scan[p][j].retries, j) /\ scan[p][j].retries \in Nat
    BY <1>t DEF OutcomeInv, ScanHad, TypeOK
  <2> QED BY <1>g, <2>1 DEF ScanHad, Had
<1>3. \A r \in Runners, j \in Jobs : CopyKnows(r, j)'
  <2> SUFFICES ASSUME NEW r \in Runners, NEW j \in Jobs, copy'[r][j] = copy[r][j]
               PROVE  CopyKnows(r, j)'
    OBVIOUS
  <2>1. CopyKnows(r, j) /\ copy[r][j].retries \in Nat
    BY <1>t DEF OutcomeInv, TypeOK
  <2> QED BY <1>g, <2>1 DEF CopyKnows, Had
<1>4. OutcomeIsTrue'
  <2>1. done' \subseteq passed'
    BY DEF OutcomeInv, OutcomeIsTrue
  <2>2. \A j \in failed' : GivenUpRightly(j)'
    BY <1>t, <1>g DEF OutcomeInv, OutcomeIsTrue, GivenUpRightly, TypeOK
  <2> QED BY <2>1, <2>2 DEF OutcomeIsTrue, GivenUpRightly
<1> QED BY <1>1, <1>2, <1>3, <1>4 DEF OutcomeInv

\* Where a step leaves a runner's copy of a job.
LEMMA SetCopyAt ==
  ASSUME TypeOK, NEW q \in Runners, NEW k \in Jobs, NEW c, NEW n, SetCopy(q, k, c, n)
  PROVE  \A r \in Runners, j \in Jobs :
            \/ copy'[r][j] = copy[r][j]
            \/ r = q /\ j = k /\ copy'[r][j].pc = c /\ copy'[r][j].retries = n
BY DEF SetCopy, TypeOK

\* A process that goes leaves no copy behind, or those of others.
LEMMA LeaveAt ==
  ASSUME TypeOK, NEW p \in Procs, Leave(p)
  PROVE  /\ \A r \in Runners, j \in Jobs : copy'[r][j] = Idle \/ copy'[r][j] = copy[r][j]
         /\ \A q \in Procs, j \in Jobs : scan'[q][j] = NoFile \/ scan'[q][j] = scan[q][j]
BY RunnersAre DEF Leave, TypeOK

\* One more start, of which the file and the copy tell.
LEMMA OneMoreStart ==
  ASSUME OutcomeInv, TypeOK', NEW p \in Procs, NEW j \in Jobs, Start(p, j)
  PROVE  /\ \A i \in Jobs : starts[i] <= starts'[i]
         /\ \E n \in Nat : n = copy[Task(p)][j].retries + 1 /\ Had(n, j)'
<1>1. /\ Had(copy[Task(p)][j].retries, j) /\ copy[Task(p)][j].retries \in Nat
      /\ starts \in [Jobs -> Nat] /\ MaxRetries \in Nat
  BY RunnersAre DEF OutcomeInv, CopyKnows, TypeOK
<1>2. starts' = [starts EXCEPT ![j] = IF @ < MaxRetries THEN @ + 1 ELSE @]
  BY DEF Start
<1>3. PICK n \in Nat : n = copy[Task(p)][j].retries + 1
  BY <1>1
<1>4. Had(n, j)'
  BY <1>1, <1>2, <1>3 DEF Had
<1> QED BY <1>1, <1>2, <1>3, <1>4

\* HookOutbox's OutcomeIsTrue: what the directories say of a hook is true,
\* with any number of processes that recover and run the same job.
THEOREM TrueOutcomes == Spec => []OutcomeIsTrue
<1>1. Init => OutcomeInv
  <2> SUFFICES ASSUME Init PROVE OutcomeInv
    OBVIOUS
  <2>1. TypeOK
    BY FreshTyped DEF Init, TypeOK, Copies
  <2> QED BY <2>1, IdleKnows DEF Init, OutcomeInv, OutcomeIsTrue, PendingHad, ScanHad
<1>2. OutcomeInv /\ [Next]_vars /\ TypeOK' => OutcomeInv'
  <2> SUFFICES ASSUME OutcomeInv, [Next]_vars, TypeOK' PROVE OutcomeInv'
    OBVIOUS
  <2>t. TypeOK
    BY DEF OutcomeInv
  <2>n. \A i \in Jobs : starts[i] <= starts[i]
    BY <2>t DEF TypeOK
  <2> USE RunnersAre
  <2>0. CASE UNCHANGED vars
    BY <2>0 DEF vars, files, ghosts, OutcomeInv, OutcomeIsTrue, PendingHad, ScanHad, CopyKnows,
                Had, GivenUpRightly
  <2>1. ASSUME NEW p \in Procs, Startup(p) PROVE OutcomeInv'
    <3>1. \A q \in Procs, j \in Jobs : \/ scan'[q][j] = scan[q][j] \/ scan'[q][j] = NoFile
                                       \/ scan'[q][j] = pending[j]
      BY <2>1, <2>t DEF Startup, TypeOK
    <3>2. \A q \in Procs, j \in Jobs : ScanHad(q, j)' \/ scan'[q][j] = scan[q][j]
      BY <2>1, <3>1 DEF Startup, OutcomeInv, PendingHad, ScanHad, Had, ghosts
    <3> QED BY <2>1, <2>n, <3>2, ReasonsKept DEF Startup, files, ghosts, OutcomeInv, PendingHad, Had
  <2>2. ASSUME NEW p \in Procs, Shutdown(p) \/ Crash(p) PROVE OutcomeInv'
    <3>1. Leave(p) /\ UNCHANGED <<files, ghosts>>
      BY <2>2 DEF Shutdown, Crash, Leave
    <3>2. \A r \in Runners, j \in Jobs : CopyKnows(r, j)' \/ copy'[r][j] = copy[r][j]
      <4> SUFFICES ASSUME NEW r \in Runners, NEW j \in Jobs, copy'[r][j] = Idle
                   PROVE  CopyKnows(r, j)'
        BY <2>t, <3>1, LeaveAt
      <4>1. starts'[j] \in Nat
        BY DEF TypeOK
      <4> QED BY <4>1 DEF CopyKnows, Idle, Had
    <3>3. \A q \in Procs, j \in Jobs : ScanHad(q, j)' \/ scan'[q][j] = scan[q][j]
      BY <2>t, <3>1, LeaveAt DEF ScanHad
    <3> QED BY <2>n, <3>1, <3>2, <3>3, ReasonsKept DEF files, ghosts, OutcomeInv, PendingHad, Had
  <2>3. ASSUME NEW p \in Procs, NEW j \in Jobs, Dispatch(p, j) PROVE OutcomeInv'
    <3>1. starts'[j] \in Nat /\ MaxRetries \in Nat
      BY DEF TypeOK
    <3>2. \A i \in Jobs : PendingHad(i)' \/ (pending[i] # NoFile /\ pending'[i].retries = pending[i].retries)
      <4>1. pending'[j].retries = 0
        BY <2>3, <2>t DEF Dispatch, TypeOK
      <4>2. \A i \in Jobs : i # j => pending'[i] = pending[i]
        BY <2>3, <2>t DEF Dispatch, TypeOK
      <4> QED BY <4>1, <4>2, <3>1 DEF PendingHad, Had
    <3>3. \A r \in Runners, i \in Jobs : CopyKnows(r, i)' \/ copy'[r][i] = copy[r][i]
      BY <2>3, <2>t, <3>1, SetCopyAt DEF Dispatch, CopyKnows, Had
    <3> QED BY <2>3, <2>n, <3>2, <3>3, ReasonsKept DEF Dispatch
  <2>4. ASSUME NEW p \in Procs, NEW j \in Jobs, Start(p, j) PROVE OutcomeInv'
    <3>1. \A i \in Jobs : starts[i] <= starts'[i]
      BY <2>4, OneMoreStart
    <3>n. PICK n \in Nat : n = copy[Task(p)][j].retries + 1 /\ Had(n, j)'
      BY <2>4, OneMoreStart
    <3>2. \A i \in Jobs : PendingHad(i)' \/ (pending[i] # NoFile /\ pending'[i].retries = pending[i].retries)
      <4>1. pending'[j].retries = n
        BY <2>4, <2>t, <3>n DEF Start, Stamped, TypeOK
      <4>2. \A i \in Jobs : i # j => pending'[i] = pending[i]
        BY <2>4, <2>t DEF Start, TypeOK
      <4> QED BY <3>n, <4>1, <4>2 DEF PendingHad, Had
    <3>3. \A r \in Runners, i \in Jobs : CopyKnows(r, i)' \/ copy'[r][i] = copy[r][i]
      <4>1. CASE j \in Detached[p]
        <5> SUFFICES ASSUME NEW r \in Runners, NEW i \in Jobs, copy'[r][i] # copy[r][i]
                     PROVE  CopyKnows(r, i)'
          OBVIOUS
        <5>1. CASE copy'[r][i] = Idle
          <6>1. starts'[i] \in Nat
            BY DEF TypeOK
          <6> QED BY <5>1, <6>1 DEF CopyKnows, Idle, Had
        <5>2. CASE i = j /\ copy'[r][i] = [pc |-> "running", retries |-> n]
          BY <3>n, <5>2 DEF CopyKnows, Had
        <5> QED BY <2>4, <2>t, <3>n, <4>1, <5>1, <5>2, HandOver
      <4>2. CASE j \notin Detached[p]
        <5>1. SetCopy(Task(p), j, "running", n)
          BY <2>4, <3>n, <4>2 DEF Start, Stamped
        <5> QED BY <2>t, <3>n, <5>1, SetCopyAt DEF CopyKnows, Had
      <4> QED BY <4>1, <4>2
    <3> QED BY <2>4, <3>1, <3>2, <3>3, ReasonsKept DEF Start
  <2>5. ASSUME NEW p \in Procs, NEW j \in Jobs, Recover(p, j) PROVE OutcomeInv'
    <3> DEFINE n == scan[p][j].retries
    <3>1. Had(n, j) /\ n \in Nat /\ MaxRetries \in Nat /\ starts[j] \in Nat
      BY <2>5, <2>t DEF Recover, OutcomeInv, ScanHad, TypeOK
    <3>2. \A r \in Runners, i \in Jobs : CopyKnows(r, i)' \/ copy'[r][i] = copy[r][i]
      <4>1. CASE Exhausted(scan[p][j])
        BY <2>5, <2>t, <3>1, <4>1, SetCopyAt DEF Recover, CopyKnows, Had, GivenUpRightly, Exhausted
      <4>2. CASE ~Exhausted(scan[p][j]) /\ j \notin Knows[p]
        BY <2>5, <2>t, <3>1, <4>2, SetCopyAt DEF Recover, CopyKnows, Had, GivenUpRightly
      <4>3. CASE ~Exhausted(scan[p][j]) /\ j \in Knows[p]
        BY <2>5, <2>t, <3>1, <4>3, SetCopyAt DEF Recover, CopyKnows, Had
      <4> QED BY <4>1, <4>2, <4>3
    <3>3. \A q \in Procs, i \in Jobs : ScanHad(q, i)' \/ scan'[q][i] = scan[q][i]
      BY <2>5, <2>t DEF Recover, ScanHad, TypeOK
    <3>4. unknown \subseteq unknown'
      BY <2>5 DEF Recover
    <3> QED BY <2>5, <2>n, <3>2, <3>3, <3>4, ReasonsKept DEF Recover, files, OutcomeInv, PendingHad, Had
  <2>6. ASSUME NEW r \in Runners, NEW j \in Jobs, Exit(r, j) PROVE OutcomeInv'
    <3>1. Had(copy[r][j].retries, j)
      BY DEF OutcomeInv, CopyKnows
    <3>2. \A q \in Runners, i \in Jobs : CopyKnows(q, i)' \/ copy'[q][i] = copy[q][i]
      BY <2>6, <2>t, <3>1, SetCopyAt DEF Exit, CopyKnows, Had, GivenUpRightly
    <3> QED BY <2>6, <2>n, <3>2, ReasonsKept DEF Exit, files, OutcomeInv, PendingHad, Had
  <2>7. ASSUME NEW r \in Runners, NEW j \in Jobs, WriteResult(r, j) PROVE OutcomeInv'
    <3>1. CopyKnows(r, j)
      BY DEF OutcomeInv
    <3>2. \A q \in Runners, i \in Jobs : CopyKnows(q, i)'
      BY <2>7, <2>t, <3>1, SetCopyAt DEF WriteResult, ghosts, OutcomeInv, CopyKnows, Had, GivenUpRightly
    <3>3. OutcomeIsTrue'
      BY <2>7, <3>1 DEF WriteResult, ghosts, OutcomeInv, OutcomeIsTrue, CopyKnows, GivenUpRightly
    <3> QED BY <2>7, <3>2, <3>3 DEF WriteResult, ghosts, OutcomeInv, PendingHad, ScanHad, Had
  <2>8. ASSUME NEW r \in Runners, NEW j \in Jobs,
               Unlink(r, j) \/ MoveFails(r, j) \/ (\E p \in Procs : r = Worker(p) /\ WorkerDies(p, j))
        PROVE  OutcomeInv'
    <3>1. SetCopy(r, j, "none", 0) /\ UNCHANGED <<done, failed, scan, ghosts>>
      BY <2>8 DEF Unlink, MoveFails, WorkerDies, files
    <3>2. \A i \in Jobs : pending'[i] = NoFile \/ pending'[i] = pending[i]
      BY <2>8, <2>t DEF Unlink, MoveFails, WorkerDies, files, TypeOK
    <3>3. starts'[j] \in Nat /\ MaxRetries \in Nat
      BY DEF TypeOK
    <3>4. \A q \in Runners, i \in Jobs : CopyKnows(q, i)' \/ copy'[q][i] = copy[q][i]
      BY <2>t, <3>1, <3>3, SetCopyAt DEF CopyKnows, Had
    <3>5. \A i \in Jobs : PendingHad(i)' \/ (pending[i] # NoFile /\ pending'[i].retries = pending[i].retries)
      BY <3>2 DEF PendingHad
    <3> QED BY <2>n, <3>1, <3>4, <3>5, ReasonsKept DEF ghosts
  <2>9. ASSUME NEW j \in Jobs, Age(j) PROVE OutcomeInv'
    <3>1. \A i \in Jobs : pending'[i] = pending[i] \/ (pending[i] # NoFile /\ pending'[i].retries = pending[i].retries)
      BY <2>9, <2>t DEF Age, TypeOK
    <3>2. \A i \in Jobs : PendingHad(i)' \/ (pending[i] # NoFile /\ pending'[i].retries = pending[i].retries)
      BY <3>1, <2>9 DEF Age, PendingHad
    <3> QED BY <2>9, <2>n, <3>2, ReasonsKept DEF Age, ghosts
  <2>10. ASSUME NEW p \in Procs, NEW j \in Jobs, WorkerDies(p, j) PROVE OutcomeInv'
    BY <2>10, <2>8
  <2>11. ASSUME NEW p \in Procs, NEW j \in Jobs, StampFails(p, j) PROVE OutcomeInv'
    <3>1. Had(copy[Task(p)][j].retries, j)
      BY DEF OutcomeInv, CopyKnows
    <3>2. \A q \in Runners, i \in Jobs : CopyKnows(q, i)' \/ copy'[q][i] = copy[q][i]
      BY <2>11, <2>t, <3>1, SetCopyAt DEF StampFails, CopyKnows, Had, GivenUpRightly
    <3> QED BY <2>11, <2>n, <3>2, ReasonsKept DEF StampFails, files, OutcomeInv, PendingHad, Had
  <2> QED
    BY <2>0, <2>1, <2>2, <2>3, <2>4, <2>5, <2>6, <2>7, <2>8, <2>9, <2>10, <2>11 DEF Next
<1>3. OutcomeInv => OutcomeIsTrue
  BY DEF OutcomeInv
<1> QED BY <1>1, <1>2, <1>3, OutboxTyped, PTL DEF Spec
=============================================================================
