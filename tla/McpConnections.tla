--------------------------- MODULE McpConnections ---------------------------
(***************************************************************************)
(* The shared cache of live MCP connections (service/mcp/cache.py) and the *)
(* adapters that lease from it (service/mcp/adapter.py).                   *)
(*                                                                         *)
(* One consumer stands for one server name of one adapter: the task that   *)
(* acquires its lease, and the lease once it is registered.  Every locked  *)
(* section of the cache runs without an await, so a section is one step,   *)
(* and what another task can do happens at the awaits between sections:    *)
(* while swept connections close, while a connect task runs, between the   *)
(* end of that task and the moment its waiters run, and between a          *)
(* disconnect and the release it makes.  A connection is named by its key  *)
(* and the number of the connect task that opens it.                       *)
(***************************************************************************)
EXTENDS Naturals, FiniteSets

CONSTANTS
    Consumers,      \* (adapter, server name) pairs that share the cache
    Keys,           \* canonical fingerprints of effective server configs
    KeyOf,          \* the fingerprint of each consumer's config
    MaxOpens,       \* bound: connect tasks per key
    MaxAcquires,    \* bound: acquires of each consumer
    None

Conns == Keys \X (1 .. MaxOpens)

Entry == [tool : Conns \cup {None}, task : Conns \cup {None},
          refcount : Nat, old : BOOLEAN]

ASSUME KeysAssumption == /\ KeyOf \in [Consumers -> Keys]
                         /\ MaxOpens \in Nat
                         /\ MaxAcquires \in [Consumers -> Nat]
                         /\ IsFiniteSet(Consumers)
                         /\ None \notin Conns \cup Entry

VARIABLES
    entries,    \* _entries: the cache entry of each key, or None
    closed,     \* _closed
    closing,    \* close_all: "no", "gather", "done" or "aborted"
    doomed,     \* the tools and the connect tasks close_all took with it
    conn,       \* the transport behind each connection
    task,       \* the connect task of each connection
    pc,         \* where each consumer's task stands
    wait,       \* the connect task a consumer awaits
    sweep,      \* the stale tools a consumer waits to see closed
    lease,      \* the tool in a consumer's lease
    acquires    \* acquires made so far

cacheVars == <<entries, closed, closing, doomed>>
taskVars  == <<conn, task>>
userVars  == <<pc, wait, sweep, lease, acquires>>
vars      == <<cacheVars, taskVars, userVars>>

Pcs == {"idle", "sweeping", "waiting", "connected", "releasing", "dropped",
        "leaving", "failed", "unregistered"}

\* Who has taken a reference that was not given back, "dropped" leases too.
Holders(k) == {c \in Consumers : /\ KeyOf[c] = k
                                 /\ pc[c] \in {"connected", "releasing", "dropped"}}

Init == /\ entries = [k \in Keys |-> None]
        /\ closed = FALSE
        /\ closing = "no"
        /\ doomed = [tools |-> {}, tasks |-> {}]
        /\ conn = [x \in Conns |-> "none"]
        /\ task = [x \in Conns |-> "none"]
        /\ pc = [c \in Consumers |-> "idle"]
        /\ wait = [c \in Consumers |-> None]
        /\ sweep = [c \in Consumers |-> {}]
        /\ lease = [c \in Consumers |-> None]
        /\ acquires = [c \in Consumers |-> 0]

-----------------------------------------------------------------------------
\* The cache's own helpers.

\* Mutants of Idle: leased connections count as idle; so do fresh ones.
IdleIfOld(e) == e # None /\ e.tool # None /\ e.old
IdleAtOnce(e) == e # None /\ e.refcount = 0 /\ e.tool # None

Idle(e) == e # None /\ e.refcount = 0 /\ e.tool # None /\ e.old

\* _collect_idle_locked: which keys of a table it drops, and their tools.
StaleKeys(table)  == {k \in Keys : Idle(table[k])}
StaleTools(table) == {table[k].tool : k \in StaleKeys(table)}
Collect(table)    == [k \in Keys |-> IF Idle(table[k]) THEN None ELSE table[k]]

\* _close_untracked_tools starts closing a set of transports.
StartClosing(tools) == [x \in Conns |-> IF x \in tools /\ conn[x] = "open"
                                          THEN "closing" ELSE conn[x]]
Gone(tools) == \A x \in tools : conn[x] = "closed"

\* A lease is taken: the count goes up, and the adapter registers the lease
\* in the same step, or refuses the server's names and gives it back.
TakeLease(c) ==
    LET k == KeyOf[c] IN
    /\ entries' = [entries EXCEPT ![k].refcount = @ + 1]
    /\ lease' = [lease EXCEPT ![c] = entries[k].tool]
    /\ \E next \in {"connected", "releasing"} : pc' = [pc EXCEPT ![c] = next]

\* The second locked section of acquire: a hit leases at once, a running
\* connect task is joined, and a missing entry is created with its task.
Hit(c) == /\ entries[KeyOf[c]] # None
          /\ entries[KeyOf[c]].tool # None
          /\ TakeLease(c)
          /\ UNCHANGED <<taskVars, wait>>

Join(c) == /\ entries[KeyOf[c]] # None
           /\ entries[KeyOf[c]].tool = None
           /\ pc' = [pc EXCEPT ![c] = "waiting"]
           /\ wait' = [wait EXCEPT ![c] = entries[KeyOf[c]].task]
           /\ UNCHANGED <<entries, taskVars, lease>>

\* Mutant of Vacant: an entry whose connect task still runs is replaced.
VacantUntilStored(k) == entries[k] # None => entries[k].tool = None

Vacant(k) == entries[k] = None

Open(c) ==
    LET k == KeyOf[c] IN
    /\ Vacant(k)
    /\ \E n \in 1 .. MaxOpens :
         /\ conn[<<k, n>>] = "none"
         /\ \A m \in 1 .. n - 1 : conn[<<k, m>>] # "none"
         /\ entries' = [entries EXCEPT ![k] =
                [tool |-> None, task |-> <<k, n>>, refcount |-> 0, old |-> FALSE]]
         /\ conn' = [conn EXCEPT ![<<k, n>>] = "opening"]
         /\ task' = [task EXCEPT ![<<k, n>>] = "running"]
         /\ wait' = [wait EXCEPT ![c] = <<k, n>>]
    /\ pc' = [pc EXCEPT ![c] = "waiting"]
    /\ UNCHANGED lease

Refuse(c) == /\ pc' = [pc EXCEPT ![c] = "failed"]
             /\ UNCHANGED <<entries, taskVars, wait, lease>>

Lookup(c) == IF closed THEN Refuse(c) ELSE Hit(c) \/ Join(c) \/ Open(c)

-----------------------------------------------------------------------------
\* acquire: with nothing to sweep its two sections run in one step; with
\* stale tools the task closes them first and looks the key up afterwards.
Acquire(c) ==
    /\ pc[c] \in {"idle", "failed"}
    /\ acquires[c] < MaxAcquires[c]
    /\ acquires' = [acquires EXCEPT ![c] = @ + 1]
    /\ closed \/ StaleKeys(entries) = {}
    /\ Lookup(c)
    /\ UNCHANGED <<closed, closing, doomed, sweep>>

AcquireSweeps(c) ==
    /\ pc[c] \in {"idle", "failed"}
    /\ acquires[c] < MaxAcquires[c]
    /\ acquires' = [acquires EXCEPT ![c] = @ + 1]
    /\ ~closed /\ StaleKeys(entries) # {}
    /\ entries' = Collect(entries)
    /\ conn' = StartClosing(StaleTools(entries))
    /\ sweep' = [sweep EXCEPT ![c] = StaleTools(entries)]
    /\ pc' = [pc EXCEPT ![c] = "sweeping"]
    /\ UNCHANGED <<closed, closing, doomed, task, wait, lease>>

Swept(c) ==
    /\ pc[c] = "sweeping"
    /\ Gone(sweep[c])
    /\ sweep' = [sweep EXCEPT ![c] = {}]
    /\ Lookup(c)
    /\ UNCHANGED <<closed, closing, doomed, acquires>>

TaskFailed(c) == task[wait[c]] \in {"failed", "cancelled"}

\* Mutant of Rejected: a shutdown that came after the store is not looked at.
RejectedIfFailed(c) == TaskFailed(c)

Rejected(c) == TaskFailed(c) \/ (task[wait[c]] = "done" /\ closed)

\* The third section, once the awaited connect task has ended.
Resume(c) ==
    LET k == KeyOf[c] IN
    /\ pc[c] = "waiting"
    /\ wait' = [wait EXCEPT ![c] = None]
    /\ \/ /\ task[wait[c]] = "done" /\ ~closed
          /\ entries[k] # None /\ entries[k].tool # None
          /\ TakeLease(c)
       \/ /\ task[wait[c]] = "done" /\ ~closed
          /\ entries[k] # None => entries[k].tool = None
          /\ pc' = [pc EXCEPT ![c] = "unregistered"]
          /\ UNCHANGED <<entries, lease>>
       \/ /\ Rejected(c)
          /\ pc' = [pc EXCEPT ![c] = "failed"]
          /\ UNCHANGED <<entries, lease>>
    /\ UNCHANGED <<closed, closing, doomed, taskVars, sweep, acquires>>

\* The acquiring task is cancelled by disconnect_all or with its caller.  The
\* connect task is shielded and goes on; a sweep is waited for first.
Cancel(c) ==
    /\ pc[c] \in {"waiting", "sweeping"}
    /\ pc' = [pc EXCEPT ![c] = IF pc[c] = "sweeping" THEN "leaving" ELSE "idle"]
    /\ wait' = [wait EXCEPT ![c] = None]
    /\ UNCHANGED <<cacheVars, taskVars, sweep, lease, acquires>>

\* disconnect and disconnect_all pop the registered lease; the release is a
\* task of its own, so others run in between.
Disconnect(c) ==
    /\ pc[c] = "connected"
    /\ pc' = [pc EXCEPT ![c] = "releasing"]
    /\ UNCHANGED <<cacheVars, taskVars, wait, sweep, lease, acquires>>

\* disconnect_all waits for the connects it has cancelled before it releases
\* the leases it has popped.  Cancelled itself in that wait, it never does, and
\* nobody can give them back any more.
Drop(c) ==
    /\ pc[c] = "connected"
    /\ \E d \in Consumers \ {c} : pc[d] \in {"waiting", "sweeping"}
    /\ pc' = [pc EXCEPT ![c] = "dropped"]
    /\ UNCHANGED <<cacheVars, taskVars, wait, sweep, lease, acquires>>

\* Mutant of Released: the last reference is never given back.
ReleasedButLast(k) ==
    IF entries[k] # None /\ entries[k].refcount > 1
    THEN [entries EXCEPT ![k].refcount = @ - 1] ELSE entries

\* The table after one reference to key k is given back: at zero the entry
\* becomes idle from now on.
Released(k) ==
    IF entries[k] # None /\ entries[k].refcount > 0
    THEN [entries EXCEPT ![k].refcount = @ - 1,
                         ![k].old = IF entries[k].refcount = 1 THEN FALSE ELSE @]
    ELSE entries

Release(c) ==
    /\ pc[c] = "releasing"
    /\ LET table == Released(KeyOf[c])
           stale == StaleTools(table)
       IN /\ entries' = Collect(table)
          /\ conn' = StartClosing(stale)
          /\ sweep' = [sweep EXCEPT ![c] = stale]
    /\ lease' = [lease EXCEPT ![c] = None]
    /\ pc' = [pc EXCEPT ![c] = "leaving"]
    /\ UNCHANGED <<closed, closing, doomed, task, wait, acquires>>

Leave(c) ==
    /\ pc[c] = "leaving"
    /\ Gone(sweep[c])
    /\ sweep' = [sweep EXCEPT ![c] = {}]
    /\ pc' = [pc EXCEPT ![c] = "idle"]
    /\ UNCHANGED <<cacheVars, taskVars, wait, lease, acquires>>

-----------------------------------------------------------------------------
\* _connect_and_store, one task per connection.

KeyOfConn(x) == x[1]
OwnsEntry(x) == entries[KeyOfConn(x)] # None /\ entries[KeyOfConn(x)].task = x

\* The transport is up and the entry still waits for this task.
Store(x) ==
    /\ task[x] = "running" /\ conn[x] = "opening"
    /\ ~closed /\ OwnsEntry(x)
    /\ entries' = [entries EXCEPT ![KeyOfConn(x)].tool = x,
                                  ![KeyOfConn(x)].task = None,
                                  ![KeyOfConn(x)].old = FALSE]
    /\ conn' = [conn EXCEPT ![x] = "open"]
    /\ task' = [task EXCEPT ![x] = "done"]
    /\ UNCHANGED <<closed, closing, doomed, userVars>>

\* The connection could not be made: the half-open transport is closed and
\* the entry goes, so the next acquire starts a task of its own.
ConnectFails(x) ==
    /\ task[x] = "running" /\ conn[x] = "opening"
    /\ entries' = IF OwnsEntry(x) THEN [entries EXCEPT ![KeyOfConn(x)] = None] ELSE entries
    /\ conn' = [conn EXCEPT ![x] = "closed"]
    /\ task' = [task EXCEPT ![x] = "failed"]
    /\ UNCHANGED <<closed, closing, doomed, userVars>>

\* A cancelled connect task closes what it opened before it ends.
ConnectCancelled(x) ==
    /\ task[x] = "cancelling"
    /\ conn' = [conn EXCEPT ![x] = "closed"]
    /\ task' = [task EXCEPT ![x] = "cancelled"]
    /\ UNCHANGED <<cacheVars, userVars>>

\* A transport that is being closed is gone.
Closed(x) ==
    /\ conn[x] = "closing"
    /\ conn' = [conn EXCEPT ![x] = "closed"]
    /\ UNCHANGED <<cacheVars, task, userVars>>

-----------------------------------------------------------------------------
\* close_all: the table is emptied under the lock, the running connect tasks
\* are cancelled and awaited, and only then are the tools closed.

Tracked(field) == {entries[k][field] : k \in {j \in Keys : entries[j] # None}} \ {None}

CloseAll ==
    /\ ~closed
    /\ closed' = TRUE
    /\ closing' = "gather"
    /\ doomed' = [tools |-> Tracked("tool"), tasks |-> Tracked("task")]
    /\ entries' = [k \in Keys |-> None]
    /\ task' = [x \in Conns |-> IF x \in Tracked("task") /\ task[x] = "running"
                                  THEN "cancelling" ELSE task[x]]
    /\ UNCHANGED <<conn, userVars>>

\* Mutant of CloseTaken: the tools that were taken out are forgotten.
CloseForgotten == UNCHANGED conn

CloseTaken == conn' = StartClosing(doomed.tools)

CloseTools ==
    /\ closing = "gather"
    /\ \A x \in doomed.tasks : task[x] \in {"done", "failed", "cancelled"}
    /\ CloseTaken
    /\ closing' = "done"
    /\ UNCHANGED <<entries, closed, doomed, task, userVars>>

\* The caller is cancelled while it gathers the connect tasks: the tools it
\* took out of the table are never closed.
CloseAborted ==
    /\ closing = "gather"
    /\ \E x \in doomed.tasks : task[x] = "cancelling"
    /\ closing' = "aborted"
    /\ UNCHANGED <<entries, closed, doomed, taskVars, userVars>>

\* The idle time to live passes for an unleased connection.  It is minutes
\* long, and the waiters of a finished connect task run at once, so it does
\* not pass while one of them is still to take its reference.
Age(k) ==
    /\ entries[k] # None
    /\ entries[k].tool # None /\ entries[k].refcount = 0 /\ ~entries[k].old
    /\ \A c \in Consumers : ~(pc[c] = "waiting" /\ wait[c] = entries[k].tool)
    /\ entries' = [entries EXCEPT ![k].old = TRUE]
    /\ UNCHANGED <<closed, closing, doomed, taskVars, userVars>>

-----------------------------------------------------------------------------
Next ==
    \/ \E c \in Consumers : \/ Acquire(c) \/ AcquireSweeps(c) \/ Swept(c)
                            \/ Resume(c) \/ Cancel(c) \/ Disconnect(c)
                            \/ Drop(c) \/ Release(c) \/ Leave(c)
    \/ \E x \in Conns : \/ Store(x) \/ ConnectFails(x)
                        \/ ConnectCancelled(x) \/ Closed(x)
    \/ \E k \in Keys : Age(k)
    \/ CloseAll \/ CloseTools \/ CloseAborted

Spec == Init /\ [][Next]_vars

\* Tasks that can run do run, and a connection attempt ends: every request
\* is bounded by a timeout floor.  Nobody is obliged to acquire, disconnect,
\* cancel or shut down.
Fairness ==
    /\ \A c \in Consumers : WF_vars(Swept(c) \/ Resume(c) \/ Release(c) \/ Leave(c))
    /\ \A x \in Conns : /\ WF_vars(Store(x) \/ ConnectFails(x))
                        /\ WF_vars(ConnectCancelled(x))
                        /\ WF_vars(Closed(x))
    /\ WF_vars(CloseTools)

FairSpec == Spec /\ Fairness

-----------------------------------------------------------------------------
TypeOK ==
    /\ entries \in [Keys -> Entry \cup {None}]
    /\ closed \in BOOLEAN
    /\ closing \in {"no", "gather", "done", "aborted"}
    /\ doomed \in [tools : SUBSET Conns, tasks : SUBSET Conns]
    /\ conn \in [Conns -> {"none", "opening", "open", "closing", "closed"}]
    /\ task \in [Conns -> {"none", "running", "done", "failed", "cancelling", "cancelled"}]
    /\ pc \in [Consumers -> Pcs]
    /\ wait \in [Consumers -> Conns \cup {None}]
    /\ sweep \in [Consumers -> SUBSET Conns]
    /\ lease \in [Consumers -> Conns \cup {None}]
    /\ acquires \in [Consumers -> Nat]

\* Until the cache is shut down, a lease somebody holds is on an open
\* connection that the cache still tracks: no sweep, release or failed
\* connect of another consumer takes it away.
LeaseIsOpen ==
    ~closed => \A k \in Keys : \A c \in Holders(k) :
                  /\ lease[c] # None
                  /\ conn[lease[c]] = "open"
                  /\ entries[k] # None /\ entries[k].tool = lease[c]

\* The reference count of an entry is the number of leases on it: however
\* acquires are cancelled, refused or raced, none leaks and none is given
\* back twice, but for what a cancelled disconnect_all has dropped.
CountIsHolders ==
    ~closed => \A k \in Keys :
                  entries[k] # None => entries[k].refcount = Cardinality(Holders(k))

\* Consumers of one config share one connection: at most one is being opened
\* or is open for a key.
OneConnectionPerKey ==
    ~closed => \A x, y \in Conns :
                  /\ x[1] = y[1]
                  /\ {conn[x], conn[y]} \subseteq {"opening", "open"}
                  => x = y

\* An acquire whose connect task succeeded finds the connection registered:
\* the "did not register after connect" error is never raised.
NoLostRegistration == \A c \in Consumers : pc[c] # "unregistered"

\* After close_all no connection is left behind, whatever was opening, open,
\* leased or being swept when it was called: all that can stay open are the
\* tools of a close_all whose own caller was cancelled.
ShutdownClosesAll ==
    closed ~> \A x \in Conns : \/ conn[x] \in {"none", "closed"}
                               \/ closing = "aborted" /\ x \in doomed.tools

\* The promise of close_all's docstring, "Close every live MCP connection",
\* with no exception for a cancelled caller (cache.py:319).
CloseAllClosesAll ==
    closed ~> \A x \in Conns : conn[x] \in {"none", "closed"}

\* A consumer that asked for a connection gets its lease, an error or its
\* cancellation, and one that is leaving has left.
AcquireSettles ==
    \A c \in Consumers :
        pc[c] \in {"sweeping", "waiting", "leaving"} ~> pc[c] \in {"idle", "connected", "failed"}
=============================================================================
