------------------------ MODULE McpConnectionsProofs ------------------------
(***************************************************************************)
(* Theorems about McpConnections, for any consumers, keys and bounds:      *)
(* until the cache is shut down a lease is on an open connection of the    *)
(* table, the reference count is the number of leases, a key has one       *)
(* connection, and a connection that was made is always found registered.  *)
(***************************************************************************)
EXTENDS McpConnections, FiniteSetTheorems, TLAPS

USE KeysAssumption DEF KeysAssumption

-----------------------------------------------------------------------------
(* The invariant.                                                          *)

\* Where a connection is, told by its connect task.
Paired(x) ==
  \/ task[x] = "none" /\ conn[x] = "none"
  \/ task[x] = "running" /\ conn[x] = "opening"
  \/ task[x] = "done" /\ conn[x] \in {"open", "closing", "closed"}
  \/ task[x] = "failed" /\ conn[x] = "closed"
  \/ task[x] = "cancelling" /\ conn[x] = "opening" /\ closed
  \/ task[x] = "cancelled" /\ conn[x] = "closed" /\ closed

PairedInv == \A x \in Conns : Paired(x)

\* An entry waits for the task that opens its connection ...
Opening(k) ==
  /\ entries[k].tool = None /\ entries[k].refcount = 0
  /\ entries[k].task \in Conns /\ entries[k].task[1] = k
  /\ task[entries[k].task] = "running"

\* ... or has its open connection.
Opened(k) ==
  /\ entries[k].task = None
  /\ entries[k].tool \in Conns /\ entries[k].tool[1] = k
  /\ conn[entries[k].tool] = "open"

EntryInv == \A k \in Keys : entries[k] # None => Opening(k) \/ Opened(k)

\* Nothing is opening or open outside the table.
TrackedInv ==
  \A x \in Conns :
    /\ task[x] = "running" => entries[x[1]] # None /\ entries[x[1]].task = x
    /\ conn[x] = "open" => entries[x[1]] # None /\ entries[x[1]].tool = x

\* Who waits for a task waits for one of his key; once it is done, what it
\* opened is in the table, and too young to be swept.
Awaits(c) ==
  /\ wait[c] \in Conns /\ wait[c][1] = KeyOf[c]
  /\ task[wait[c]] \in {"running", "done", "failed"}
  /\ task[wait[c]] = "done" => /\ entries[KeyOf[c]] # None
                               /\ entries[KeyOf[c]].tool = wait[c]
                               /\ ~entries[KeyOf[c]].old

WaitInv == \A c \in Consumers : pc[c] = "waiting" => Awaits(c)

\* A lease is on what the table has.
Leased(c) ==
  /\ lease[c] # None
  /\ entries[KeyOf[c]] # None /\ entries[KeyOf[c]].tool = lease[c]

LeaseInv == \A c \in Consumers : pc[c] \in {"connected", "releasing", "dropped"} => Leased(c)

\* Nobody is counted who has no lease, and everybody who has one.
CountInv == \A k \in Keys : entries[k] # None => entries[k].refcount = Cardinality(Holders(k))

OpenInv == EntryInv /\ TrackedInv /\ WaitInv /\ LeaseInv /\ CountInv

McpInv ==
  /\ TypeOK
  /\ PairedInv
  /\ NoLostRegistration
  /\ closing # "no" => closed
  /\ ~closed => OpenInv

-----------------------------------------------------------------------------
(* Types.                                                                  *)

\* A connection has a key, and is one.
LEMMA ConnKey == \A x \in Conns : x[1] \in Keys /\ x # None
BY DEF Conns

\* A key and a number are a connection of that key.
LEMMA Pairs == \A k \in Keys, n \in 1 .. MaxOpens : <<k, n>> \in Conns /\ <<k, n>>[1] = k
BY DEF Conns

\* What a table's own helpers return is a table.
LEMMA HelpersTyped ==
  ASSUME TypeOK
  PROVE  /\ \A k \in Keys : Released(k) \in [Keys -> Entry \cup {None}]
         /\ \A table \in [Keys -> Entry \cup {None}] :
              /\ Collect(table) \in [Keys -> Entry \cup {None}]
              /\ StaleTools(table) \subseteq Conns
         /\ \A tools : StartClosing(tools) \in
              [Conns -> {"none", "opening", "open", "closing", "closed"}]
<1>1. ASSUME NEW k \in Keys PROVE Released(k) \in [Keys -> Entry \cup {None}]
  <2>1. CASE entries[k] # None /\ entries[k].refcount > 0
    <3>1. entries[k] \in Entry
      BY <2>1 DEF TypeOK
    <3> DEFINE e == [entries[k] EXCEPT !.refcount = @ - 1,
                                       !.old = IF entries[k].refcount = 1 THEN FALSE ELSE @]
    <3>2. entries[k].refcount - 1 \in Nat
      BY <2>1, <3>1 DEF Entry
    <3>3. e \in Entry
      BY <3>1, <3>2 DEF Entry
    <3>4. Released(k) = [entries EXCEPT ![k] = e]
      BY <2>1, <3>1 DEF Released, Entry, TypeOK
    <3> QED BY <3>3, <3>4 DEF TypeOK
  <2>2. CASE ~(entries[k] # None /\ entries[k].refcount > 0)
    BY <2>2 DEF TypeOK, Released
  <2> QED BY <2>1, <2>2
<1>2. ASSUME NEW table \in [Keys -> Entry \cup {None}]
      PROVE  /\ Collect(table) \in [Keys -> Entry \cup {None}]
             /\ StaleTools(table) \subseteq Conns
  BY <1>2 DEF Collect, StaleTools, StaleKeys, Idle, Entry
<1>3. \A tools : StartClosing(tools) \in
         [Conns -> {"none", "opening", "open", "closing", "closed"}]
  BY DEF TypeOK, StartClosing
<1> QED BY <1>1, <1>2, <1>3

\* A lease counts in a table and is on a connection of it.
LEMMA TakeLeaseTyped ==
  ASSUME TypeOK, NEW c \in Consumers, TakeLease(c),
         entries[KeyOf[c]] # None, entries[KeyOf[c]].tool # None
  PROVE  /\ entries' \in [Keys -> Entry \cup {None}]
         /\ pc' \in [Consumers -> Pcs]
         /\ lease' \in [Consumers -> Conns \cup {None}]
<1>1. KeyOf[c] \in Keys /\ entries[KeyOf[c]] \in Entry
  BY DEF TypeOK
<1> DEFINE e == [entries[KeyOf[c]] EXCEPT !.refcount = @ + 1]
<1>2. e \in Entry
  BY <1>1 DEF Entry
<1>3. entries' = [entries EXCEPT ![KeyOf[c]] = e]
  BY <1>1 DEF TakeLease, TypeOK
<1>4. entries' \in [Keys -> Entry \cup {None}]
  BY <1>2, <1>3 DEF TypeOK
<1>5. entries[KeyOf[c]].tool \in Conns \cup {None}
  BY <1>1 DEF Entry
<1>6. pc' \in [Consumers -> Pcs]
  BY DEF TypeOK, TakeLease, Pcs
<1>7. lease' \in [Consumers -> Conns \cup {None}]
  BY <1>5 DEF TypeOK, TakeLease
<1> QED BY <1>4, <1>6, <1>7

\* The section that looks a key up, whatever it finds.
LEMMA LookupTyped ==
  ASSUME TypeOK, NEW c \in Consumers, Lookup(c)
  PROVE  /\ entries' \in [Keys -> Entry \cup {None}]
         /\ conn' \in [Conns -> {"none", "opening", "open", "closing", "closed"}]
         /\ task' \in [Conns -> {"none", "running", "done", "failed", "cancelling", "cancelled"}]
         /\ pc' \in [Consumers -> Pcs]
         /\ wait' \in [Consumers -> Conns \cup {None}]
         /\ lease' \in [Consumers -> Conns \cup {None}]
<1>1. CASE Hit(c)
  BY <1>1, TakeLeaseTyped DEF Hit, TypeOK, taskVars
<1>2. CASE Join(c)
  <2>1. KeyOf[c] \in Keys /\ entries[KeyOf[c]].task \in Conns \cup {None}
    BY <1>2 DEF Join, TypeOK, Entry
  <2> QED BY <1>2, <2>1 DEF Join, TypeOK, taskVars, Pcs
<1>3. CASE Open(c)
  <2>1. KeyOf[c] \in Keys
    OBVIOUS
  <2>2. PICK n \in 1 .. MaxOpens :
         /\ entries' = [entries EXCEPT ![KeyOf[c]] =
                [tool |-> None, task |-> <<KeyOf[c], n>>, refcount |-> 0, old |-> FALSE]]
         /\ conn' = [conn EXCEPT ![<<KeyOf[c], n>>] = "opening"]
         /\ task' = [task EXCEPT ![<<KeyOf[c], n>>] = "running"]
         /\ wait' = [wait EXCEPT ![c] = <<KeyOf[c], n>>]
    BY <1>3 DEF Open
  <2> DEFINE x == <<KeyOf[c], n>>
  <2>3. x \in Conns
    BY <2>1, Pairs
  <2> HIDE DEF x
  <2>4. [tool |-> None, task |-> x, refcount |-> 0, old |-> FALSE] \in Entry
    BY <2>3 DEF Entry
  <2>5. /\ entries' = [entries EXCEPT ![KeyOf[c]] =
                [tool |-> None, task |-> x, refcount |-> 0, old |-> FALSE]]
        /\ conn' = [conn EXCEPT ![x] = "opening"]
        /\ task' = [task EXCEPT ![x] = "running"]
        /\ wait' = [wait EXCEPT ![c] = x]
    BY <2>2 DEF x
  <2>6. entries' \in [Keys -> Entry \cup {None}]
    BY <2>1, <2>4, <2>5 DEF TypeOK
  <2>7. /\ conn' \in [Conns -> {"none", "opening", "open", "closing", "closed"}]
        /\ task' \in [Conns -> {"none", "running", "done", "failed", "cancelling", "cancelled"}]
        /\ wait' \in [Consumers -> Conns \cup {None}]
    BY <2>3, <2>5 DEF TypeOK
  <2>8. pc' \in [Consumers -> Pcs] /\ lease' \in [Consumers -> Conns \cup {None}]
    BY <1>3 DEF Open, TypeOK, Pcs
  <2> QED BY <2>6, <2>7, <2>8
<1>4. CASE Refuse(c)
  BY <1>4 DEF Refuse, TypeOK, taskVars, Pcs
<1> QED BY <1>1, <1>2, <1>3, <1>4 DEF Lookup

\* Every step keeps the types.
LEMMA TypeStep == TypeOK /\ [Next]_vars => TypeOK'
<1> SUFFICES ASSUME TypeOK, [Next]_vars PROVE TypeOK'
  OBVIOUS
<1>1. ASSUME NEW c \in Consumers, Acquire(c) PROVE TypeOK'
  <2>1. acquires' \in [Consumers -> Nat]
    BY <1>1 DEF Acquire, TypeOK
  <2>2. UNCHANGED <<closed, closing, doomed, sweep>>
    BY <1>1 DEF Acquire
  <2> QED BY <1>1, <2>1, <2>2, LookupTyped DEF Acquire, TypeOK
<1>2. ASSUME NEW c \in Consumers, AcquireSweeps(c) PROVE TypeOK'
  <2>1. acquires' \in [Consumers -> Nat] /\ pc' \in [Consumers -> Pcs]
    BY <1>2 DEF AcquireSweeps, TypeOK, Pcs
  <2>2. entries' \in [Keys -> Entry \cup {None}] /\ StaleTools(entries) \subseteq Conns
    BY <1>2, HelpersTyped DEF AcquireSweeps, TypeOK
  <2>3. conn' \in [Conns -> {"none", "opening", "open", "closing", "closed"}]
    BY <1>2, HelpersTyped DEF AcquireSweeps
  <2>4. sweep' \in [Consumers -> SUBSET Conns]
    BY <1>2, <2>2 DEF AcquireSweeps, TypeOK
  <2> QED BY <1>2, <2>1, <2>2, <2>3, <2>4 DEF AcquireSweeps, TypeOK
<1>3. ASSUME NEW c \in Consumers, Swept(c) PROVE TypeOK'
  <2>1. sweep' \in [Consumers -> SUBSET Conns]
    BY <1>3 DEF Swept, TypeOK
  <2> QED BY <1>3, <2>1, LookupTyped DEF Swept, TypeOK
<1>4. ASSUME NEW c \in Consumers, Resume(c) PROVE TypeOK'
  <2>1. wait' \in [Consumers -> Conns \cup {None}]
    BY <1>4 DEF Resume, TypeOK
  <2>2. /\ entries' \in [Keys -> Entry \cup {None}]
        /\ pc' \in [Consumers -> Pcs]
        /\ lease' \in [Consumers -> Conns \cup {None}]
    <3>1. CASE /\ entries[KeyOf[c]] # None /\ entries[KeyOf[c]].tool # None
               /\ TakeLease(c)
      BY <3>1, TakeLeaseTyped
    <3>2. CASE /\ \/ pc' = [pc EXCEPT ![c] = "unregistered"]
                  \/ pc' = [pc EXCEPT ![c] = "failed"]
               /\ UNCHANGED <<entries, lease>>
      BY <3>2 DEF TypeOK, Pcs
    <3> QED BY <1>4, <3>1, <3>2 DEF Resume
  <2> QED BY <1>4, <2>1, <2>2 DEF Resume, TypeOK, taskVars
<1>5. ASSUME NEW c \in Consumers, Cancel(c) PROVE TypeOK'
  BY <1>5 DEF Cancel, TypeOK, Pcs, cacheVars, taskVars
<1>6. ASSUME NEW c \in Consumers, Disconnect(c) \/ Drop(c) PROVE TypeOK'
  BY <1>6 DEF Disconnect, Drop, TypeOK, Pcs, cacheVars, taskVars
<1>7. ASSUME NEW c \in Consumers, Release(c) PROVE TypeOK'
  <2> DEFINE table == Released(KeyOf[c])
  <2>1. table \in [Keys -> Entry \cup {None}]
    BY HelpersTyped
  <2>2. entries' = Collect(table) /\ conn' = StartClosing(StaleTools(table))
        /\ sweep' = [sweep EXCEPT ![c] = StaleTools(table)]
    BY <1>7 DEF Release
  <2> HIDE DEF table
  <2>3. Collect(table) \in [Keys -> Entry \cup {None}] /\ StaleTools(table) \subseteq Conns
    BY <2>1, HelpersTyped
  <2>4. conn' \in [Conns -> {"none", "opening", "open", "closing", "closed"}]
    BY <2>2, HelpersTyped
  <2>5. sweep' \in [Consumers -> SUBSET Conns]
    BY <2>2, <2>3 DEF TypeOK
  <2>6. pc' \in [Consumers -> Pcs] /\ lease' \in [Consumers -> Conns \cup {None}]
    BY <1>7 DEF Release, TypeOK, Pcs
  <2> QED BY <1>7, <2>2, <2>3, <2>4, <2>5, <2>6 DEF Release, TypeOK
<1>8. ASSUME NEW c \in Consumers, Leave(c) PROVE TypeOK'
  BY <1>8 DEF Leave, TypeOK, Pcs, cacheVars, taskVars
<1>9. ASSUME NEW x \in Conns, Store(x) PROVE TypeOK'
  <2>1. x[1] \in Keys /\ entries[x[1]] \in Entry
    BY <1>9, ConnKey DEF Store, OwnsEntry, KeyOfConn, TypeOK
  <2> DEFINE e == [entries[x[1]] EXCEPT !.tool = x, !.task = None, !.old = FALSE]
  <2>2. e \in Entry
    BY <2>1 DEF Entry
  <2>3. entries' = [entries EXCEPT ![x[1]] = e]
    BY <1>9, <2>1 DEF Store, KeyOfConn, TypeOK, Entry
  <2>4. entries' \in [Keys -> Entry \cup {None}]
    BY <2>2, <2>3 DEF TypeOK
  <2>5. /\ conn' \in [Conns -> {"none", "opening", "open", "closing", "closed"}]
        /\ task' \in [Conns -> {"none", "running", "done", "failed", "cancelling", "cancelled"}]
    BY <1>9 DEF Store, TypeOK
  <2> QED BY <1>9, <2>4, <2>5 DEF Store, TypeOK, userVars
<1>10. ASSUME NEW x \in Conns, ConnectFails(x) PROVE TypeOK'
  BY <1>10 DEF ConnectFails, TypeOK, KeyOfConn, userVars
<1>11. ASSUME NEW x \in Conns, ConnectCancelled(x) PROVE TypeOK'
  BY <1>11 DEF ConnectCancelled, TypeOK, cacheVars, userVars
<1>12. ASSUME NEW x \in Conns, Closed(x) PROVE TypeOK'
  BY <1>12 DEF Closed, TypeOK, cacheVars, userVars
<1>13. ASSUME NEW k \in Keys, Age(k) PROVE TypeOK'
  <2>1. entries' \in [Keys -> Entry \cup {None}]
    <3>1. entries[k] \in Entry
      BY <1>13 DEF Age, TypeOK
    <3>2. [entries[k] EXCEPT !.old = TRUE] \in Entry
      BY <3>1 DEF Entry
    <3>3. entries' = [entries EXCEPT ![k] = [entries[k] EXCEPT !.old = TRUE]]
      BY <1>13 DEF Age, TypeOK
    <3> QED BY <3>2, <3>3 DEF TypeOK
  <2> QED BY <1>13, <2>1 DEF Age, TypeOK, taskVars, userVars
<1>14. ASSUME CloseAll PROVE TypeOK'
  <2>1. Tracked("tool") \subseteq Conns
    BY DEF Tracked, TypeOK, Entry
  <2>2. Tracked("task") \subseteq Conns
    BY DEF Tracked, TypeOK, Entry
  <2>3. task' \in [Conns -> {"none", "running", "done", "failed", "cancelling", "cancelled"}]
    BY <1>14 DEF CloseAll, TypeOK
  <2>4. doomed' \in [tools : SUBSET Conns, tasks : SUBSET Conns]
    BY <1>14, <2>1, <2>2 DEF CloseAll
  <2> QED BY <1>14, <2>3, <2>4 DEF CloseAll, TypeOK, userVars
<1>15. ASSUME CloseTools PROVE TypeOK'
  <2>1. conn' \in [Conns -> {"none", "opening", "open", "closing", "closed"}]
    BY <1>15, HelpersTyped DEF CloseTools, CloseTaken
  <2> QED BY <1>15, <2>1 DEF CloseTools, TypeOK, userVars
<1>16. ASSUME CloseAborted PROVE TypeOK'
  BY <1>16 DEF CloseAborted, TypeOK, taskVars, userVars
<1>17. CASE UNCHANGED vars
  BY <1>17 DEF vars, cacheVars, taskVars, userVars, TypeOK
<1> QED BY <1>1, <1>2, <1>3, <1>4, <1>5, <1>6, <1>7, <1>8, <1>9, <1>10, <1>11, <1>12, <1>13,
           <1>14, <1>15, <1>16, <1>17 DEF Next

-----------------------------------------------------------------------------
(* Holders and their number.                                               *)

\* A lease is held until it is given back.
Holding == {"connected", "releasing", "dropped"}

\* The holders of a key can be counted.
LEMMA HoldersFinite ==
  ASSUME NEW k \in Keys
  PROVE  IsFiniteSet(Holders(k)) /\ Cardinality(Holders(k)) \in Nat
<1>1. Holders(k) \subseteq Consumers
  BY DEF Holders
<1> QED BY <1>1, FS_Subset, FS_CardinalityType

\* A consumer that neither takes nor gives back a lease.
LEMMA HoldersKept ==
  ASSUME TypeOK, NEW c \in Consumers, NEW next, pc' = [pc EXCEPT ![c] = next],
         pc[c] \in Holding <=> next \in Holding, NEW k \in Keys
  PROVE  Holders(k)' = Holders(k)
BY DEF Holders, Holding, TypeOK

\* One that takes a lease.
LEMMA HolderJoins ==
  ASSUME TypeOK, NEW c \in Consumers, NEW next \in Holding, pc' = [pc EXCEPT ![c] = next],
         pc[c] \notin Holding, NEW k \in Keys
  PROVE  Cardinality(Holders(k)') = Cardinality(Holders(k)) + (IF k = KeyOf[c] THEN 1 ELSE 0)
<1>1. CASE k = KeyOf[c]
  <2>1. Holders(k)' = Holders(k) \cup {c}
    BY <1>1 DEF Holders, Holding, TypeOK
  <2>2. c \notin Holders(k)
    BY DEF Holders, Holding
  <2> QED BY <1>1, <2>1, <2>2, HoldersFinite, FS_AddElement
<1>2. CASE k # KeyOf[c]
  <2>1. Holders(k)' = Holders(k)
    BY <1>2 DEF Holders, Holding, TypeOK
  <2> QED BY <1>2, <2>1, HoldersFinite
<1> QED BY <1>1, <1>2

\* One that gives its lease back.
LEMMA HolderLeaves ==
  ASSUME TypeOK, NEW c \in Consumers, NEW next, pc' = [pc EXCEPT ![c] = next],
         next \notin Holding, pc[c] \in Holding, NEW k \in Keys
  PROVE  Cardinality(Holders(k)') = Cardinality(Holders(k)) - (IF k = KeyOf[c] THEN 1 ELSE 0)
<1>1. CASE k = KeyOf[c]
  <2>1. Holders(k)' = Holders(k) \ {c}
    BY <1>1 DEF Holders, Holding, TypeOK
  <2>2. c \in Holders(k)
    BY <1>1 DEF Holders, Holding
  <2>3. Cardinality(Holders(k) \ {c}) = Cardinality(Holders(k)) - 1
    BY <2>2, HoldersFinite, FS_RemoveElement
  <2> QED BY <1>1, <2>1, <2>3
<1>2. CASE k # KeyOf[c]
  <2>1. Holders(k)' = Holders(k)
    BY <1>2 DEF Holders, Holding, TypeOK
  <2> QED BY <1>2, <2>1, HoldersFinite
<1> QED BY <1>1, <1>2

\* A key with a holder counts at least one, and one that counts none has none.
LEMMA HolderCounts ==
  ASSUME NEW k \in Keys, NEW c \in Holders(k)
  PROVE  Cardinality(Holders(k)) > 0
<1>1. Holders(k) # {}
  OBVIOUS
<1> QED BY <1>1, HoldersFinite, FS_EmptySet

-----------------------------------------------------------------------------
(* A connection and its task.                                              *)

\* A step moves a connection and its task together.
LEMMA PairedStep ==
  ASSUME TypeOK, PairedInv, Next
  PROVE  PairedInv'
<1> SUFFICES ASSUME NEW x \in Conns PROVE Paired(x)'
  BY DEF PairedInv
<1>0. Paired(x) /\ task[x] \in {"none", "running", "done", "failed", "cancelling", "cancelled"}
  BY DEF PairedInv, TypeOK
<1>1. CASE UNCHANGED <<conn, task>> /\ (closed => closed')
  BY <1>0, <1>1 DEF Paired
<1>2. ASSUME NEW tools, conn' = StartClosing(tools), task' = task, closed' = closed
      PROVE  Paired(x)'
  BY <1>0, <1>2 DEF Paired, StartClosing
<1>3. ASSUME NEW c \in Consumers, Lookup(c), closed' = closed PROVE Paired(x)'
  <2>1. CASE Open(c)
    <3>1. PICK n \in 1 .. MaxOpens :
            /\ conn[<<KeyOf[c], n>>] = "none"
            /\ conn' = [conn EXCEPT ![<<KeyOf[c], n>>] = "opening"]
            /\ task' = [task EXCEPT ![<<KeyOf[c], n>>] = "running"]
      BY <2>1 DEF Open
    <3> QED BY <1>0, <1>3, <3>1 DEF Paired, TypeOK
  <2> QED BY <1>1, <1>3, <2>1 DEF Lookup, Hit, Join, Refuse, taskVars
<1>4. ASSUME NEW c \in Consumers, Acquire(c) \/ Swept(c) PROVE Paired(x)'
  BY <1>3, <1>4 DEF Acquire, Swept
<1>5. ASSUME NEW c \in Consumers, AcquireSweeps(c) \/ Release(c) PROVE Paired(x)'
  BY <1>2, <1>5 DEF AcquireSweeps, Release
<1>6. ASSUME NEW y \in Conns, Store(y) PROVE Paired(x)'
  BY <1>0, <1>6 DEF Store, Paired, TypeOK
<1>7. ASSUME NEW y \in Conns, ConnectFails(y) PROVE Paired(x)'
  BY <1>0, <1>7 DEF ConnectFails, Paired, TypeOK
<1>8. ASSUME NEW y \in Conns, ConnectCancelled(y) PROVE Paired(x)'
  BY <1>0, <1>8 DEF ConnectCancelled, Paired, PairedInv, TypeOK, cacheVars
<1>9. ASSUME NEW y \in Conns, Closed(y) PROVE Paired(x)'
  BY <1>0, <1>9 DEF Closed, Paired, TypeOK, cacheVars
<1>10. CASE CloseAll
  BY <1>0, <1>10 DEF CloseAll, Paired, TypeOK
<1>11. CASE CloseTools
  BY <1>2, <1>11 DEF CloseTools, CloseTaken
<1>12. ASSUME NEW c \in Consumers, Resume(c) \/ Cancel(c) \/ Disconnect(c) \/ Drop(c) \/ Leave(c)
       PROVE  UNCHANGED <<conn, task>> /\ (closed => closed')
  BY <1>12 DEF Resume, Cancel, Disconnect, Drop, Leave, cacheVars, taskVars
<1>13. ASSUME NEW k \in Keys, Age(k) PROVE UNCHANGED <<conn, task>> /\ (closed => closed')
  BY <1>13 DEF Age, taskVars
<1>14. CloseAborted => UNCHANGED <<conn, task>> /\ (closed => closed')
  BY DEF CloseAborted, taskVars
<1> QED BY <1>1, <1>4, <1>5, <1>6, <1>7, <1>8, <1>9, <1>10, <1>11, <1>12, <1>13, <1>14 DEF Next

\* An acquire that waited for a task that is done finds its connection.
LEMMA RegisteredStep ==
  ASSUME McpInv, Next
  PROVE  NoLostRegistration'
<1> SUFFICES ASSUME NEW d \in Consumers PROVE pc'[d] # "unregistered"
  BY DEF NoLostRegistration
<1>0. TypeOK /\ pc[d] # "unregistered"
  BY DEF McpInv, NoLostRegistration
<1>1. ASSUME NEW c \in Consumers, Lookup(c) PROVE pc'[d] # "unregistered"
  BY <1>0, <1>1 DEF Lookup, Hit, Join, Open, Refuse, TakeLease, TypeOK
<1>2. ASSUME NEW c \in Consumers, Resume(c) PROVE pc'[d] # "unregistered"
  <2>1. ~closed /\ task[wait[c]] = "done" =>
          entries[KeyOf[c]] # None /\ entries[KeyOf[c]].tool # None
    BY <1>2, ConnKey DEF McpInv, OpenInv, WaitInv, Awaits, Resume
  <2> QED BY <1>0, <1>2, <2>1 DEF Resume, TakeLease, TypeOK
<1>3. ASSUME NEW c \in Consumers,
             \/ AcquireSweeps(c) \/ Cancel(c) \/ Disconnect(c) \/ Drop(c) \/ Release(c) \/ Leave(c)
      PROVE  pc'[d] # "unregistered"
  BY <1>0, <1>3 DEF AcquireSweeps, Cancel, Disconnect, Drop, Release, Leave, TypeOK
<1>4. ASSUME NEW x \in Conns, Store(x) \/ ConnectFails(x) \/ ConnectCancelled(x) \/ Closed(x)
      PROVE  pc' = pc
  BY <1>4 DEF Store, ConnectFails, ConnectCancelled, Closed, userVars
<1>5. ASSUME NEW k \in Keys, Age(k) PROVE pc' = pc
  BY <1>5 DEF Age, userVars
<1>6. CloseAll \/ CloseTools \/ CloseAborted => pc' = pc
  BY DEF CloseAll, CloseTools, CloseAborted, userVars
<1> QED BY <1>0, <1>1, <1>2, <1>3, <1>4, <1>5, <1>6 DEF Next, Acquire, Swept

-----------------------------------------------------------------------------
(* The table of an open cache.                                             *)

\* A key whose entry has its connection leases it.
LEMMA LeaseTaken ==
  ASSUME TypeOK, OpenInv, NEW c \in Consumers, TakeLease(c), pc[c] \notin Holding,
         entries[KeyOf[c]] # None, entries[KeyOf[c]].tool # None,
         UNCHANGED <<conn, task>>,
         wait' = wait \/ wait' = [wait EXCEPT ![c] = None]
  PROVE  OpenInv'
<1> DEFINE k == KeyOf[c]
<1>k. k \in Keys /\ entries[k] \in Entry /\ entries[k].tool # None
  BY DEF TypeOK
<1>1. PICK next \in Holding : pc' = [pc EXCEPT ![c] = next]
  BY DEF TakeLease, Holding
<1>2. /\ \A j \in Keys : j # k => entries'[j] = entries[j]
      /\ entries'[k] = [entries[k] EXCEPT !.refcount = @ + 1]
  BY <1>k DEF TakeLease, TypeOK
<1>3. /\ entries'[k].tool = entries[k].tool /\ entries'[k].task = entries[k].task
      /\ entries'[k].old = entries[k].old /\ entries'[k].refcount = entries[k].refcount + 1
      /\ entries'[k] # None
  <2>1. entries'[k] \in Entry
    BY <1>k, <1>2 DEF Entry
  <2>2. entries'[k] # None
    BY <2>1
  <2>3. /\ entries'[k].tool = entries[k].tool /\ entries'[k].task = entries[k].task
        /\ entries'[k].old = entries[k].old /\ entries'[k].refcount = entries[k].refcount + 1
    BY <1>k, <1>2 DEF Entry
  <2> QED BY <2>2, <2>3
<1>4. Opened(k)
  BY <1>k DEF OpenInv, EntryInv, Opening
<1>5. EntryInv'
  <2> SUFFICES ASSUME NEW j \in Keys, entries'[j] # None PROVE (Opening(j) \/ Opened(j))'
    BY DEF EntryInv
  <2>1. CASE j = k
    BY <1>3, <1>4, <2>1 DEF Opened
  <2>2. CASE j # k
    BY <1>2, <2>2 DEF OpenInv, EntryInv, Opening, Opened
  <2> QED BY <2>1, <2>2
<1>6. TrackedInv'
  BY ZenonT(60), <1>2, <1>3, ConnKey DEF OpenInv, TrackedInv
<1>7. WaitInv'
  <2> SUFFICES ASSUME NEW d \in Consumers, pc'[d] = "waiting" PROVE Awaits(d)'
    BY DEF WaitInv
  <2>1. d # c /\ pc[d] = "waiting" /\ wait'[d] = wait[d]
    BY <1>1 DEF TypeOK, Holding
  <2>2. Awaits(d) /\ KeyOf[d] \in Keys
    BY <2>1 DEF OpenInv, WaitInv
  <2> QED BY <1>2, <1>3, <2>1, <2>2 DEF Awaits
<1>8. LeaseInv'
  <2> SUFFICES ASSUME NEW d \in Consumers, pc'[d] \in Holding PROVE Leased(d)'
    BY DEF LeaseInv, Holding
  <2>1. CASE d = c
    BY <1>k, <1>3, <2>1 DEF Leased, TakeLease, TypeOK
  <2>2. CASE d # c
    <3>1. Leased(d) /\ lease'[d] = lease[d] /\ KeyOf[d] \in Keys
      BY <1>1, <2>2 DEF OpenInv, LeaseInv, TakeLease, TypeOK, Holding
    <3> QED BY <1>2, <1>3, <3>1 DEF Leased
  <2> QED BY <2>1, <2>2
<1>9. CountInv'
  <2> SUFFICES ASSUME NEW j \in Keys, entries'[j] # None
               PROVE  entries'[j].refcount = Cardinality(Holders(j)')
    BY DEF CountInv
  <2>1. entries[j] # None /\ entries[j].refcount = Cardinality(Holders(j))
    BY <1>2, <1>k DEF OpenInv, CountInv
  <2>2. Cardinality(Holders(j)') = Cardinality(Holders(j)) + (IF j = k THEN 1 ELSE 0)
    BY <1>1, HolderJoins
  <2>3. CASE j = k
    BY <1>3, <2>1, <2>2, <2>3
  <2>4. CASE j # k
    <3>1. entries'[j] = entries[j] /\ Cardinality(Holders(j)) \in Nat
      BY <1>2, <2>4, HoldersFinite
    <3> QED BY <2>1, <2>2, <2>4, <3>1
  <2> QED BY <2>3, <2>4
<1> QED BY <1>5, <1>6, <1>7, <1>8, <1>9 DEF OpenInv

\* A key that nobody has an entry for gets one, and the first who waits for it.
LEMMA ConnectStarted ==
  ASSUME TypeOK, PairedInv, OpenInv, NEW c \in Consumers, Open(c), pc[c] \notin Holding
  PROVE  OpenInv'
<1> DEFINE k == KeyOf[c]
<1>1. PICK n \in 1 .. MaxOpens :
        /\ conn[<<k, n>>] = "none"
        /\ entries' = [entries EXCEPT ![k] =
              [tool |-> None, task |-> <<k, n>>, refcount |-> 0, old |-> FALSE]]
        /\ conn' = [conn EXCEPT ![<<k, n>>] = "opening"]
        /\ task' = [task EXCEPT ![<<k, n>>] = "running"]
        /\ wait' = [wait EXCEPT ![c] = <<k, n>>]
  BY DEF Open
<1>2. k \in Keys /\ entries[k] = None /\ pc' = [pc EXCEPT ![c] = "waiting"] /\ lease' = lease
  BY DEF Open, Vacant
<1> DEFINE x == <<k, n>>
<1>3. x \in Conns /\ x[1] = k
  BY <1>2, Pairs
<1> HIDE DEF x
<1> DEFINE e == [tool |-> None, task |-> x, refcount |-> 0, old |-> FALSE]
<1>4. e \in Entry /\ e # None /\ e.task = x /\ e.tool = None /\ e.refcount = 0
  <2>1. e \in Entry
    BY <1>3 DEF Entry
  <2>2. e.task = x /\ e.tool = None /\ e.refcount = 0
    OBVIOUS
  <2> HIDE DEF e
  <2> QED BY <2>1, <2>2
<1>5. /\ conn[x] = "none" /\ entries' = [entries EXCEPT ![k] = e]
      /\ conn' = [conn EXCEPT ![x] = "opening"] /\ task' = [task EXCEPT ![x] = "running"]
      /\ wait' = [wait EXCEPT ![c] = x]
  BY <1>1 DEF x
<1> HIDE DEF e
<1>6. task[x] = "none"
  BY <1>3, <1>5 DEF PairedInv, Paired
<1>7. /\ \A j \in Keys : j # k => entries'[j] = entries[j]
      /\ entries'[k] = e
      /\ \A y \in Conns : y # x => conn'[y] = conn[y] /\ task'[y] = task[y]
      /\ conn'[x] = "opening" /\ task'[x] = "running"
  BY <1>2, <1>3, <1>5 DEF TypeOK
<1>8. EntryInv'
  <2> SUFFICES ASSUME NEW j \in Keys, entries'[j] # None PROVE (Opening(j) \/ Opened(j))'
    BY DEF EntryInv
  <2>1. CASE j = k
    BY <1>3, <1>4, <1>7, <2>1 DEF Opening
  <2>2. CASE j # k
    <3>1. Opening(j) \/ Opened(j)
      BY <1>7, <2>2 DEF OpenInv, EntryInv
    <3> QED BY <1>5, <1>6, <1>7, <2>2, <3>1 DEF Opening, Opened
  <2> QED BY <2>1, <2>2
<1>9. TrackedInv'
  BY <1>2, <1>3, <1>4, <1>7, ConnKey DEF OpenInv, TrackedInv
<1>10. WaitInv'
  <2> SUFFICES ASSUME NEW d \in Consumers, pc'[d] = "waiting" PROVE Awaits(d)'
    BY DEF WaitInv
  <2>1. CASE d = c
    BY <1>3, <1>5, <1>7, <2>1 DEF Awaits, TypeOK
  <2>2. CASE d # c
    <3>1. pc[d] = "waiting" /\ wait'[d] = wait[d] /\ KeyOf[d] \in Keys
      BY <1>2, <1>5, <2>2 DEF TypeOK
    <3>2. Awaits(d)
      BY <3>1 DEF OpenInv, WaitInv
    <3> QED BY <1>2, <1>6, <1>7, <3>1, <3>2 DEF Awaits
  <2> QED BY <2>1, <2>2
<1>11. LeaseInv'
  <2> SUFFICES ASSUME NEW d \in Consumers, pc'[d] \in Holding PROVE Leased(d)'
    BY DEF LeaseInv, Holding
  <2>1. pc[d] \in Holding /\ KeyOf[d] \in Keys
    BY <1>2 DEF TypeOK, Holding
  <2> QED BY <1>2, <1>7, <2>1 DEF OpenInv, LeaseInv, Leased, Holding
<1>12. CountInv'
  <2> SUFFICES ASSUME NEW j \in Keys, entries'[j] # None
               PROVE  entries'[j].refcount = Cardinality(Holders(j)')
    BY DEF CountInv
  <2>1. Holders(j)' = Holders(j)
    BY <1>2, HoldersKept DEF Holding
  <2>2. CASE j = k
    <3>1. Holders(k) = {}
      BY <1>2 DEF OpenInv, LeaseInv, Leased, Holders
    <3> QED BY <1>4, <1>7, <2>1, <2>2, <3>1, FS_EmptySet
  <2>3. CASE j # k
    BY <1>7, <2>1, <2>3 DEF OpenInv, CountInv
  <2> QED BY <2>2, <2>3
<1> QED BY <1>8, <1>9, <1>10, <1>11, <1>12 DEF OpenInv

\* The section that looks a key up.
LEMMA LookedUp ==
  ASSUME TypeOK, PairedInv, OpenInv, ~closed, NEW c \in Consumers, Lookup(c), pc[c] \notin Holding
  PROVE  OpenInv'
<1>1. CASE Hit(c)
  BY <1>1, LeaseTaken DEF Hit, taskVars
<1>2. CASE Join(c)
  <2> DEFINE k == KeyOf[c]
  <2>1. /\ k \in Keys /\ entries[k] # None /\ entries[k].tool = None
        /\ pc' = [pc EXCEPT ![c] = "waiting"] /\ wait' = [wait EXCEPT ![c] = entries[k].task]
        /\ UNCHANGED <<entries, conn, task, lease>>
    BY <1>2 DEF Join, taskVars
  <2>2. Opening(k)
    BY <2>1, ConnKey DEF OpenInv, EntryInv, Opened
  <2>3. EntryInv' /\ TrackedInv'
    BY <2>1 DEF OpenInv, EntryInv, TrackedInv, Opening, Opened
  <2>4. WaitInv'
    <3> SUFFICES ASSUME NEW d \in Consumers, pc'[d] = "waiting" PROVE Awaits(d)'
      BY DEF WaitInv
    <3>1. CASE d = c
      BY <2>1, <2>2, <3>1 DEF Awaits, Opening, TypeOK
    <3>2. CASE d # c
      BY <2>1, <3>2 DEF OpenInv, WaitInv, Awaits, TypeOK
    <3> QED BY <3>1, <3>2
  <2>5. LeaseInv'
    BY <2>1 DEF OpenInv, LeaseInv, Leased, TypeOK
  <2>6. \A j \in Keys : Holders(j)' = Holders(j)
    BY <2>1, HoldersKept DEF Holding
  <2>7. CountInv'
    BY <2>1, <2>6 DEF OpenInv, CountInv
  <2> QED BY <2>3, <2>4, <2>5, <2>7 DEF OpenInv
<1>3. CASE Open(c)
  BY <1>3, ConnectStarted
<1> QED BY <1>1, <1>2, <1>3 DEF Lookup

\* A table that loses idle entries only, whose connections are closed.
LEMMA SweepKeeps ==
  ASSUME TypeOK, OpenInv, task' = task, wait' = wait,
         NEW gone \in SUBSET Keys,
         \A k \in gone : Idle(entries[k]) /\ entries'[k] = None,
         \A k \in Keys \ gone :
            /\ (entries'[k] = None) = (entries[k] = None)
            /\ entries[k] # None => /\ entries'[k].tool = entries[k].tool
                                    /\ entries'[k].task = entries[k].task
                                    /\ entries'[k].old => entries[k].old
                                    /\ Opening(k) => entries'[k].refcount = 0,
         \A x \in Conns : conn'[x] = IF /\ conn[x] = "open"
                                        /\ \E k \in gone : entries[k].tool = x
                                     THEN "closing" ELSE conn[x],
         \A c \in Consumers : pc'[c] = "waiting" => pc[c] = "waiting"
  PROVE  EntryInv' /\ TrackedInv' /\ WaitInv'
<1>1. \A k \in gone : k \in Keys /\ Opened(k) /\ entries[k].old
  BY ConnKey DEF OpenInv, EntryInv, Idle, Opening, Opened
<1>2. \A x \in Conns : conn'[x] = "closing" /\ conn[x] = "open" => x[1] \in gone
  BY <1>1 DEF Opened
<1>3. EntryInv'
  <2> SUFFICES ASSUME NEW k \in Keys, entries'[k] # None PROVE (Opening(k) \/ Opened(k))'
    BY DEF EntryInv
  <2>1. k \notin gone /\ (Opening(k) \/ Opened(k)) /\ entries[k] # None
    BY DEF OpenInv, EntryInv
  <2>2. CASE Opening(k)
    BY <2>1, <2>2 DEF Opening
  <2>3. CASE Opened(k)
    <3>1. conn'[entries[k].tool] = "open"
      BY <1>2, <2>1, <2>3 DEF Opened
    <3> QED BY <2>1, <2>3, <3>1 DEF Opened
  <2> QED BY <2>1, <2>2, <2>3
<1>4. TrackedInv'
  <2> SUFFICES ASSUME NEW x \in Conns
               PROVE  /\ task'[x] = "running" => entries'[x[1]] # None /\ entries'[x[1]].task = x
                      /\ conn'[x] = "open" => entries'[x[1]] # None /\ entries'[x[1]].tool = x
    BY DEF TrackedInv
  <2>0. x[1] \in Keys /\ x # None
    BY ConnKey
  <2>1. ASSUME task[x] = "running" PROVE entries'[x[1]] # None /\ entries'[x[1]].task = x
    <3>1. entries[x[1]] # None /\ entries[x[1]].task = x
      BY <2>1 DEF OpenInv, TrackedInv
    <3>2. x[1] \notin gone
      BY <1>1, <2>0, <3>1 DEF Opened
    <3> QED BY <2>0, <3>1, <3>2
  <2>2. ASSUME conn'[x] = "open" PROVE entries'[x[1]] # None /\ entries'[x[1]].tool = x
    <3>1. conn[x] = "open" /\ ~\E k \in gone : entries[k].tool = x
      BY <2>2
    <3>2. entries[x[1]] # None /\ entries[x[1]].tool = x
      BY <3>1 DEF OpenInv, TrackedInv
    <3> QED BY <2>0, <3>1, <3>2
  <2> QED BY <2>1, <2>2
<1>5. WaitInv'
  <2> SUFFICES ASSUME NEW c \in Consumers, pc'[c] = "waiting" PROVE Awaits(c)'
    BY DEF WaitInv
  <2>1. Awaits(c) /\ KeyOf[c] \in Keys
    BY DEF OpenInv, WaitInv
  <2>2. ASSUME task[wait[c]] = "done"
        PROVE  /\ entries'[KeyOf[c]] # None /\ entries'[KeyOf[c]].tool = wait[c]
               /\ ~entries'[KeyOf[c]].old
    <3>1. KeyOf[c] \notin gone
      BY <1>1, <2>1, <2>2 DEF Awaits
    <3> QED BY <2>1, <2>2, <3>1 DEF Awaits
  <2> QED BY <2>1, <2>2 DEF Awaits
<1> QED BY <1>3, <1>4, <1>5

-----------------------------------------------------------------------------
(* The theorems.                                                           *)

\* While the cache is open every step keeps the table.
LEMMA OpenStep ==
  ASSUME McpInv, Next, ~closed'
  PROVE  OpenInv'
<1>0. TypeOK /\ PairedInv /\ (~closed => OpenInv)
  BY DEF McpInv
<1>n. None \notin Conns
  OBVIOUS
<1>1. ASSUME NEW c \in Consumers, Acquire(c) \/ Swept(c) PROVE OpenInv'
  <2>1. ~closed /\ Lookup(c) /\ pc[c] \notin Holding
    BY <1>1 DEF Acquire, Swept, Holding
  <2> QED BY <1>0, <2>1, LookedUp
<1>2. ASSUME NEW c \in Consumers, AcquireSweeps(c) PROVE OpenInv'
  <2>1. OpenInv /\ ~closed
    BY <1>0, <1>2 DEF AcquireSweeps
  <2> DEFINE gone == StaleKeys(entries)
  <2>2. gone \in SUBSET Keys /\ \A k \in gone : Idle(entries[k])
    BY DEF StaleKeys
  <2>3. \A k \in Keys : entries'[k] = IF k \in gone THEN None ELSE entries[k]
    BY <1>2 DEF AcquireSweeps, Collect, StaleKeys
  <2>4. \A x \in Conns : conn'[x] = IF /\ conn[x] = "open"
                                       /\ \E k \in gone : entries[k].tool = x
                                    THEN "closing" ELSE conn[x]
    BY <1>2 DEF AcquireSweeps, StartClosing, StaleTools
  <2>5. pc' = [pc EXCEPT ![c] = "sweeping"] /\ pc[c] \notin Holding /\ pc[c] # "waiting"
        /\ UNCHANGED <<task, wait, lease>>
    BY <1>2 DEF AcquireSweeps, Holding
  <2>6. \A d \in Consumers : pc'[d] = "waiting" => pc[d] = "waiting"
    BY <1>0, <2>5 DEF TypeOK
  <2> HIDE DEF gone
  <2>7. EntryInv' /\ TrackedInv' /\ WaitInv'
    <3>1. \A k \in Keys \ gone :
            /\ (entries'[k] = None) = (entries[k] = None)
            /\ entries[k] # None => /\ entries'[k].tool = entries[k].tool
                                    /\ entries'[k].task = entries[k].task
                                    /\ entries'[k].old => entries[k].old
                                    /\ Opening(k) => entries'[k].refcount = 0
      BY <2>3 DEF Opening
    <3>2. \A k \in gone : Idle(entries[k]) /\ entries'[k] = None
      BY <2>2, <2>3
    <3> QED BY <1>0, <2>1, <2>2, <2>4, <2>5, <2>6, <3>1, <3>2, SweepKeeps
  <2>8. \A k \in Keys : Holders(k)' = Holders(k)
    BY <1>0, <2>5, HoldersKept DEF Holding
  <2>9. LeaseInv'
    <3> SUFFICES ASSUME NEW d \in Consumers, pc'[d] \in Holding PROVE Leased(d)'
      BY DEF LeaseInv, Holding
    <3>1. pc[d] \in Holding /\ KeyOf[d] \in Keys
      BY <1>0, <2>5 DEF TypeOK, Holding
    <3>2. Leased(d) /\ d \in Holders(KeyOf[d])
      BY <2>1, <3>1 DEF OpenInv, LeaseInv, Holding, Holders
    <3>3. entries[KeyOf[d]].refcount > 0
      BY <2>1, <3>1, <3>2, HolderCounts DEF OpenInv, CountInv, Leased
    <3>4. KeyOf[d] \notin gone
      BY <2>2, <3>3 DEF Idle
    <3> QED BY <2>3, <2>5, <3>1, <3>2, <3>4 DEF Leased
  <2>10. CountInv'
    BY <2>1, <2>3, <2>8 DEF OpenInv, CountInv
  <2> QED BY <2>7, <2>9, <2>10 DEF OpenInv
<1>3. ASSUME NEW c \in Consumers, Resume(c) PROVE OpenInv'
  <2>1. OpenInv /\ ~closed /\ pc[c] = "waiting" /\ wait' = [wait EXCEPT ![c] = None]
        /\ UNCHANGED <<conn, task>>
    BY <1>0, <1>3 DEF Resume, taskVars
  <2>2. CASE /\ entries[KeyOf[c]] # None /\ entries[KeyOf[c]].tool # None
             /\ TakeLease(c)
    BY <1>0, <2>1, <2>2, LeaseTaken DEF Holding
  <2>3. ASSUME NEW next \in {"unregistered", "failed"}, pc' = [pc EXCEPT ![c] = next],
               UNCHANGED <<entries, lease>>
        PROVE  OpenInv'
    <3>1. \A k \in Keys : Holders(k)' = Holders(k)
      BY <1>0, <2>1, <2>3, HoldersKept DEF Holding
    <3>2. EntryInv' /\ TrackedInv' /\ CountInv'
      BY <2>1, <2>3, <3>1 DEF OpenInv, EntryInv, TrackedInv, CountInv, Opening, Opened
    <3>3. WaitInv' /\ LeaseInv'
      BY <1>0, <2>1, <2>3 DEF OpenInv, WaitInv, Awaits, LeaseInv, Leased, TypeOK
    <3> QED BY <3>2, <3>3 DEF OpenInv
  <2> QED BY <1>3, <2>2, <2>3 DEF Resume
<1>4. ASSUME NEW c \in Consumers, Cancel(c) \/ Disconnect(c) \/ Drop(c) \/ Leave(c) PROVE OpenInv'
  <2>1. OpenInv /\ UNCHANGED <<entries, conn, task, lease>>
    BY <1>0, <1>4 DEF Cancel, Disconnect, Drop, Leave, cacheVars, taskVars
  <2>2. PICK next \in {"leaving", "idle", "releasing", "dropped"} :
          /\ pc' = [pc EXCEPT ![c] = next]
          /\ pc[c] \in Holding <=> next \in Holding
    BY <1>4 DEF Cancel, Disconnect, Drop, Leave, Holding
  <2>3. \A k \in Keys : Holders(k)' = Holders(k)
    BY <1>0, <2>2, HoldersKept
  <2>4. \A d \in Consumers : pc'[d] = "waiting" => pc[d] = "waiting" /\ wait'[d] = wait[d]
    BY <1>0, <1>4, <2>2 DEF Cancel, Disconnect, Drop, Leave, TypeOK
  <2>5. EntryInv' /\ TrackedInv' /\ CountInv'
    BY <2>1, <2>3 DEF OpenInv, EntryInv, TrackedInv, CountInv, Opening, Opened
  <2>6. WaitInv'
    BY <2>1, <2>4 DEF OpenInv, WaitInv, Awaits
  <2>7. LeaseInv'
    BY <1>0, <2>1, <2>2 DEF OpenInv, LeaseInv, Leased, Holding, TypeOK
  <2> QED BY <2>5, <2>6, <2>7 DEF OpenInv
<1>5. ASSUME NEW c \in Consumers, Release(c) PROVE OpenInv'
  <2> DEFINE k == KeyOf[c]
             table == Released(k)
             gone == StaleKeys(table)
  <2>1. OpenInv /\ k \in Keys
    BY <1>0, <1>5 DEF Release
  <2>2. /\ pc' = [pc EXCEPT ![c] = "leaving"] /\ pc[c] = "releasing"
        /\ UNCHANGED <<task, wait>> /\ lease' = [lease EXCEPT ![c] = None]
        /\ entries' = Collect(table) /\ conn' = StartClosing(StaleTools(table))
    BY <1>5 DEF Release
  <2>3. c \in Holders(k)
    BY <2>2 DEF Holders
  <2>4. /\ entries[k] # None /\ entries[k] \in Entry /\ Opened(k)
        /\ entries[k].refcount = Cardinality(Holders(k)) /\ entries[k].refcount > 0
    <3>1. Leased(c)
      BY <2>1, <2>2 DEF OpenInv, LeaseInv
    <3>2. entries[k] # None /\ entries[k].tool # None
      BY <3>1 DEF Leased
    <3>3. entries[k].refcount = Cardinality(Holders(k))
      BY <2>1, <3>2 DEF OpenInv, CountInv
    <3>4. Opened(k)
      BY <2>1, <3>2 DEF OpenInv, EntryInv, Opening
    <3> QED BY <1>0, <2>1, <2>3, <3>2, <3>3, <3>4, HolderCounts DEF TypeOK
  <2>5. /\ table[k] # None /\ table[k].tool = entries[k].tool /\ table[k].task = entries[k].task
        /\ table[k].refcount = entries[k].refcount - 1
        /\ table[k].old => entries[k].old
        /\ table[k].refcount = 0 => ~table[k].old
        /\ \A j \in Keys : j # k => table[j] = entries[j]
    <3> DEFINE e == [entries[k] EXCEPT !.refcount = @ - 1,
                                       !.old = IF entries[k].refcount = 1 THEN FALSE ELSE @]
    <3>1. entries[k].refcount - 1 \in Nat
      BY <2>4 DEF Entry
    <3>2. e \in Entry
      BY <2>4, <3>1 DEF Entry
    <3>3. /\ e.tool = entries[k].tool /\ e.task = entries[k].task
          /\ e.refcount = entries[k].refcount - 1
          /\ e.old = IF entries[k].refcount = 1 THEN FALSE ELSE entries[k].old
      BY <2>4 DEF Entry
    <3>4. table = [entries EXCEPT ![k] = e]
      BY <1>0, <2>1, <2>4 DEF Released, Entry, TypeOK
    <3> HIDE DEF e, table
    <3>5. table[k] = e /\ \A j \in Keys : j # k => table[j] = entries[j]
      BY <1>0, <2>1, <3>4 DEF TypeOK
    <3>6. e # None /\ entries[k].refcount \in Nat
      BY <2>4, <3>2 DEF Entry
    <3>7. e.refcount = 0 => ~e.old
      BY <3>3, <3>6
    <3>8. e.old => entries[k].old
      BY <3>3
    <3> QED BY <3>3, <3>5, <3>6, <3>7, <3>8
  <2> HIDE DEF table
  <2>6. gone \in SUBSET Keys /\ k \notin gone /\ \A j \in gone : j # k /\ Idle(entries[j])
    BY <2>5 DEF StaleKeys, Idle
  <2>7. \A j \in Keys : entries'[j] = IF j \in gone THEN None ELSE table[j]
    BY <2>2 DEF Collect, StaleKeys
  <2>8. \A x \in Conns : conn'[x] = IF /\ conn[x] = "open"
                                       /\ \E j \in gone : entries[j].tool = x
                                    THEN "closing" ELSE conn[x]
    BY <2>2, <2>5, <2>6 DEF StartClosing, StaleTools
  <2> HIDE DEF gone
  <2>9. EntryInv' /\ TrackedInv' /\ WaitInv'
    <3>1. \A j \in Keys \ gone :
            /\ (entries'[j] = None) = (entries[j] = None)
            /\ entries[j] # None => /\ entries'[j].tool = entries[j].tool
                                    /\ entries'[j].task = entries[j].task
                                    /\ entries'[j].old => entries[j].old
                                    /\ Opening(j) => entries'[j].refcount = 0
      <4> SUFFICES ASSUME NEW j \in Keys \ gone
                   PROVE  /\ (entries'[j] = None) = (entries[j] = None)
                          /\ entries[j] # None => /\ entries'[j].tool = entries[j].tool
                                                  /\ entries'[j].task = entries[j].task
                                                  /\ entries'[j].old => entries[j].old
                                                  /\ Opening(j) => entries'[j].refcount = 0
        OBVIOUS
      <4>1. CASE j = k
        <5>1. ~Opening(j)
          BY <1>n, <2>4, <4>1 DEF Opening, Opened
        <5> QED BY <2>4, <2>5, <2>7, <4>1, <5>1
      <4>2. CASE j # k
        BY <2>5, <2>7, <4>2 DEF Opening
      <4> QED BY <4>1, <4>2
    <3>2. \A j \in gone : Idle(entries[j]) /\ entries'[j] = None
      BY <2>6, <2>7
    <3>3. \A d \in Consumers : pc'[d] = "waiting" => pc[d] = "waiting"
      BY <1>0, <2>2 DEF TypeOK
    <3> QED BY ZenonT(60), <1>0, <2>1, <2>2, <2>6, <2>8, <3>1, <3>2, <3>3, SweepKeeps
  <2>10. LeaseInv'
    <3> SUFFICES ASSUME NEW d \in Consumers, pc'[d] \in Holding PROVE Leased(d)'
      BY DEF LeaseInv, Holding
    <3>1. d # c /\ pc[d] \in Holding /\ lease'[d] = lease[d] /\ KeyOf[d] \in Keys
      BY <1>0, <2>2 DEF TypeOK, Holding
    <3>2. Leased(d) /\ d \in Holders(KeyOf[d])
      BY <2>1, <3>1 DEF OpenInv, LeaseInv, Holding, Holders
    <3>3. entries[KeyOf[d]].refcount > 0
      BY <2>1, <3>1, <3>2, HolderCounts DEF OpenInv, CountInv, Leased
    <3>4. KeyOf[d] \notin gone
      BY <2>6, <3>3 DEF Idle
    <3> QED BY <2>5, <2>7, <3>1, <3>2, <3>4 DEF Leased
  <2>11. CountInv'
    <3> SUFFICES ASSUME NEW j \in Keys, entries'[j] # None
                 PROVE  entries'[j].refcount = Cardinality(Holders(j)')
      BY DEF CountInv
    <3>1. Cardinality(Holders(j)') = Cardinality(Holders(j)) - (IF j = k THEN 1 ELSE 0)
      <4>1. "leaving" \notin Holding /\ pc[c] \in Holding
        BY <2>2 DEF Holding
      <4> QED BY <1>0, <2>2, <4>1, HolderLeaves
    <3>2. j \notin gone /\ entries'[j] = table[j]
      BY <2>7
    <3>3. CASE j = k
      BY <2>4, <2>5, <3>1, <3>2, <3>3
    <3>4. CASE j # k
      <4>1. entries'[j] = entries[j] /\ Cardinality(Holders(j)) \in Nat
        BY <2>5, <3>2, <3>4, HoldersFinite
      <4> QED BY <2>1, <3>1, <3>4, <4>1 DEF OpenInv, CountInv
    <3> QED BY <3>3, <3>4
  <2> QED BY <2>9, <2>10, <2>11 DEF OpenInv
<1>6. ASSUME NEW x \in Conns, Store(x) PROVE OpenInv'
  <2> DEFINE k == x[1]
  <2>1. /\ OpenInv /\ k \in Keys /\ x # None /\ task[x] = "running" /\ conn[x] = "opening"
        /\ entries[k] # None /\ entries[k].task = x
        /\ conn' = [conn EXCEPT ![x] = "open"] /\ task' = [task EXCEPT ![x] = "done"]
        /\ UNCHANGED <<pc, wait, lease>>
    BY <1>0, <1>6, ConnKey DEF Store, OwnsEntry, KeyOfConn, userVars
  <2>2. entries[k] \in Entry /\ Opening(k)
    BY <1>0, <1>n, <2>1 DEF TypeOK, OpenInv, EntryInv, Opened
  <2>3. /\ entries'[k] # None /\ entries'[k].tool = x /\ entries'[k].task = None
        /\ ~entries'[k].old /\ entries'[k].refcount = entries[k].refcount
        /\ \A j \in Keys : j # k => entries'[j] = entries[j]
    <3> DEFINE e == [entries[k] EXCEPT !.tool = x, !.task = None, !.old = FALSE]
    <3>1. e \in Entry
      BY <2>2 DEF Entry
    <3>2. e.tool = x /\ e.task = None /\ ~e.old /\ e.refcount = entries[k].refcount
      BY <2>2 DEF Entry
    <3>3. entries' = [entries EXCEPT ![k] = e]
      BY <1>0, <1>6, <2>1, <2>2 DEF Store, KeyOfConn, TypeOK, Entry
    <3> HIDE DEF e
    <3> QED BY <1>0, <2>1, <3>1, <3>2, <3>3 DEF TypeOK
  <2>4. \A y \in Conns : y # x => conn'[y] = conn[y] /\ task'[y] = task[y]
    BY <1>0, <2>1 DEF TypeOK
  <2>5. conn'[x] = "open" /\ task'[x] = "done"
    BY <1>0, <2>1 DEF TypeOK
  <2>6. EntryInv'
    <3> SUFFICES ASSUME NEW j \in Keys, entries'[j] # None PROVE (Opening(j) \/ Opened(j))'
      BY DEF EntryInv
    <3>1. CASE j = k
      BY <2>3, <2>5, <3>1 DEF Opened
    <3>2. CASE j # k
      <4>1. Opening(j) \/ Opened(j)
        BY <2>1, <2>3, <3>2 DEF OpenInv, EntryInv
      <4> QED BY <2>3, <2>4, <3>2, <4>1 DEF Opening, Opened
    <3> QED BY <3>1, <3>2
  <2>7. TrackedInv'
    <3> SUFFICES ASSUME NEW y \in Conns
                 PROVE  /\ task'[y] = "running" => entries'[y[1]] # None /\ entries'[y[1]].task = y
                        /\ conn'[y] = "open" => entries'[y[1]] # None /\ entries'[y[1]].tool = y
      BY DEF TrackedInv
    <3>1. CASE y = x
      BY <2>3, <2>5, <3>1
    <3>2. CASE y # x
      <4>1. y[1] # k \/ (task[y] # "running" /\ conn[y] # "open")
        BY <1>n, <2>1, <2>2, <3>2 DEF OpenInv, TrackedInv, Opening
      <4> QED BY <2>1, <2>3, <2>4, <3>2, <4>1, ConnKey DEF OpenInv, TrackedInv
    <3> QED BY <3>1, <3>2
  <2>8. WaitInv'
    <3> SUFFICES ASSUME NEW d \in Consumers, pc'[d] = "waiting" PROVE Awaits(d)'
      BY DEF WaitInv
    <3>1. Awaits(d) /\ wait'[d] = wait[d] /\ KeyOf[d] \in Keys
      BY <2>1 DEF OpenInv, WaitInv
    <3>2. CASE wait[d] = x
      BY <2>3, <2>5, <3>1, <3>2 DEF Awaits
    <3>3. CASE wait[d] # x
      <4>1. task[wait[d]] = "done" => KeyOf[d] # k
        BY <2>2, <3>1, ConnKey DEF Awaits, Opening
      <4> QED BY <2>3, <2>4, <3>1, <3>3, <4>1 DEF Awaits
    <3> QED BY <3>2, <3>3
  <2>9. LeaseInv'
    <3> SUFFICES ASSUME NEW d \in Consumers, pc'[d] \in Holding PROVE Leased(d)'
      BY DEF LeaseInv, Holding
    <3>1. Leased(d) /\ KeyOf[d] \in Keys
      BY <2>1 DEF OpenInv, LeaseInv, Holding
    <3>2. KeyOf[d] # k
      BY <2>2, <3>1 DEF Leased, Opening
    <3> QED BY <2>1, <2>3, <3>1, <3>2 DEF Leased
  <2>10. CountInv'
    BY ZenonT(60), <2>1, <2>3 DEF OpenInv, CountInv, Holders
  <2> QED BY <2>6, <2>7, <2>8, <2>9, <2>10 DEF OpenInv
<1>7. ASSUME NEW x \in Conns, ConnectFails(x) PROVE OpenInv'
  <2> DEFINE k == x[1]
  <2>1. /\ OpenInv /\ k \in Keys /\ x # None /\ task[x] = "running"
        /\ conn' = [conn EXCEPT ![x] = "closed"] /\ task' = [task EXCEPT ![x] = "failed"]
        /\ UNCHANGED <<pc, wait, lease>>
    BY <1>0, <1>7, ConnKey DEF ConnectFails, userVars
  <2>2. entries[k] # None /\ entries[k].task = x
    BY <2>1 DEF OpenInv, TrackedInv
  <2>3. entries' = [entries EXCEPT ![k] = None]
    BY <1>7, <2>2 DEF ConnectFails, OwnsEntry, KeyOfConn
  <2>4. entries'[k] = None /\ \A j \in Keys : j # k => entries'[j] = entries[j]
    BY <1>0, <2>1, <2>3 DEF TypeOK
  <2>5. /\ \A y \in Conns : y # x => conn'[y] = conn[y] /\ task'[y] = task[y]
        /\ conn'[x] = "closed" /\ task'[x] = "failed"
    BY <1>0, <2>1 DEF TypeOK
  <2>6. Opening(k)
    BY <1>n, <2>1, <2>2 DEF OpenInv, EntryInv, Opened
  <2>7. EntryInv'
    <3> SUFFICES ASSUME NEW j \in Keys, entries'[j] # None PROVE (Opening(j) \/ Opened(j))'
      BY DEF EntryInv
    <3>1. j # k /\ (Opening(j) \/ Opened(j))
      BY <2>1, <2>4 DEF OpenInv, EntryInv
    <3> QED BY <2>4, <2>5, <3>1 DEF Opening, Opened
  <2>8. TrackedInv'
    <3> SUFFICES ASSUME NEW y \in Conns
                 PROVE  /\ task'[y] = "running" => entries'[y[1]] # None /\ entries'[y[1]].task = y
                        /\ conn'[y] = "open" => entries'[y[1]] # None /\ entries'[y[1]].tool = y
      BY DEF TrackedInv
    <3>1. CASE y = x
      BY <2>5, <3>1
    <3>2. CASE y # x
      <4>1. y[1] # k \/ (task[y] # "running" /\ conn[y] # "open")
        BY <1>n, <2>1, <2>2, <2>6, <3>2 DEF OpenInv, TrackedInv, Opening
      <4> QED BY <2>1, <2>4, <2>5, <3>2, <4>1, ConnKey DEF OpenInv, TrackedInv
    <3> QED BY <3>1, <3>2
  <2>9. WaitInv'
    <3> SUFFICES ASSUME NEW d \in Consumers, pc'[d] = "waiting" PROVE Awaits(d)'
      BY DEF WaitInv
    <3>1. Awaits(d) /\ wait'[d] = wait[d] /\ KeyOf[d] \in Keys
      BY <2>1 DEF OpenInv, WaitInv
    <3>2. CASE wait[d] = x
      BY <2>5, <3>1, <3>2 DEF Awaits
    <3>3. CASE wait[d] # x
      <4>1. task[wait[d]] = "done" => KeyOf[d] # k
        BY <2>6, <3>1, ConnKey DEF Awaits, Opening
      <4> QED BY <2>4, <2>5, <3>1, <3>3, <4>1 DEF Awaits
    <3> QED BY <3>2, <3>3
  <2>10. LeaseInv'
    <3> SUFFICES ASSUME NEW d \in Consumers, pc'[d] \in Holding PROVE Leased(d)'
      BY DEF LeaseInv, Holding
    <3>1. Leased(d) /\ KeyOf[d] \in Keys
      BY <2>1 DEF OpenInv, LeaseInv, Holding
    <3>2. KeyOf[d] # k
      BY <2>6, <3>1 DEF Leased, Opening
    <3> QED BY <2>1, <2>4, <3>1, <3>2 DEF Leased
  <2>11. CountInv'
    BY <2>1, <2>4 DEF OpenInv, CountInv, Holders
  <2> QED BY <2>7, <2>8, <2>9, <2>10, <2>11 DEF OpenInv
<1>8. ASSUME NEW x \in Conns, ConnectCancelled(x) PROVE OpenInv'
  \* Only a close of the cache cancels connect tasks.
  <2>1. closed' = closed
    BY <1>8 DEF ConnectCancelled, cacheVars
  <2> QED BY <1>0, <1>8, <2>1 DEF ConnectCancelled, PairedInv, Paired
<1>9. ASSUME NEW x \in Conns, Closed(x) PROVE OpenInv'
  <2>1. OpenInv /\ conn[x] = "closing" /\ conn' = [conn EXCEPT ![x] = "closed"]
        /\ UNCHANGED <<entries, task, pc, wait, lease>>
    BY <1>0, <1>9 DEF Closed, cacheVars, userVars
  <2>2. \A y \in Conns : conn'[y] = "open" <=> conn[y] = "open"
    BY <1>0, <2>1 DEF TypeOK
  <2>3. EntryInv' /\ TrackedInv'
    BY <2>1, <2>2 DEF OpenInv, EntryInv, TrackedInv, Opening, Opened
  <2>4. WaitInv' /\ LeaseInv' /\ CountInv'
    BY <2>1 DEF OpenInv, WaitInv, Awaits, LeaseInv, Leased, CountInv, Holders
  <2> QED BY <2>3, <2>4 DEF OpenInv
<1>10. ASSUME NEW k \in Keys, Age(k) PROVE OpenInv'
  <2>1. /\ OpenInv /\ entries[k] # None /\ entries[k].tool # None /\ entries[k] \in Entry
        /\ entries' = [entries EXCEPT ![k].old = TRUE]
        /\ \A c \in Consumers : ~(pc[c] = "waiting" /\ wait[c] = entries[k].tool)
        /\ UNCHANGED <<conn, task, pc, wait, lease>>
    BY <1>0, <1>10 DEF Age, TypeOK, taskVars, userVars
  <2>2. /\ entries'[k] # None /\ entries'[k].tool = entries[k].tool
        /\ entries'[k].task = entries[k].task /\ entries'[k].refcount = entries[k].refcount
        /\ \A j \in Keys : j # k => entries'[j] = entries[j]
    <3> DEFINE e == [entries[k] EXCEPT !.old = TRUE]
    <3>1. e \in Entry
      BY <2>1 DEF Entry
    <3>2. e.tool = entries[k].tool /\ e.task = entries[k].task /\ e.refcount = entries[k].refcount
      BY <2>1 DEF Entry
    <3>3. entries' = [entries EXCEPT ![k] = e]
      BY <1>0, <2>1 DEF TypeOK
    <3> HIDE DEF e
    <3> QED BY <1>0, <3>1, <3>2, <3>3 DEF TypeOK
  <2>3. EntryInv' /\ TrackedInv'
    BY <2>1, <2>2, ConnKey DEF OpenInv, EntryInv, TrackedInv, Opening, Opened
  <2>4. WaitInv'
    <3> SUFFICES ASSUME NEW d \in Consumers, pc'[d] = "waiting" PROVE Awaits(d)'
      BY DEF WaitInv
    <3>1. Awaits(d) /\ wait'[d] = wait[d] /\ KeyOf[d] \in Keys /\ wait[d] # entries[k].tool
      BY <2>1 DEF OpenInv, WaitInv
    <3>2. task[wait[d]] = "done" => KeyOf[d] # k
      BY <3>1 DEF Awaits
    <3> QED BY <2>1, <2>2, <3>1, <3>2 DEF Awaits
  <2>5. LeaseInv'
    BY <2>1, <2>2 DEF OpenInv, LeaseInv, Leased
  <2>6. CountInv'
    BY <2>1, <2>2 DEF OpenInv, CountInv, Holders
  <2> QED BY <2>3, <2>4, <2>5, <2>6 DEF OpenInv
<1>11. ~CloseAll
  BY DEF CloseAll
<1>12. ASSUME CloseTools \/ CloseAborted PROVE OpenInv'
  <2>1. closed' = closed /\ closing = "gather"
    BY <1>12 DEF CloseTools, CloseAborted
  <2> QED BY <1>0, <2>1, <1>12 DEF McpInv
<1> QED BY <1>1, <1>2, <1>3, <1>4, <1>5, <1>6, <1>7, <1>8, <1>9, <1>10, <1>11, <1>12 DEF Next

\* Nothing is being closed before close_all.
LEMMA ClosingStep ==
  ASSUME closing # "no" => closed, Next
  PROVE  closing' # "no" => closed'
BY DEF Next, Acquire, AcquireSweeps, Swept, Resume, Cancel, Disconnect, Drop, Release, Leave, Store,
       ConnectFails, ConnectCancelled, Closed, CloseAll, CloseTools, CloseAborted, Age, cacheVars

\* The inductive invariant.
THEOREM McpHolds == Spec => []McpInv
<1>1. Init => McpInv
  <2> SUFFICES ASSUME Init PROVE McpInv
    OBVIOUS
  <2>1. TypeOK
    BY DEF Init, TypeOK, Pcs
  <2>2. PairedInv /\ NoLostRegistration /\ closing = "no"
    BY DEF Init, PairedInv, Paired, NoLostRegistration
  <2>3. EntryInv /\ TrackedInv /\ WaitInv /\ LeaseInv /\ CountInv
    BY DEF Init, EntryInv, TrackedInv, WaitInv, LeaseInv, CountInv
  <2> QED BY <2>1, <2>2, <2>3 DEF McpInv, OpenInv
<1>2. McpInv /\ [Next]_vars => McpInv'
  <2> SUFFICES ASSUME McpInv, [Next]_vars PROVE McpInv'
    OBVIOUS
  <2>1. CASE Next
    <3>1. TypeOK' /\ PairedInv'
      BY <2>1, TypeStep, PairedStep DEF McpInv
    <3>2. NoLostRegistration' /\ (closing' # "no" => closed')
      BY <2>1, RegisteredStep, ClosingStep DEF McpInv
    <3>3. ~closed' => OpenInv'
      BY <2>1, OpenStep
    <3> QED BY <3>1, <3>2, <3>3 DEF McpInv
  <2>2. CASE UNCHANGED vars
    <3>1. TypeOK'
      BY TypeStep DEF McpInv
    <3>2. UNCHANGED <<entries, closed, closing, conn, task, pc, wait, lease>>
      BY <2>2 DEF vars, cacheVars, taskVars, userVars
    <3>3. PairedInv' /\ NoLostRegistration'
      BY <3>2 DEF McpInv, PairedInv, Paired, NoLostRegistration
    <3>4. OpenInv => OpenInv'
      BY <3>2 DEF OpenInv, EntryInv, TrackedInv, WaitInv, LeaseInv, CountInv, Opening, Opened,
                  Awaits, Leased, Holders
    <3> QED BY <3>1, <3>2, <3>3, <3>4 DEF McpInv
  <2> QED BY <2>1, <2>2
<1> QED BY <1>1, <1>2, PTL DEF Spec

\* Every variable of the cache and its users keeps its type, for any number of
\* keys, consumers and connection attempts.
THEOREM McpTyped == Spec => []TypeOK
<1>1. McpInv => TypeOK
  BY DEF McpInv
<1> QED BY <1>1, McpHolds, PTL

\* McpConnections' CountIsHolders: however acquires are refused, cancelled and
\* raced, the reference count of acquire and release is the number of leases.
THEOREM CountExact == Spec => []CountIsHolders
<1>1. McpInv => CountIsHolders
  BY DEF McpInv, OpenInv, CountInv, CountIsHolders
<1> QED BY <1>1, McpHolds, PTL

\* McpConnections' LeaseIsOpen: _collect_idle_locked, release and a failed
\* connect never close a connection somebody has leased.
THEOREM LeaseKept == Spec => []LeaseIsOpen
<1>1. McpInv => LeaseIsOpen
  <2> SUFFICES ASSUME McpInv, ~closed, NEW k \in Keys, NEW c \in Holders(k)
               PROVE  /\ lease[c] # None /\ conn[lease[c]] = "open"
                      /\ entries[k] # None /\ entries[k].tool = lease[c]
    BY DEF LeaseIsOpen
  <2>1. c \in Consumers /\ KeyOf[c] = k /\ Leased(c)
    BY DEF McpInv, OpenInv, LeaseInv, Holders
  <2>2. Opened(k)
    BY <2>1 DEF McpInv, OpenInv, EntryInv, Opening, Leased
  <2> QED BY <2>1, <2>2 DEF Leased, Opened
<1> QED BY <1>1, McpHolds, PTL

\* McpConnections' OneConnectionPerKey: consumers of one config share one
\* connection, whatever joins, fails and is swept meanwhile.
THEOREM OneConnection == Spec => []OneConnectionPerKey
<1>1. McpInv => OneConnectionPerKey
  <2> SUFFICES ASSUME McpInv, ~closed, NEW x \in Conns, NEW y \in Conns, x[1] = y[1],
                      conn[x] \in {"opening", "open"}, conn[y] \in {"opening", "open"}
               PROVE  x = y
    BY DEF OneConnectionPerKey
  <2>0. OpenInv /\ x # None /\ y # None /\ x[1] \in Keys
    BY ConnKey DEF McpInv
  <2>1. \A z \in Conns : conn[z] = "opening" => task[z] = "running"
    BY DEF McpInv, PairedInv, Paired
  <2>2. conn[x] = "opening" => entries[x[1]] # None /\ entries[x[1]].task = x
    BY <2>0, <2>1 DEF OpenInv, TrackedInv
  <2>3. conn[y] = "opening" => entries[x[1]] # None /\ entries[x[1]].task = y
    BY <2>0, <2>1 DEF OpenInv, TrackedInv
  <2>4. conn[x] = "open" => entries[x[1]] # None /\ entries[x[1]].tool = x
    BY <2>0 DEF OpenInv, TrackedInv
  <2>5. conn[y] = "open" => entries[x[1]] # None /\ entries[x[1]].tool = y
    BY <2>0 DEF OpenInv, TrackedInv
  <2>6. entries[x[1]] # None => entries[x[1]].tool = None \/ entries[x[1]].task = None
    BY <2>0 DEF OpenInv, EntryInv, Opening, Opened
  <2> QED BY <2>0, <2>2, <2>3, <2>4, <2>5, <2>6
<1> QED BY <1>1, McpHolds, PTL

\* McpConnections' NoLostRegistration: the error "did not register after
\* connect" of acquire (cache.py) cannot be raised.
THEOREM Registered == Spec => []NoLostRegistration
<1>1. McpInv => NoLostRegistration
  BY DEF McpInv
<1> QED BY <1>1, McpHolds, PTL
=============================================================================
