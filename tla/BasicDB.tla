------------------------------- MODULE BasicDB -------------------------------
(***************************************************************************)
(* unit::BasicDB: every call opens the RocksDB database at its path anew.  *)
(* The block thread commits; it and the RPC threads read.  A commit needs  *)
(* RocksDB's lock of the path, a read does not: it sees the database as it *)
(* was when it was opened.  Few of the calls close what they opened, and   *)
(* what is not closed stays open until the process ends.                   *)
(*                                                                         *)
(* A value is the number of the batch that wrote it, 0 for a missing key.  *)
(***************************************************************************)
EXTENDS Integers, FiniteSets

CONSTANTS
    Readers,        \* the threads that read
    MaxCommits,     \* bound: batches
    MaxHandles,     \* databases a process can have open
    MaxFaults,      \* bound: statuses other than Ok that the disk causes
    MaxCrashes      \* bound: restarts

ASSUME BasicDBAssumption ==
    /\ IsFiniteSet(Readers)
    /\ MaxCommits \in Nat
    /\ MaxHandles \in Nat
    /\ MaxFaults \in Nat
    /\ MaxCrashes \in Nat

\* The ways to read.  newDB followed by get(key, db) takes the same steps as
\* getWithIO.
Methods == {"get", "getWithIO", "multiGet"}

\* The statuses of RocksDB other than Ok that the code tells apart.
Failures == {"Corruption", "IOError", "Other"}

NoCall == -1
Thrown == -1
Unread == -2

VARIABLES
    \* the files
    stored,     \* batches in the database
    dir,        \* the database's directory
    \* the process
    lock,       \* RocksDB's lock: free, held by a commit, or never released
    leaks,      \* databases that were opened and are not closed any more
    wpc,        \* commit
    reply,      \* what the last commit returned
    rpc,        \* the reads
    method,
    view,       \* the batches that the opened database shows
    result,
    \* bounds and history
    calls, faults, crashes,
    since       \* the value of stored when the read was called

fileVars   == <<stored, dir>>
commitVars == <<lock, wpc, reply, calls>>
readVars   == <<rpc, method, view, result, since>>
vars == <<fileVars, commitVars, readVars, leaks, faults, crashes>>

TypeOK ==
    /\ stored \in 0..MaxCommits
    /\ dir \in {"missing", "created"}
    /\ lock \in {"free", "held", "leaked"}
    /\ leaks \in 0..MaxHandles
    /\ wpc \in {"idle", "open", "reopen", "write", "close"}
    /\ reply \in {"none", "ok", "error"}
    /\ rpc \in [Readers -> {"idle", "open", "reopen", "read", "reread"}]
    /\ method \in [Readers -> Methods]
    /\ view \in [Readers -> 0..MaxCommits]
    /\ result \in [Readers -> {Thrown, Unread} \cup 0..MaxCommits]
    /\ since \in [Readers -> {NoCall} \cup 0..MaxCommits]
    /\ calls \in 0..MaxCommits
    /\ faults \in 0..MaxFaults
    /\ crashes \in 0..MaxCrashes

Init ==
    /\ stored = 0
    /\ dir = "missing"
    /\ lock = "free"
    /\ leaks = 0
    /\ wpc = "idle"
    /\ reply = "none"
    /\ rpc = [r \in Readers |-> "idle"]
    /\ method = [r \in Readers |-> "get"]
    /\ view = [r \in Readers |-> 0]
    /\ result = [r \in Readers |-> Unread]
    /\ since = [r \in Readers |-> NoCall]
    /\ calls = 0
    /\ faults = 0
    /\ crashes = 0

\* Open databases that some call will still use.
InUse ==
    Cardinality({r \in Readers : rpc[r] \in {"read", "reread"}})
        + (IF wpc \in {"write", "close"} THEN 1 ELSE 0)

\* One more database can be opened: otherwise RocksDB reports an IOError.
Room == leaks + InUse < MaxHandles

Fault ==
    /\ faults < MaxFaults
    /\ faults' = faults + 1

-----------------------------------------------------------------------------
(* commit *)

Commit ==
    /\ wpc = "idle"
    /\ calls < MaxCommits
    /\ calls' = calls + 1
    /\ wpc' = "open"
    /\ reply' = "none"
    /\ UNCHANGED <<fileVars, lock, readVars, leaks, faults, crashes>>

Return(answer) ==
    /\ wpc' = "idle"
    /\ reply' = answer

\* DB::Open can succeed; a missing database is created.
CanOpen == lock = "free" /\ Room

Open ==
    /\ wpc = "open"
    /\ CanOpen
    /\ lock' = "held"
    /\ dir' = "created"
    /\ wpc' = "write"
    /\ UNCHANGED <<stored, reply, calls, readVars, leaks, faults, crashes>>

\* Mutant: the early returns are missing.
OpenFailsUnseen ==
    /\ wpc = "open"
    /\ \/ ~CanOpen /\ faults' = faults
       \/ Fault
    /\ wpc' = "write"
    /\ UNCHANGED <<fileVars, lock, reply, calls, readVars, leaks, crashes>>

\* DB::Open with kCorruption or kIOError; the latter is what a lock that is
\* taken and a process without file descriptors cause.
OpenFails ==
    /\ wpc = "open"
    /\ \/ ~CanOpen /\ faults' = faults
       \/ Fault
    /\ Return("error")
    /\ UNCHANGED <<fileVars, lock, calls, readVars, leaks, crashes>>

\* DB::Open with another status: the loop is entered.
OpenFailsOtherwise ==
    /\ wpc = "open"
    /\ Fault
    /\ wpc' = "reopen"
    /\ UNCHANGED <<fileVars, lock, reply, calls, readVars, leaks, crashes>>

\* Mutant: the second attempt writes the batch and still returns the error.
ReopenWrites ==
    /\ wpc = "reopen"
    /\ Return("error")
    /\ CanOpen
    /\ dir' = "created"
    /\ stored' = stored + 1
    /\ UNCHANGED <<lock, calls, readVars, leaks, faults, crashes>>

\* The loop's body opens the database once more, and returns DBIOError at its
\* end whether or not that worked; if it did, nobody closes the database.
Reopen ==
    /\ wpc = "reopen"
    /\ Return("error")
    /\ \/ /\ CanOpen
          /\ lock' = "leaked"
          /\ leaks' = leaks + 1
          /\ dir' = "created"
          /\ faults' = faults
       \/ /\ \/ ~CanOpen /\ faults' = faults
             \/ Fault
          /\ UNCHANGED <<lock, leaks, dir>>
    /\ UNCHANGED <<stored, calls, readVars, crashes>>

Write ==
    /\ wpc = "write"
    /\ stored' = stored + 1
    /\ wpc' = "close"
    /\ UNCHANGED <<dir, lock, reply, calls, readVars, leaks, faults, crashes>>

WriteCorruptAnd(answer) ==
    /\ wpc = "write"
    /\ Fault
    /\ lock' = "leaked"
    /\ leaks' = leaks + 1
    /\ Return(answer)
    /\ UNCHANGED <<fileVars, calls, readVars, crashes>>

\* Mutant: the status is not returned.
WriteCorruptUnseen == WriteCorruptAnd("ok")

\* Write with kCorruption returns before close.
WriteCorrupt == WriteCorruptAnd("error")

Close ==
    /\ wpc = "close"
    /\ lock' = "free"
    /\ Return("ok")
    /\ UNCHANGED <<fileVars, calls, readVars, leaks, faults, crashes>>

\* Write with any other status, which is not looked at: the database is closed
\* and no error is returned.
WriteFails ==
    /\ wpc = "write"
    /\ Fault
    /\ lock' = "free"
    /\ Return("ok")
    /\ UNCHANGED <<fileVars, calls, readVars, leaks, crashes>>

-----------------------------------------------------------------------------
(* get, getWithIO, multiGet, and newDB with get(key, db) *)

ReadCall(r) ==
    /\ rpc[r] = "idle"
    /\ rpc' = [rpc EXCEPT ![r] = "open"]
    /\ \E m \in Methods : method' = [method EXCEPT ![r] = m]
    /\ result' = [result EXCEPT ![r] = Unread]
    /\ since' = [since EXCEPT ![r] = stored]
    /\ UNCHANGED <<fileVars, commitVars, view, leaks, faults, crashes>>

ReadReturn(r, value) ==
    /\ rpc' = [rpc EXCEPT ![r] = "idle"]
    /\ method' = [method EXCEPT ![r] = "get"]
    /\ view' = [view EXCEPT ![r] = 0]
    /\ result' = [result EXCEPT ![r] = value]
    /\ since' = [since EXCEPT ![r] = NoCall]
    /\ UNCHANGED <<fileVars, commitVars, crashes>>

\* DB::OpenForReadOnly can succeed: it creates nothing and needs no lock.
CanRead == dir = "created" /\ Room

\* DB::OpenForReadOnly, the first time or in the loop.
OpenForReadOnly(r) ==
    /\ rpc[r] \in {"open", "reopen"}
    /\ CanRead
    /\ rpc' = [rpc EXCEPT ![r] = "read"]
    /\ view' = [view EXCEPT ![r] = stored]
    /\ UNCHANGED <<fileVars, commitVars, method, result, since, leaks, faults,
                   crashes>>

\* The first failure to open throws or enters the loop, which only an Ok ends.
\* A further failure changes nothing.
ReadOpenFails(r) ==
    /\ rpc[r] = "open"
    /\ \/ ~CanRead /\ faults' = faults
       \/ Fault
    /\ \E status \in Failures :
          IF status = "Corruption" \/ (status = "IOError" /\ method[r] # "get")
          THEN ReadReturn(r, Thrown)
          ELSE /\ rpc' = [rpc EXCEPT ![r] = "reopen"]
               /\ UNCHANGED <<fileVars, commitVars, method, view, result, since,
                              crashes>>
    /\ leaks' = leaks

\* Get finds the key, or MultiGet has looked; the database is not closed.
Read(r) ==
    /\ rpc[r] \in {"read", "reread"}
    /\ view[r] # 0 \/ method[r] = "multiGet"
    /\ ReadReturn(r, view[r])
    /\ leaks' = leaks + 1
    /\ faults' = faults

\* Mutant: a missing key is tried again like an error.
ReadMissingLoops(r) ==
    /\ rpc[r] = "read"
    /\ view[r] = 0
    /\ method[r] # "multiGet"
    /\ rpc' = [rpc EXCEPT ![r] = "reopen"]
    /\ UNCHANGED <<fileVars, commitVars, method, view, result, since, leaks,
                   faults, crashes>>

\* Get with kNotFound closes the database and throws DBNotFound, but only if it
\* is the answer to the first Get.
ReadMissing(r) ==
    /\ rpc[r] = "read"
    /\ view[r] = 0
    /\ method[r] # "multiGet"
    /\ ReadReturn(r, 0)
    /\ UNCHANGED <<leaks, faults>>

\* Get with another status enters the loop; MultiGet returns its statuses.
ReadFails(r) ==
    /\ rpc[r] = "read"
    /\ Fault
    /\ IF method[r] = "multiGet"
       THEN ReadReturn(r, Thrown) /\ leaks' = leaks + 1
       ELSE /\ rpc' = [rpc EXCEPT ![r] = "reread"]
            /\ UNCHANGED <<fileVars, commitVars, method, view, result, since,
                           leaks, crashes>>

-----------------------------------------------------------------------------

\* The process ends and is started again: RocksDB's lock and the handles go
\* with it, the files stay.
Crash ==
    /\ crashes < MaxCrashes
    /\ crashes' = crashes + 1
    /\ lock' = "free"
    /\ leaks' = 0
    /\ wpc' = "idle"
    /\ reply' = "none"
    /\ rpc' = [r \in Readers |-> "idle"]
    /\ method' = [r \in Readers |-> "get"]
    /\ view' = [r \in Readers |-> 0]
    /\ result' = [r \in Readers |-> Unread]
    /\ since' = [r \in Readers |-> NoCall]
    /\ UNCHANGED <<fileVars, calls, faults>>

Committing ==
    \/ Open \/ OpenFails \/ OpenFailsOtherwise \/ Reopen
    \/ Write \/ WriteCorrupt \/ WriteFails \/ Close

Reading(r) ==
    \/ OpenForReadOnly(r) \/ ReadOpenFails(r)
    \/ Read(r) \/ ReadMissing(r) \/ ReadFails(r)

Next ==
    \/ Commit \/ Committing \/ Crash
    \/ \E r \in Readers : ReadCall(r) \/ Reading(r)

Spec == Init /\ [][Next]_vars

\* Threads that are inside a call are scheduled.
FairSpec ==
    /\ Spec
    /\ WF_vars(Committing)
    /\ \A r \in Readers : WF_vars(Reading(r))

-----------------------------------------------------------------------------
(* Properties *)

Atomic == INSTANCE AtomicStore WITH
    store  <- stored,
    commit <- IF wpc = "idle" THEN "idle"
              ELSE IF wpc = "close" THEN "applied" ELSE "called"

\* The calls implement an atomic store: a batch is stored once, while its commit
\* is under way, and not at all if the commit reports an error; a read returns
\* what the store held at some moment between call and return, however often it
\* opened the database.
ImplementsAtomicStore == Atomic!Spec

\* The database takes no commit any more: its lock is never released, or every
\* handle the process may have is lost.
Wedged == lock = "leaked" \/ leaks = MaxHandles

\* Once that has happened nothing is stored until the process is restarted.
WedgedForGood ==
    [][Wedged => crashes' # crashes \/ (Wedged' /\ stored' = stored)]_vars

\* If a commit left the lock behind, it and every later one said so: a caller
\* that looked at what commit returns would know.
LeakIsReported == lock = "leaked" /\ wpc = "idle" => reply # "ok"

\* Get answered kNotFound after another failure: the loop has no other end.
Hopeless(r) == rpc[r] = "reread" /\ view[r] = 0

\* If in the end the database exists and can be opened, every read returns,
\* unless it had to repeat Get for a key that is missing.
ReadsReturn ==
    <>[]CanRead =>
        \A r \in Readers : rpc[r] # "idle" ~> rpc[r] = "idle" \/ Hopeless(r)
=============================================================================
