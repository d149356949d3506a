---------------------------- MODULE BasicDBProofs ----------------------------
(***************************************************************************)
(* BasicDB implements AtomicStore for any number of readers, batches,      *)
(* failures and restarts; what it leaves locked stays locked.              *)
(***************************************************************************)
EXTENDS BasicDB, FiniteSetTheorems, TLAPS

\* TypeOK without the limit on handles, which HandlesFit states.
Types ==
    /\ stored \in Nat
    /\ dir \in {"missing", "created"}
    /\ lock \in {"free", "held", "leaked"}
    /\ leaks \in Nat
    /\ wpc \in {"idle", "open", "reopen", "write", "close"}
    /\ reply \in {"none", "ok", "error"}
    /\ rpc \in [Readers -> {"idle", "open", "reopen", "read", "reread"}]
    /\ method \in [Readers -> Methods]
    /\ view \in [Readers -> Nat]
    /\ result \in [Readers -> {Thrown, Unread} \cup Nat]
    /\ since \in [Readers -> {NoCall} \cup Nat]
    /\ calls \in 0..MaxCommits
    /\ faults \in 0..MaxFaults
    /\ crashes \in 0..MaxCrashes

\* Every stored batch belongs to a call, and the call under way has not stored
\* its batch yet.
CallsCounted ==
    /\ stored <= calls
    /\ wpc \in {"open", "reopen", "write"} => stored < calls

\* The lock is held exactly while a commit works on the open database.
LockHeld == lock = "held" <=> wpc \in {"write", "close"}

\* A database that is open for reading shows the store as it was at a moment
\* since the call.
ViewsInside ==
    \A r \in Readers :
        /\ rpc[r] = "idle" <=> since[r] = NoCall
        /\ since[r] <= stored
        /\ view[r] <= stored
        /\ result[r] <= stored
        /\ rpc[r] \in {"read", "reread"} => since[r] <= view[r]

IInv == Types /\ CallsCounted /\ LockHeld /\ LeakIsReported /\ ViewsInside

CommitStep == Commit \/ Committing

USE DEF NoCall, Thrown, Unread, Methods

\* Init establishes the invariant.
LEMMA InitInv == Init => IInv
  <1> SUFFICES ASSUME Init PROVE IInv
    OBVIOUS
  <1> USE BasicDBAssumption DEF Init
  <1>1. Types
    BY DEF Types
  <1>2. CallsCounted /\ LockHeld /\ LeakIsReported
    BY DEF CallsCounted, LockHeld, LeakIsReported
  <1>3. ViewsInside
    BY DEF ViewsInside
  <1> QED
    BY <1>1, <1>2, <1>3 DEF IInv

\* The steps of commit keep the invariant.
LEMMA CommitInv == IInv /\ CommitStep => IInv'
  <1> SUFFICES ASSUME IInv, CommitStep PROVE IInv'
    OBVIOUS
  <1> USE BasicDBAssumption
  <1> USE DEF IInv, Types, CallsCounted, LockHeld, LeakIsReported, ViewsInside
  <1>1. CASE Commit
    BY <1>1 DEF Commit, fileVars, readVars
  <1>2. CASE Open
    BY <1>2 DEF Open, CanOpen, readVars
  <1>3. CASE OpenFails
    BY <1>3 DEF OpenFails, CanOpen, Fault, Return, fileVars, readVars
  <1>4. CASE OpenFailsOtherwise
    BY <1>4 DEF OpenFailsOtherwise, Fault, fileVars, readVars
  <1>5. CASE Reopen
    <2>1. /\ wpc = "reopen" /\ wpc' = "idle" /\ reply' = "error"
          /\ lock' \in {lock, "leaked"} /\ leaks' \in {leaks, leaks + 1}
          /\ dir' \in {dir, "created"} /\ faults' \in 0..MaxFaults
          /\ UNCHANGED <<stored, calls, crashes>>
          /\ UNCHANGED <<rpc, method, view, result, since>>
      BY <1>5 DEF Reopen, Fault, Return, readVars
    <2> QED
      BY <2>1
  <1>6. CASE Write
    BY <1>6 DEF Write, readVars
  <1>7. CASE WriteCorrupt
    BY <1>7 DEF WriteCorrupt, WriteCorruptAnd, Fault, Return, fileVars, readVars
  <1>8. CASE WriteFails
    BY <1>8 DEF WriteFails, Fault, Return, fileVars, readVars
  <1>9. CASE Close
    BY <1>9 DEF Close, Return, fileVars, readVars
  <1> QED
    BY <1>1, <1>2, <1>3, <1>4, <1>5, <1>6, <1>7, <1>8, <1>9
    DEF CommitStep, Committing

\* The steps of a read keep the invariant.
LEMMA ReadInv ==
    ASSUME IInv, NEW r \in Readers, ReadCall(r) \/ Reading(r)
    PROVE  IInv'
  <1> USE BasicDBAssumption
  <1> USE DEF IInv, Types, CallsCounted, LockHeld, LeakIsReported, ViewsInside
  <1>1. CASE ReadCall(r)
    BY <1>1 DEF ReadCall, fileVars, commitVars
  <1>2. CASE OpenForReadOnly(r)
    BY <1>2 DEF OpenForReadOnly, fileVars, commitVars
  <1>3. CASE ReadOpenFails(r)
    <2>1. CASE ReadReturn(r, Thrown)
      BY <1>3, <2>1 DEF ReadOpenFails, ReadReturn, Fault, fileVars, commitVars
    <2>2. CASE rpc' = [rpc EXCEPT ![r] = "reopen"]
                /\ UNCHANGED <<fileVars, commitVars, method, view, result, since,
                               crashes>>
      BY <1>3, <2>2 DEF ReadOpenFails, Fault, fileVars, commitVars
    <2> QED
      BY <1>3, <2>1, <2>2 DEF ReadOpenFails
  <1>4. CASE Read(r)
    BY <1>4 DEF Read, ReadReturn, fileVars, commitVars
  <1>5. CASE ReadMissing(r)
    BY <1>5 DEF ReadMissing, ReadReturn, fileVars, commitVars
  <1>6. CASE ReadFails(r)
    BY <1>6 DEF ReadFails, ReadReturn, Fault, fileVars, commitVars
  <1> QED
    BY <1>1, <1>2, <1>3, <1>4, <1>5, <1>6 DEF Reading

\* A restart keeps the invariant.
LEMMA CrashInv == IInv /\ Crash => IInv'
  BY BasicDBAssumption
  DEF IInv, Types, CallsCounted, LockHeld, LeakIsReported, ViewsInside, Crash,
      fileVars

\* The inductive invariant of the commits and the reads.
THEOREM Invariant == Spec => []IInv
  <1>1. IInv /\ [Next]_vars => IInv'
    <2> SUFFICES ASSUME IInv, [Next]_vars PROVE IInv'
      OBVIOUS
    <2>1. CASE Next
      BY <2>1, CommitInv, ReadInv, CrashInv DEF Next, CommitStep
    <2>2. CASE UNCHANGED vars
      BY <2>2
      DEF IInv, Types, CallsCounted, LockHeld, LeakIsReported, ViewsInside, vars,
          fileVars, commitVars, readVars
    <2> QED
      BY <2>1, <2>2
  <1> QED
    BY InitInv, <1>1, PTL DEF Spec

\* If a commit left the lock behind, it and every later commit reported an
\* error.
THEOREM LeaksAreReported == Spec => []LeakIsReported
  <1>1. IInv => LeakIsReported
    BY DEF IInv
  <1> QED
    BY Invariant, <1>1, PTL

-----------------------------------------------------------------------------
(* The refinement *)

\* An initial state is an initial state of the atomic store.
LEMMA InitRefines == Init => Atomic!Init
  BY DEF Init, Atomic!Init, Atomic!NoCall, Atomic!Unread

\* A step of commit is a step of the atomic store or none: only Write applies
\* the batch, and no error is returned after it.
LEMMA CommitRefines ==
    ASSUME IInv, CommitStep
    PROVE  Atomic!Next \/ UNCHANGED Atomic!vars
  <1>1. CASE Commit
    <2>1. Atomic!Call
      BY <1>1 DEF Commit, Atomic!Call, fileVars, readVars
    <2> QED
      BY <2>1 DEF Atomic!Next
  <1>2. CASE Open
    BY <1>2 DEF Open, Atomic!vars, readVars
  <1>3. CASE OpenFails
    <2>1. Atomic!ReturnError
      BY <1>3 DEF OpenFails, Return, Atomic!ReturnError, fileVars, readVars
    <2> QED
      BY <2>1 DEF Atomic!Next
  <1>4. CASE OpenFailsOtherwise
    BY <1>4 DEF OpenFailsOtherwise, Atomic!vars, fileVars, readVars
  <1>5. CASE Reopen
    <2>1. Atomic!ReturnError
      BY <1>5 DEF Reopen, Return, Atomic!ReturnError, readVars
    <2> QED
      BY <2>1 DEF Atomic!Next
  <1>6. CASE Write
    <2>1. Atomic!Apply
      BY <1>6 DEF Write, Atomic!Apply, readVars
    <2> QED
      BY <2>1 DEF Atomic!Next
  <1>7. CASE WriteCorrupt
    <2>1. Atomic!ReturnError
      BY <1>7
      DEF WriteCorrupt, WriteCorruptAnd, Return, Atomic!ReturnError, fileVars,
          readVars
    <2> QED
      BY <2>1 DEF Atomic!Next
  <1>8. CASE WriteFails
    <2>1. Atomic!ReturnOk
      BY <1>8 DEF WriteFails, Return, Atomic!ReturnOk, fileVars, readVars
    <2> QED
      BY <2>1 DEF Atomic!Next
  <1>9. CASE Close
    <2>1. Atomic!ReturnOk
      BY <1>9 DEF Close, Return, Atomic!ReturnOk, fileVars, readVars
    <2> QED
      BY <2>1 DEF Atomic!Next
  <1> QED
    BY <1>1, <1>2, <1>3, <1>4, <1>5, <1>6, <1>7, <1>8, <1>9
    DEF CommitStep, Committing

\* A read that returns a value the store has had since its call, or throws, is
\* a ReadReturn of the atomic store.
LEMMA ReturnRefines ==
    ASSUME IInv, NEW r \in Readers, rpc[r] # "idle",
           NEW value \in {Thrown} \cup since[r]..stored,
           ReadReturn(r, value)
    PROVE  Atomic!ReadReturn(r)
  <1>1. since[r] # Atomic!NoCall
    BY DEF IInv, ViewsInside, Atomic!NoCall
  <1>2. \E v \in {Atomic!Thrown} \cup since[r]..stored :
            result' = [result EXCEPT ![r] = v]
    BY DEF ReadReturn, Atomic!Thrown
  <1> QED
    BY <1>1, <1>2
    DEF ReadReturn, Atomic!ReadReturn, Atomic!NoCall, fileVars, commitVars

\* A step of a read is a step of the atomic store or none.
LEMMA ReadRefines ==
    ASSUME IInv, NEW r \in Readers, ReadCall(r) \/ Reading(r)
    PROVE  Atomic!Next \/ UNCHANGED Atomic!vars
  <1>0. Atomic!ReadCall(r) \/ Atomic!ReadReturn(r) => Atomic!Next
    BY DEF Atomic!Next
  <1>1. CASE ReadCall(r)
    <2>1. Atomic!ReadCall(r)
      BY <1>1
      DEF ReadCall, Atomic!ReadCall, Atomic!NoCall, Atomic!Unread, IInv,
          ViewsInside, fileVars, commitVars
    <2> QED
      BY <2>1, <1>0
  <1>2. CASE OpenForReadOnly(r)
    BY <1>2 DEF OpenForReadOnly, Atomic!vars, fileVars, commitVars
  <1>3. CASE ReadOpenFails(r)
    <2>1. CASE ReadReturn(r, Thrown)
      BY <1>3, <2>1, <1>0, ReturnRefines DEF ReadOpenFails
    <2>2. CASE UNCHANGED <<fileVars, commitVars, method, view, result, since,
                           crashes>>
      BY <2>2 DEF Atomic!vars, fileVars, commitVars
    <2> QED
      BY <1>3, <2>1, <2>2 DEF ReadOpenFails
  <1>4. CASE Read(r)
    <2>1. view[r] \in since[r]..stored
      BY <1>4 DEF Read, IInv, Types, ViewsInside
    <2> QED
      BY <1>4, <2>1, <1>0, ReturnRefines DEF Read
  <1>5. CASE ReadMissing(r)
    <2>1. 0 \in since[r]..stored
      BY <1>5 DEF ReadMissing, IInv, Types, ViewsInside
    <2> QED
      BY <1>5, <2>1, <1>0, ReturnRefines DEF ReadMissing
  <1>6. CASE ReadFails(r)
    <2>1. CASE ReadReturn(r, Thrown)
      BY <1>6, <2>1, <1>0, ReturnRefines DEF ReadFails
    <2>2. CASE UNCHANGED <<fileVars, commitVars, method, view, result, since,
                           leaks, crashes>>
      BY <2>2 DEF Atomic!vars, fileVars, commitVars
    <2> QED
      BY <1>6, <2>1, <2>2 DEF ReadFails
  <1> QED
    BY <1>1, <1>2, <1>3, <1>4, <1>5, <1>6 DEF Reading

\* BasicDB's calls implement the atomic store: a batch is stored once and never
\* after an error was reported, and a read returns what the store held at some
\* moment of the call.
THEOREM StoreIsAtomic == Spec => ImplementsAtomicStore
  <1>1. IInv /\ [Next]_vars => [Atomic!Next]_(Atomic!vars)
    <2> SUFFICES ASSUME IInv, [Next]_vars
                 PROVE  Atomic!Next \/ UNCHANGED Atomic!vars
      OBVIOUS
    <2>1. CASE CommitStep
      BY <2>1, CommitRefines
    <2>2. CASE \E r \in Readers : ReadCall(r) \/ Reading(r)
      BY <2>2, ReadRefines
    <2>3. CASE Crash
      <3>1. Atomic!Restart
        BY <2>3
        DEF Crash, Atomic!Restart, Atomic!NoCall, Atomic!Unread, fileVars
      <3> QED
        BY <3>1 DEF Atomic!Next
    <2>4. CASE UNCHANGED vars
      BY <2>4 DEF vars, fileVars, commitVars, readVars, Atomic!vars
    <2> QED
      BY <2>1, <2>2, <2>3, <2>4 DEF Next, CommitStep
  <1> QED
    BY InitRefines, Invariant, <1>1, PTL DEF Spec, ImplementsAtomicStore, Atomic!Spec

-----------------------------------------------------------------------------
(* Handles *)

\* The readers that have the database open.
Busy == {r \in Readers : rpc[r] \in {"read", "reread"}}

\* The process never has more databases open than it can.
HandlesFit == leaks + InUse <= MaxHandles

\* Arithmetic: a handle that changes from used to lost or closed.
LEMMA HandleMoves ==
    \A a \in Nat, n, m \in Int :
        a + n <= m => (a + 1) + (n - 1) <= m /\ a + (n - 1) <= m
  OBVIOUS

\* Arithmetic: a part of a bounded sum is bounded.
LEMMA PartBounded == \A a, n, m \in Nat : a + n <= m => a <= m
  OBVIOUS

\* The number of busy readers is a number.
LEMMA BusyFinite == IsFiniteSet(Busy) /\ Cardinality(Busy) \in Nat
  <1>1. Busy \subseteq Readers
    BY DEF Busy
  <1> QED
    BY <1>1, BasicDBAssumption, FS_Subset, FS_CardinalityType

\* What InUse counts.
LEMMA InUseCount ==
    InUse = Cardinality(Busy) + (IF wpc \in {"write", "close"} THEN 1 ELSE 0)
  BY DEF InUse, Busy

\* The steps of commit keep within the limit.
LEMMA CommitFits ==
    ASSUME IInv, HandlesFit, CommitStep
    PROVE  HandlesFit'
  <1> DEFINE n == Cardinality(Busy)
             w == IF wpc \in {"write", "close"} THEN 1 ELSE 0
  <1>1. rpc' = rpc
    BY DEF CommitStep, Committing, Commit, Open, OpenFails, OpenFailsOtherwise,
           Reopen, Write, WriteCorrupt, WriteCorruptAnd, WriteFails, Close, readVars
  <1>2. n' = n
    BY <1>1 DEF Busy
  <1>3. n \in Nat /\ leaks \in Nat /\ w \in {0, 1}
    BY BusyFinite DEF IInv, Types
  <1>4. leaks + (n + w) <= MaxHandles
    BY InUseCount DEF HandlesFit
  <1> HIDE DEF n
  <1>5. leaks' + (n + w') <= MaxHandles
    <2>1. CASE Open
      <3>1. leaks + (n + w) < MaxHandles
        BY <2>1, InUseCount DEF Open, CanOpen, Room, n
      <3> QED
        BY <2>1, <3>1, <1>3, BasicDBAssumption DEF Open
    <2>2. CASE Reopen
      <3>1. CASE CanOpen
        <4>1. leaks + (n + w) < MaxHandles
          BY <3>1, InUseCount DEF CanOpen, Room, n
        <4> QED
          BY <2>2, <4>1, <1>3, BasicDBAssumption DEF Reopen, Return
      <3>2. CASE ~CanOpen
        BY <2>2, <3>2, <1>3, <1>4, BasicDBAssumption DEF Reopen, Return
      <3> QED
        BY <3>1, <3>2
    <2>3. CASE Commit \/ OpenFails \/ OpenFailsOtherwise
      BY <2>3, <1>3, <1>4, BasicDBAssumption
      DEF Commit, OpenFails, OpenFailsOtherwise, Return
    <2>4. CASE Write \/ WriteFails \/ Close
      BY <2>4, <1>3, <1>4, BasicDBAssumption DEF Write, WriteFails, Close, Return
    <2>5. CASE WriteCorrupt
      BY <2>5, <1>3, <1>4, BasicDBAssumption
      DEF WriteCorrupt, WriteCorruptAnd, Return
    <2> QED
      BY <2>1, <2>2, <2>3, <2>4, <2>5 DEF CommitStep, Committing
  <1>6. InUse' = n + w'
    BY <1>2, InUseCount DEF InUse, Busy, n
  <1> QED
    BY <1>5, <1>6 DEF HandlesFit

\* A read that ends leaves its handle behind or closes it.
LEMMA ReturnFits ==
    ASSUME IInv, HandlesFit, NEW r \in Busy, NEW value, ReadReturn(r, value),
           leaks' \in {leaks, leaks + 1}
    PROVE  HandlesFit'
  <1>1. Busy' = Busy \ {r} /\ wpc' = wpc
    BY DEF Busy, ReadReturn, IInv, Types, commitVars
  <1>2. /\ Cardinality(Busy \ {r}) = Cardinality(Busy) - 1
        /\ Cardinality(Busy) \in Nat
    BY BusyFinite, FS_RemoveElement
  <1>3. Cardinality(Busy)' = Cardinality(Busy) - 1
    BY <1>1, <1>2
  <1>4. InUse' = InUse - 1 /\ InUse \in Int
    BY <1>1, <1>2, <1>3, InUseCount DEF InUse, Busy
  <1>5. /\ leaks \in Nat /\ leaks + InUse <= MaxHandles
        /\ leaks' = leaks \/ leaks' = leaks + 1
    BY DEF HandlesFit, IInv, Types
  <1>6. leaks' + InUse' <= MaxHandles
    <2>1. MaxHandles \in Int
      BY BasicDBAssumption
    <2>2. (leaks + 1) + (InUse - 1) <= MaxHandles /\ leaks + (InUse - 1) <= MaxHandles
      BY <1>4, <1>5, <2>1, HandleMoves
    <2> QED
      BY <1>4, <1>5, <2>2
  <1> QED
    BY <1>6 DEF HandlesFit

\* A step that changes neither the handles nor who uses them.
LEMMA QuietFits ==
    ASSUME HandlesFit, leaks' = leaks, wpc' = wpc, Busy' = Busy
    PROVE  HandlesFit'
  BY DEF HandlesFit, InUse, Busy

\* The steps of a read keep within the limit.
LEMMA ReadFits ==
    ASSUME IInv, HandlesFit, NEW r \in Readers, ReadCall(r) \/ Reading(r)
    PROVE  HandlesFit'
  <1> USE DEF IInv, Types
  <1>1. CASE ReadCall(r)
    <2>1. Busy' = Busy /\ leaks' = leaks /\ wpc' = wpc
      BY <1>1 DEF ReadCall, Busy, commitVars
    <2> QED
      BY <2>1, QuietFits
  <1>2. CASE OpenForReadOnly(r)
    <2>1. /\ Busy' = Busy \cup {r} /\ r \notin Busy
          /\ leaks' = leaks /\ wpc' = wpc
      BY <1>2 DEF OpenForReadOnly, Busy, commitVars
    <2>2. /\ Cardinality(Busy \cup {r}) = Cardinality(Busy) + 1
          /\ Cardinality(Busy) \in Nat
      BY <2>1, BusyFinite, FS_AddElement
    <2>3. Cardinality(Busy)' = Cardinality(Busy) + 1
      BY <2>1, <2>2
    <2>4. InUse' = InUse + 1 /\ InUse \in Int
      BY <2>1, <2>2, <2>3, InUseCount DEF InUse, Busy
    <2>5. leaks + InUse < MaxHandles
      BY <1>2 DEF OpenForReadOnly, CanRead, Room
    <2> QED
      BY <2>1, <2>4, <2>5, BasicDBAssumption DEF HandlesFit
  <1>3. CASE ReadOpenFails(r)
    <2>1. Busy' = Busy /\ leaks' = leaks /\ wpc' = wpc
      BY <1>3 DEF ReadOpenFails, ReadReturn, Busy, commitVars
    <2> QED
      BY <2>1, QuietFits
  <1>4. CASE Read(r)
    BY <1>4, ReturnFits DEF Read, Busy
  <1>5. CASE ReadMissing(r)
    BY <1>5, ReturnFits DEF ReadMissing, Busy
  <1>6. CASE ReadFails(r)
    <2>1. CASE method[r] = "multiGet"
      BY <1>6, <2>1, ReturnFits DEF ReadFails, Busy
    <2>2. CASE method[r] # "multiGet"
      <3>1. Busy' = Busy /\ leaks' = leaks /\ wpc' = wpc
        BY <1>6, <2>2 DEF ReadFails, Busy, commitVars
      <3> QED
        BY <3>1, QuietFits
    <2> QED
      BY <2>1, <2>2
  <1> QED
    BY <1>1, <1>2, <1>3, <1>4, <1>5, <1>6 DEF Reading

\* No commit and no read opens more than the process can have open.
THEOREM HandlesBounded == Spec => [](IInv /\ HandlesFit)
  <1>1. ASSUME Busy = {}, wpc = "idle", leaks = 0
        PROVE  HandlesFit
    <2>1. InUse = 0
      BY <1>1, InUseCount, FS_EmptySet
    <2> QED
      BY <1>1, <2>1, BasicDBAssumption DEF HandlesFit
  <1>2. Init => HandlesFit
    BY <1>1 DEF Init, Busy
  <1>3. IInv /\ HandlesFit /\ [Next]_vars => HandlesFit'
    <2> SUFFICES ASSUME IInv, HandlesFit, [Next]_vars PROVE HandlesFit'
      OBVIOUS
    <2>1. CASE CommitStep
      BY <2>1, CommitFits
    <2>2. CASE \E r \in Readers : ReadCall(r) \/ Reading(r)
      BY <2>2, ReadFits
    <2>3. CASE Crash
      <3>1. Busy' = {} /\ wpc' = "idle" /\ leaks' = 0
        BY <2>3 DEF Crash, Busy
      <3>2. InUse' = 0
        BY <3>1, FS_EmptySet DEF InUse, Busy
      <3> QED
        BY <3>1, <3>2, BasicDBAssumption DEF HandlesFit
    <2>4. CASE UNCHANGED vars
      BY <2>4, QuietFits DEF vars, Busy, commitVars, readVars
    <2> QED
      BY <2>1, <2>2, <2>3, <2>4 DEF Next, CommitStep
  <1> QED
    BY Invariant, <1>2, <1>3, PTL DEF Spec

\* The state of the calls keeps its types, the limit on handles included.
THEOREM StoreTypes == Spec => []TypeOK
  <1>1. IInv /\ HandlesFit => TypeOK
    <2> SUFFICES ASSUME IInv, HandlesFit PROVE TypeOK
      OBVIOUS
    <2>1. InUse \in Nat
      BY InUseCount, BusyFinite
    <2>2. leaks \in 0..MaxHandles
      BY <2>1, BasicDBAssumption DEF HandlesFit, IInv, Types
    <2>3. stored \in 0..MaxCommits
      BY BasicDBAssumption DEF IInv, Types, CallsCounted
    <2>4. view \in [Readers -> 0..MaxCommits]
      BY <2>3, BasicDBAssumption DEF IInv, Types, ViewsInside
    <2>5. result \in [Readers -> {Thrown, Unread} \cup 0..MaxCommits]
      BY <2>3, BasicDBAssumption DEF IInv, Types, ViewsInside
    <2>6. since \in [Readers -> {NoCall} \cup 0..MaxCommits]
      BY <2>3, BasicDBAssumption DEF IInv, Types, ViewsInside
    <2> QED
      BY <2>2, <2>3, <2>4, <2>5, <2>6 DEF IInv, Types, TypeOK
  <1> QED
    BY HandlesBounded, <1>1, PTL

\* A database whose lock or whose process's handles are lost stores nothing
\* more until the process is restarted.
THEOREM WedgesLast == Spec => WedgedForGood
  <1>1. ASSUME IInv, HandlesFit, HandlesFit', Wedged, Next
        PROVE  crashes' # crashes \/ (Wedged' /\ stored' = stored)
    <2>1. CASE Crash
      BY <1>1, <2>1 DEF Crash, IInv, Types
    <2>2. CASE CommitStep
      <3>1. ASSUME wpc \in {"write", "close"} PROVE FALSE
        <4>1. InUse >= 1 /\ InUse \in Nat
          BY <3>1, InUseCount, BusyFinite
        <4>2. leaks # MaxHandles
          BY <1>1, <4>1, BasicDBAssumption DEF HandlesFit, IInv, Types
        <4> QED
          BY <1>1, <3>1, <4>2 DEF Wedged, IInv, LockHeld
      <3>2. ~CanOpen
        <4>1. CASE lock = "leaked"
          BY <4>1 DEF CanOpen
        <4>2. CASE leaks = MaxHandles
          <5>1. InUse \in Nat
            BY InUseCount, BusyFinite
          <5> QED
            BY <1>1, <4>2, <5>1, BasicDBAssumption DEF CanOpen, Room
        <4> QED
          BY <1>1, <4>1, <4>2 DEF Wedged
      <3>3. UNCHANGED <<lock, leaks, stored>>
        BY <2>2, <3>1, <3>2
        DEF CommitStep, Committing, Commit, Open, OpenFails, OpenFailsOtherwise,
            Reopen, Write, WriteCorrupt, WriteCorruptAnd, WriteFails, Close,
            fileVars
      <3> QED
        BY <1>1, <3>3 DEF Wedged
    <2>3. CASE \E r \in Readers : ReadCall(r) \/ Reading(r)
      <3>1. PICK r \in Readers : ReadCall(r) \/ Reading(r)
        BY <2>3
      <3>2. lock' = lock /\ wpc' = wpc /\ stored' = stored
        BY <3>1
        DEF ReadCall, Reading, OpenForReadOnly, ReadOpenFails, Read, ReadMissing,
            ReadFails, ReadReturn, fileVars, commitVars
      <3>3. leaks' \in {leaks, leaks + 1}
        BY <3>1
        DEF ReadCall, Reading, OpenForReadOnly, ReadOpenFails, Read, ReadMissing,
            ReadFails
      <3>4. leaks' <= MaxHandles
        <4>1. IInv'
          BY <1>1, <3>1, ReadInv
        <4>2. Cardinality(Busy') \in Nat
          <5>1. Busy' \subseteq Readers
            BY DEF Busy
          <5> QED
            BY <5>1, BasicDBAssumption, FS_Subset, FS_CardinalityType
        <4>3. InUse' \in Nat
          BY <4>2 DEF InUse, Busy
        <4>4. leaks' \in Nat
          BY <4>1 DEF IInv, Types
        <4>5. leaks' + InUse' <= MaxHandles
          BY <1>1 DEF HandlesFit
        <4>6. MaxHandles \in Nat
          BY BasicDBAssumption
        <4> QED
          BY <4>3, <4>4, <4>5, <4>6, PartBounded
      <3> QED
        BY <1>1, <3>2, <3>3, <3>4, BasicDBAssumption DEF Wedged, IInv, Types
    <2> QED
      BY <1>1, <2>1, <2>2, <2>3 DEF Next, CommitStep
  <1>2. IInv /\ HandlesFit /\ (IInv /\ HandlesFit)' /\ [Next]_vars
        => [Wedged => crashes' # crashes \/ (Wedged' /\ stored' = stored)]_vars
    BY <1>1
  <1> QED
    BY HandlesBounded, <1>2, PTL DEF Spec, WedgedForGood
=============================================================================
