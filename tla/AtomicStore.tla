----------------------------- MODULE AtomicStore -----------------------------
(***************************************************************************)
(* What the node may rely on when it uses a database: one committer, whose *)
(* batches are stored whole and one after the other, and readers that each *)
(* see the store as it was at some moment of their call.  BasicDB is shown *)
(* to implement it.                                                        *)
(*                                                                         *)
(* The promise is as weak as the code makes it: an error means that the    *)
(* batch is not stored, a success does not mean that it is.                *)
(***************************************************************************)
EXTENDS Integers

CONSTANT Readers

NoCall == -1    \* a reader that is not reading
Thrown == -1    \* the result of a read that ended in an exception
Unread == -2    \* no result yet

VARIABLES
    store,      \* the number of batches stored
    commit,     \* the commit under way, if any, and whether it is stored
    reply,      \* what the last commit returned
    since,      \* for each reader the store at the moment of its call
    result      \* what its last read returned; 0 says the key was not found

vars == <<store, commit, reply, since, result>>

Init ==
    /\ store = 0
    /\ commit = "idle"
    /\ reply = "none"
    /\ since = [r \in Readers |-> NoCall]
    /\ result = [r \in Readers |-> Unread]

Call ==
    /\ commit = "idle"
    /\ commit' = "called"
    /\ reply' = "none"
    /\ UNCHANGED <<store, since, result>>

Apply ==
    /\ commit = "called"
    /\ commit' = "applied"
    /\ store' = store + 1
    /\ UNCHANGED <<reply, since, result>>

ReturnOk ==
    /\ commit # "idle"
    /\ commit' = "idle"
    /\ reply' = "ok"
    /\ UNCHANGED <<store, since, result>>

ReturnError ==
    /\ commit = "called"
    /\ commit' = "idle"
    /\ reply' = "error"
    /\ UNCHANGED <<store, since, result>>

ReadCall(r) ==
    /\ since[r] = NoCall
    /\ since' = [since EXCEPT ![r] = store]
    /\ result' = [result EXCEPT ![r] = Unread]
    /\ UNCHANGED <<store, commit, reply>>

ReadReturn(r) ==
    /\ since[r] # NoCall
    /\ since' = [since EXCEPT ![r] = NoCall]
    /\ \E value \in {Thrown} \cup since[r]..store :
          result' = [result EXCEPT ![r] = value]
    /\ UNCHANGED <<store, commit, reply>>

\* A crash forgets the calls and keeps the store.
Restart ==
    /\ commit' = "idle"
    /\ reply' = "none"
    /\ since' = [r \in Readers |-> NoCall]
    /\ result' = [r \in Readers |-> Unread]
    /\ UNCHANGED store

Next ==
    \/ Call \/ Apply \/ ReturnOk \/ ReturnError \/ Restart
    \/ \E r \in Readers : ReadCall(r) \/ ReadReturn(r)

Spec == Init /\ [][Next]_vars
=============================================================================
