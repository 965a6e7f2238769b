--------------------------- MODULE ControlFileLock ---------------------------
(* The transactions of src/server/runpod-control-store.ts: mutate queues     *)
(* them within a process, and a lock file orders the processes that share a  *)
(* data directory.  A lock file older than a minute is taken for the rest of *)
(* a dead process and moved away.                                            *)
(*                                                                           *)
(* The state is the set of transactions whose effect the JSON file holds: a  *)
(* transaction adds itself to what it read.  persist replaces the file by a  *)
(* rename, in one step.                                                      *)
EXTENDS Integers, Sequences

CONSTANTS
  Txn, Process,
  Home,         \* the process each transaction runs in
  None,         \* no lock file
  Faults,       \* the failures that may occur
  StaleAfter,   \* FILE_LOCK_STALE_MILLISECONDS
  Timeout,      \* FILE_LOCK_TIMEOUT_MILLISECONDS
  MaxTime       \* bound: the clock goes on later only for a transaction that waits

FaultKinds == {"crash",   \* a process dies
               "write",   \* writing a file fails
               "stall"}   \* a holder of the lock outlives StaleAfter

ASSUME NoneAssumption == None \notin Txn
ASSUME HomeAssumption == Home \in [Txn -> Process]
ASSUME FileLockFaults == Faults \subseteq FaultKinds
ASSUME DelayAssumption == StaleAfter \in Nat /\ Timeout \in Nat /\ MaxTime \in Nat

VARIABLES
  now,     \* the clock
  state,   \* the contents of runpod-control.json
  file,    \* runpod-control.lock: who created it, and its mtime
  queue,   \* the transactions of each process that await their turn
  pc,      \* where each transaction stands
  seen,    \* the state it read
  since    \* when it began to wait for the lock, then when it got it

vars == <<now, state, file, queue, pc, seen, since>>
------------------------------------------------------------------------------
Fault(f) == f \in Faults
NoFile == [owner |-> None, mtime |-> 0]

Waiting == {"open", "stat", "rename", "check"}
Holding == {"read", "persist", "release", "undo"}
Ended == {"returned", "failed", "crashed"}

Init ==
  /\ now = 0 /\ state = {} /\ file = NoFile
  /\ queue = [h \in Process |-> <<>>]
  /\ pc = [t \in Txn |-> "idle"]
  /\ seen = [t \in Txn |-> {}] /\ since = [t \in Txn |-> 0]

Goto(t, label) == pc' = [pc EXCEPT ![t] = label]

\* Mutant of Leave: a transaction that ends does not give its turn away.
KeepTurn(t) == UNCHANGED queue
Leave(t) == queue' = [queue EXCEPT ![Home[t]] = Tail(@)]
------------------------------------------------------------------------------
(* mutate: the queue of the process *)

Mutate(t) ==
  /\ pc[t] = "idle"
  /\ \A u \in Txn : Home[u] = Home[t] => pc[u] # "crashed"
  /\ queue' = [queue EXCEPT ![Home[t]] = Append(@, t)]
  /\ Goto(t, "queued")
  /\ UNCHANGED <<now, state, file, seen, since>>

Turn(t) ==
  /\ pc[t] = "queued" /\ Head(queue[Home[t]]) = t
  /\ since' = [since EXCEPT ![t] = now]
  /\ Goto(t, "open")
  /\ UNCHANGED <<now, state, file, queue, seen>>
------------------------------------------------------------------------------
(* acquireFileLock *)

LockFile(t) == [owner |-> t, mtime |-> now]

\* open(lockFile, "wx") fails when the file exists.
OpenLock(t) ==
  /\ pc[t] = "open"
  /\ IF file = NoFile
     THEN /\ file' = LockFile(t)
          /\ since' = [since EXCEPT ![t] = now]
          /\ Goto(t, "read")
     ELSE Goto(t, "stat") /\ UNCHANGED <<file, since>>
  /\ UNCHANGED <<now, state, queue, seen>>

\* Mutant of Stale: a lock is taken for a dead process's at once.
StaleAtOnce == file # NoFile
Stale == file # NoFile /\ now - file.mtime > StaleAfter

\* recoverStaleFileLock looks at the file ...
StatLock(t) ==
  /\ pc[t] = "stat"
  /\ Goto(t, IF Stale THEN "rename" ELSE "check")
  /\ UNCHANGED <<now, state, file, queue, seen, since>>

\* ... and moves away whatever is there by then.
RenameLock(t) ==
  /\ pc[t] = "rename"
  /\ file' = NoFile
  /\ Goto(t, "check")
  /\ UNCHANGED <<now, state, queue, seen, since>>

Expired(t) == now >= since[t] + Timeout

Retry(t) ==
  /\ pc[t] = "check" /\ ~Expired(t)
  /\ Goto(t, "open")
  /\ UNCHANGED <<now, state, file, queue, seen, since>>

GiveUp(t) ==
  /\ pc[t] = "check" /\ Expired(t)
  /\ Leave(t) /\ Goto(t, "failed")
  /\ UNCHANGED <<now, state, file, seen, since>>
------------------------------------------------------------------------------
(* The transaction and the release of the lock *)

ReadState(t) ==
  /\ pc[t] = "read"
  /\ seen' = [seen EXCEPT ![t] = state]
  /\ Goto(t, "persist")
  /\ UNCHANGED <<now, state, file, queue, since>>

Persist(t) ==
  /\ pc[t] = "persist"
  /\ state' = seen[t] \cup {t}
  /\ Goto(t, "release")
  /\ UNCHANGED <<now, file, queue, seen, since>>

\* The lock or the temporary file cannot be written: the lock is removed, the error rethrown.
WriteFails(t) ==
  /\ Fault("write") /\ pc[t] \in {"read", "persist"}
  /\ Goto(t, "undo")
  /\ UNCHANGED <<now, state, file, queue, seen, since>>

\* rm(lockFile, {force: true}) removes the file, whoever created it.
Release(t) ==
  /\ pc[t] \in {"release", "undo"}
  /\ file' = NoFile
  /\ Leave(t) /\ Goto(t, IF pc[t] = "release" THEN "returned" ELSE "failed")
  /\ UNCHANGED <<now, state, seen, since>>
------------------------------------------------------------------------------
(* The environment *)

\* A process dies: the lock file it may have created stays.
Crash(h) ==
  /\ Fault("crash")
  /\ \E t \in Txn : Home[t] = h /\ pc[t] \in Waiting \cup Holding
  /\ pc' = [t \in Txn |-> IF Home[t] = h /\ pc[t] \notin Ended THEN "crashed" ELSE pc[t]]
  /\ queue' = [queue EXCEPT ![h] = <<>>]
  /\ UNCHANGED <<now, state, file, seen, since>>

Tick ==
  /\ now < MaxTime \/ \E t \in Txn : pc[t] \in Waiting /\ ~Expired(t)
  /\ Fault("stall") \/ \A t \in Txn : pc[t] \in Holding => now - since[t] < StaleAfter
  /\ now' = now + 1
  /\ UNCHANGED <<state, file, queue, pc, seen, since>>

Step(t) == Turn(t) \/ OpenLock(t) \/ StatLock(t) \/ RenameLock(t) \/ Retry(t) \/ GiveUp(t)
           \/ ReadState(t) \/ Persist(t) \/ WriteFails(t) \/ Release(t)

Next == \/ \E t \in Txn : Mutate(t) \/ Step(t)
        \/ \E h \in Process : Crash(h)
        \/ Tick

Spec == Init /\ [][Next]_vars

\* A transaction that runs goes on, and time passes.
Fairness == WF_vars(Tick) /\ \A t \in Txn : WF_vars(Step(t))
FairSpec == Spec /\ Fairness
------------------------------------------------------------------------------
(* Properties *)

\* Every variable stays in its range.
TypeOK ==
  /\ now \in Nat
  /\ state \subseteq Txn
  /\ file \in [owner : Txn \cup {None}, mtime : Nat]
  /\ queue \in [Process -> Seq(Txn)]
  /\ pc \in [Txn -> {"idle", "queued"} \cup Waiting \cup Holding \cup Ended]
  /\ seen \in [Txn -> SUBSET Txn]
  /\ since \in [Txn -> Nat]

\* Transactions take effect one after the other: none overwrites the effect of
\* another process, whoever crashed before.
Atomic == INSTANCE AtomicStore
Serialized == Atomic!Spec

\* mutate settles: a transaction whose turn came commits, fails or times out,
\* and so gives way to the next of its process.
MutateSettles == \A t \in Txn : pc[t] = "queued" ~> pc[t] \in Ended
==============================================================================
