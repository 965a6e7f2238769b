------------------------ MODULE ControlFileLockProofs ------------------------
(* Whatever fails, the variables of ControlFileLock keep their types.  While  *)
(* no holder outlives StaleAfter it implements AtomicStore, for any number of *)
(* transactions: for any processes if none dies, and for two of them even if  *)
(* one dies with the lock.                                                    *)
EXTENDS ControlFileLock, TLAPS

------------------------------------------------------------------------------
(* The queue of a process, with every failure there is: whoever awaits its    *)
(* turn is in it, and whoever has it is at its head.                          *)

Queued(t) == pc[t] \in {"queued"} \cup Waiting \cup Holding
Running(t) == pc[t] \in Waiting \cup Holding
Position(t, q) == \E i \in 1 .. Len(q) : q[i] = t

InTurn(t) ==
  /\ Queued(t) => Position(t, queue[Home[t]])
  /\ Running(t) => Head(queue[Home[t]]) = t

QueueInv == TypeOK /\ \A t \in Txn : InTurn(t)

\* A process runs one transaction at a time.
LEMMA OneRunning ==
  ASSUME QueueInv, NEW t \in Txn, NEW u \in Txn, Running(t), Running(u), Home[t] = Home[u]
  PROVE  t = u
  BY DEF QueueInv, InTurn

\* A step that leaves the queues alone.
LEMMA QueueKept ==
  ASSUME QueueInv, NEW t \in Txn, queue' = queue, \A u \in Txn \ {t} : pc'[u] = pc[u],
         Running(t)' => Head(queue[Home[t]]) = t, Queued(t)' => Queued(t)
  PROVE  \A u \in Txn : InTurn(u)'
  BY DEF QueueInv, InTurn, Queued, Running

\* A transaction that ends gives its turn to the next.
LEMMA LeaveStep ==
  ASSUME QueueInv, NEW t \in Txn, Running(t), Leave(t), NEW l \in Ended, Goto(t, l)
  PROVE  queue' \in [Process -> Seq(Txn)] /\ \A u \in Txn : InTurn(u)'
<1> DEFINE h == Home[t]
           q == queue[h]
<1> h \in Process /\ q \in Seq(Txn) /\ pc \in [Txn -> {"idle", "queued"} \cup Waiting \cup Holding \cup Ended]
  BY HomeAssumption DEF QueueInv, TypeOK
<1>1. q # <<>> /\ Head(q) = t
  BY DEF QueueInv, InTurn, Queued, Running, Position
<1>2. Tail(q) \in Seq(Txn) /\ Len(Tail(q)) = Len(q) - 1 /\ Len(q) >= 1
      /\ \A i \in 1 .. Len(q) - 1 : Tail(q)[i] = q[i + 1]
  BY <1>1
<1>3. queue' = [queue EXCEPT ![h] = Tail(q)] BY DEF Leave
<1>4. queue' \in [Process -> Seq(Txn)] /\ queue'[h] = Tail(q)
      /\ \A o \in Process \ {h} : queue'[o] = queue[o]
  BY <1>2, <1>3 DEF QueueInv, TypeOK
<1>5. pc'[t] = l /\ \A u \in Txn \ {t} : pc'[u] = pc[u] BY DEF Goto
<1>6. ~Queued(t)' /\ ~Running(t)' BY <1>5 DEF Queued, Running, Ended, Waiting, Holding
<1>7. ASSUME NEW u \in Txn, u # t PROVE InTurn(u)'
  <2>1. (Queued(u)' <=> Queued(u)) /\ (Running(u)' <=> Running(u)) BY <1>5, <1>7 DEF Queued, Running
  <2>2. CASE Home[u] # h
    BY <1>4, <2>1, <2>2, HomeAssumption DEF QueueInv, InTurn
  <2>3. CASE Home[u] = h
    <3>1. ~Running(u) BY <1>7, <2>3, OneRunning
    <3>2. ASSUME Queued(u) PROVE Position(u, Tail(q))
      <4>1. PICK i \in 1 .. Len(q) : q[i] = u
        BY <2>3, <3>2 DEF QueueInv, InTurn, Position
      <4>2. i # 1 BY <1>1, <1>7, <4>1
      <4>3. i - 1 \in 1 .. Len(Tail(q)) /\ Tail(q)[i - 1] = u BY <1>2, <4>1, <4>2
      <4> QED BY <4>3 DEF Position
    <3> QED BY <1>4, <2>1, <2>3, <3>1, <3>2 DEF InTurn
  <2> QED BY <2>2, <2>3
<1> QED BY <1>4, <1>6, <1>7 DEF InTurn

\* Every step keeps the queues in order and the variables in their ranges.
LEMMA QueueStep == ASSUME QueueInv, [Next]_vars PROVE QueueInv'
<1> /\ TypeOK /\ now \in Nat /\ pc \in [Txn -> {"idle", "queued"} \cup Waiting \cup Holding \cup Ended]
    /\ queue \in [Process -> Seq(Txn)]
  BY DEF QueueInv, TypeOK
<1>1. ASSUME NEW t \in Txn, Mutate(t) PROVE QueueInv'
  <2> DEFINE h == Home[t]
             q == queue[h]
  <2>1. h \in Process /\ q \in Seq(Txn) BY HomeAssumption
  <2>2. /\ Append(q, t) \in Seq(Txn) /\ Len(Append(q, t)) = Len(q) + 1
        /\ Append(q, t)[Len(q) + 1] = t /\ Len(q) \in Nat
        /\ \A i \in 1 .. Len(q) : Append(q, t)[i] = q[i]
    BY <2>1
  <2>3. queue' = [queue EXCEPT ![h] = Append(q, t)] BY <1>1 DEF Mutate
  <2>4. queue' \in [Process -> Seq(Txn)] /\ queue'[h] = Append(q, t)
        /\ \A o \in Process \ {h} : queue'[o] = queue[o]
    BY <2>1, <2>2, <2>3
  <2>5. pc'[t] = "queued" /\ \A u \in Txn \ {t} : pc'[u] = pc[u]
    BY <1>1 DEF Mutate, Goto
  <2>6. TypeOK' BY <1>1, <2>4 DEF Mutate, Goto, TypeOK
  <2>7. InTurn(t)'
    <3>1. Position(t, Append(q, t)) BY <2>2 DEF Position
    <3>2. ~Running(t)' BY <2>5 DEF Running, Waiting, Holding
    <3> QED BY <2>4, <3>1, <3>2 DEF InTurn
  <2>8. ASSUME NEW u \in Txn, u # t PROVE InTurn(u)'
    <3>1. (Queued(u)' <=> Queued(u)) /\ (Running(u)' <=> Running(u)) /\ InTurn(u)
      BY <2>5, <2>8 DEF Queued, Running, QueueInv
    <3>2. CASE Home[u] # h BY <2>4, <3>1, <3>2, HomeAssumption DEF InTurn
    <3>3. CASE Home[u] = h
      <4>1. Position(u, q) => Position(u, Append(q, t)) BY <2>2 DEF Position
      <4>2. Position(u, q) => Head(Append(q, t)) = Head(q) BY <2>1, <2>2 DEF Position
      <4>3. Running(u) => Queued(u) BY DEF Running, Queued
      <4> QED BY <2>4, <3>1, <3>3, <4>1, <4>2, <4>3 DEF InTurn
    <3> QED BY <3>2, <3>3
  <2> QED BY <2>6, <2>7, <2>8 DEF QueueInv
<1>2. ASSUME NEW t \in Txn, Turn(t) PROVE QueueInv'
  <2>1. TypeOK' BY <1>2 DEF Turn, Goto, TypeOK, Waiting
  <2>2. pc[t] = "queued" /\ queue' = queue /\ Head(queue[Home[t]]) = t
        /\ \A u \in Txn \ {t} : pc'[u] = pc[u]
    BY <1>2 DEF Turn, Goto
  <2>3. Queued(t) BY <2>2 DEF Queued
  <2> QED BY <2>1, <2>2, <2>3, QueueKept DEF QueueInv
<1>3. ASSUME NEW t \in Txn,
             OpenLock(t) \/ StatLock(t) \/ RenameLock(t) \/ Retry(t) \/ ReadState(t)
               \/ Persist(t) \/ WriteFails(t)
      PROVE  QueueInv'
  <2>1. Running(t) /\ queue' = queue /\ \E l \in Waiting \cup Holding : Goto(t, l)
    BY <1>3 DEF OpenLock, StatLock, RenameLock, Retry, ReadState, Persist, WriteFails, Running,
                Waiting, Holding
  <2>2. TypeOK'
    <3>1. pc' \in [Txn -> {"idle", "queued"} \cup Waiting \cup Holding \cup Ended]
      BY <2>1 DEF Goto
    <3>2. /\ now' \in Nat /\ state' \subseteq Txn /\ seen' \in [Txn -> SUBSET Txn]
          /\ since' \in [Txn -> Nat]
      BY <1>3 DEF OpenLock, StatLock, RenameLock, Retry, ReadState, Persist, WriteFails, TypeOK
    <3>3. file' \in [owner : Txn \cup {None}, mtime : Nat]
      BY <1>3 DEF OpenLock, StatLock, RenameLock, Retry, ReadState, Persist, WriteFails, TypeOK,
                  LockFile, NoFile
    <3> QED BY <2>1, <3>1, <3>2, <3>3 DEF TypeOK
  <2>3. \A u \in Txn \ {t} : pc'[u] = pc[u] BY <2>1 DEF Goto
  <2>4. Queued(t) /\ Head(queue[Home[t]]) = t BY <2>1 DEF QueueInv, InTurn, Running, Queued
  <2> QED BY <2>1, <2>2, <2>3, <2>4, QueueKept DEF QueueInv
<1>4. ASSUME NEW t \in Txn, GiveUp(t) \/ Release(t) PROVE QueueInv'
  <2>1. Running(t) /\ Leave(t) /\ \E l \in Ended : Goto(t, l)
    BY <1>4 DEF GiveUp, Release, Running, Waiting, Holding, Ended
  <2>2. queue' \in [Process -> Seq(Txn)] /\ \A u \in Txn : InTurn(u)' BY <2>1, LeaveStep
  <2>3. TypeOK'
    <3>1. pc' \in [Txn -> {"idle", "queued"} \cup Waiting \cup Holding \cup Ended]
      BY <2>1 DEF Goto
    <3>2. file' \in [owner : Txn \cup {None}, mtime : Nat]
      BY <1>4 DEF GiveUp, Release, TypeOK, NoFile
    <3> QED BY <1>4, <2>2, <3>1, <3>2 DEF GiveUp, Release, TypeOK
  <2> QED BY <2>2, <2>3 DEF QueueInv
<1>5. ASSUME NEW h \in Process, Crash(h) PROVE QueueInv'
  <2>1. /\ pc' = [t \in Txn |-> IF Home[t] = h /\ pc[t] \notin Ended THEN "crashed" ELSE pc[t]]
        /\ queue' = [queue EXCEPT ![h] = <<>>] /\ UNCHANGED <<now, state, file, seen, since>>
    BY <1>5 DEF Crash
  <2>2. TypeOK' BY <2>1 DEF TypeOK, Ended
  <2>3. ASSUME NEW u \in Txn, Home[u] = h PROVE InTurn(u)'
    <3>1. pc'[u] \in Ended BY <2>1, <2>3 DEF Ended
    <3> QED BY <3>1 DEF InTurn, Queued, Running, Ended, Waiting, Holding
  <2>4. ASSUME NEW u \in Txn, Home[u] # h PROVE InTurn(u)'
    <3>1. pc'[u] = pc[u] /\ queue'[Home[u]] = queue[Home[u]] BY <2>1, <2>4, HomeAssumption
    <3> QED BY <3>1 DEF QueueInv, InTurn, Queued, Running
  <2> QED BY <2>2, <2>3, <2>4 DEF QueueInv
<1>6. CASE Tick BY <1>6 DEF Tick, QueueInv, TypeOK, InTurn, Queued, Running
<1>7. CASE UNCHANGED vars BY <1>7 DEF vars, QueueInv, TypeOK, InTurn, Queued, Running
<1> QED BY <1>1, <1>2, <1>3, <1>4, <1>5, <1>6, <1>7 DEF Next, Step

\* The queues are empty at first.
LEMMA QueueInit == Init => QueueInv
<1> SUFFICES ASSUME Init PROVE QueueInv
  OBVIOUS
<1>1. TypeOK BY DEF Init, TypeOK, NoFile
<1>2. \A t \in Txn : InTurn(t) BY DEF Init, InTurn, Queued, Running, Waiting, Holding
<1> QED BY <1>1, <1>2 DEF QueueInv

\* Every variable stays in its range, whatever fails: a transaction that ends
\* finds itself at the head of the queue it leaves.
THEOREM LockTypes == Spec => []TypeOK
<1>1. QueueInv => TypeOK BY DEF QueueInv
<1> QED BY <1>1, QueueInit, QueueStep, PTL DEF Spec
------------------------------------------------------------------------------
(* The lock.  A lock file is moved away between two steps of the same         *)
(* transaction; that is harmless as long as nobody else is left who could     *)
(* have created another one in between.                                       *)

AtMostTwo == \A f, g, h \in Process : f = g \/ g = h \/ f = h

\* A process that died stays dead.
DeadStayDead ==
  \A c \in Txn : pc[c] = "crashed" =>
    /\ Fault("crash")
    /\ \A u \in Txn : Home[u] = Home[c] => pc[u] \in Ended

\* Whoever is inside the transaction owns the lock file, which is not old enough
\* to be taken for a dead process's; nobody else's is left but a dead one's.
LockHeld ==
  /\ \A t \in Txn : pc[t] \in Holding =>
       file.owner = t /\ since[t] = file.mtime /\ now - file.mtime <= StaleAfter
  /\ file.owner = None => file = NoFile
  /\ file.owner # None => pc[file.owner] \in Holding \/ pc[file.owner] = "crashed"

\* Whoever moves a lock file away found it to be of another process, dead since.
OthersAreDead ==
  \A u \in Txn : pc[u] = "rename" =>
    \E c \in Txn : pc[c] = "crashed" /\ Home[c] # Home[u]

\* What a transaction read is still the state when it writes, and nothing took
\* effect twice.
Fresh ==
  /\ \A t \in Txn : pc[t] = "persist" => seen[t] = state
  /\ \A t \in state : pc[t] \in {"release", "returned", "crashed"}

LockInv == DeadStayDead /\ LockHeld /\ OthersAreDead /\ Fresh
IInv == QueueInv /\ LockInv
------------------------------------------------------------------------------
\* One transaction is inside.
LEMMA OneHolder ==
  ASSUME LockHeld, NEW t \in Txn, pc[t] \in Holding
  PROVE  \A u \in Txn \ {t} : pc[u] \notin Holding
  BY DEF LockHeld

\* Nobody is inside while a lock file is about to be moved away.
LEMMA AloneToRename ==
  ASSUME IInv, Fault("crash") => AtMostTwo, NEW t \in Txn, pc[t] = "rename"
  PROVE  \A u \in Txn : pc[u] \notin Holding
<1> SUFFICES ASSUME NEW u \in Txn, pc[u] \in Holding PROVE FALSE
  OBVIOUS
<1>1. PICK c \in Txn : pc[c] = "crashed" /\ Home[c] # Home[t]
  BY DEF IInv, LockInv, OthersAreDead
<1>2. AtMostTwo BY <1>1 DEF IInv, LockInv, DeadStayDead
<1>3. Home[c] \in Process /\ Home[t] \in Process /\ Home[u] \in Process BY HomeAssumption
<1>4. Home[u] = Home[t] \/ Home[u] = Home[c] BY <1>1, <1>2, <1>3 DEF AtMostTwo
<1>5. Running(t) /\ Running(u) BY DEF Running, Waiting
<1>6. pc[u] \notin Ended /\ u # t BY DEF Holding, Ended
<1>7. Home[u] # Home[c] BY <1>1, <1>6 DEF IInv, LockInv, DeadStayDead
<1> QED BY <1>4, <1>5, <1>6, <1>7, OneRunning DEF IInv

\* A step of a transaction keeps the dead dead, and found the process of others
\* dead if it goes on to move the lock file away.
LEMMA StepOfOne ==
  ASSUME IInv, NEW t \in Txn, NEW l, Goto(t, l), pc[t] # "crashed", l # "crashed",
         \A u \in Txn : Home[u] = Home[t] => pc[u] # "crashed",
         l = "rename" => \E c \in Txn : pc[c] = "crashed" /\ Home[c] # Home[t]
  PROVE  DeadStayDead' /\ OthersAreDead'
<1>1. /\ pc'[t] = l /\ \A u \in Txn \ {t} : pc'[u] = pc[u]
  BY DEF Goto, IInv, QueueInv, TypeOK
<1>2. DeadStayDead'
  <2> SUFFICES ASSUME NEW c \in Txn, pc'[c] = "crashed"
               PROVE  Fault("crash") /\ \A u \in Txn : Home[u] = Home[c] => pc'[u] \in Ended
    BY DEF DeadStayDead, Fault
  <2>1. c # t /\ pc[c] = "crashed" BY <1>1
  <2>2. Home[c] # Home[t] BY <2>1
  <2> QED BY <1>1, <2>1, <2>2 DEF IInv, LockInv, DeadStayDead
<1>3. OthersAreDead'
  <2> SUFFICES ASSUME NEW u \in Txn, pc'[u] = "rename"
               PROVE  \E c \in Txn : pc'[c] = "crashed" /\ Home[c] # Home[u]
    BY DEF OthersAreDead
  <2>1. PICK c \in Txn : pc[c] = "crashed" /\ Home[c] # Home[u]
    BY <1>1 DEF IInv, LockInv, OthersAreDead
  <2> QED BY <1>1, <2>1
<1> QED BY <1>2, <1>3

\* The process of a transaction that runs is alive.
LEMMA RunsAlive ==
  ASSUME IInv, NEW t \in Txn, pc[t] \in {"queued"} \cup Waiting \cup Holding
  PROVE  /\ pc[t] # "crashed"
         /\ \A u \in Txn : Home[u] = Home[t] => pc[u] # "crashed"
<1>1. pc[t] \notin Ended BY DEF Waiting, Holding, Ended
<1> QED BY <1>1 DEF Ended, IInv, LockInv, DeadStayDead

\* A step that leaves the lock and the state alone, between points outside the
\* transaction.
LEMMA OutsideStep ==
  ASSUME IInv, NEW t \in Txn, NEW l \in {"queued", "open", "stat", "rename", "check", "failed"},
         pc[t] \in {"idle", "queued"} \cup Waiting, Goto(t, l),
         \A u \in Txn : Home[u] = Home[t] => pc[u] # "crashed",
         l = "rename" => \E c \in Txn : pc[c] = "crashed" /\ Home[c] # Home[t],
         \A u \in Txn \ {t} : since'[u] = since[u], UNCHANGED <<now, state, file, seen>>
  PROVE  LockInv'
<1>1. pc'[t] = l /\ \A u \in Txn \ {t} : pc'[u] = pc[u] BY DEF Goto, IInv, QueueInv, TypeOK
<1>2. /\ l \notin Holding /\ l # "persist" /\ l # "crashed"
      /\ pc[t] \notin Holding /\ pc[t] # "crashed" /\ pc[t] \notin {"release", "returned"}
  BY DEF Holding, Waiting
<1>3. DeadStayDead' /\ OthersAreDead' BY <1>2, StepOfOne
<1>4. LockHeld'
  <2>1. file.owner # None => file.owner \in Txn \ {t}
    BY <1>2 DEF IInv, LockInv, LockHeld, QueueInv, TypeOK
  <2> QED BY <1>1, <1>2, <2>1 DEF IInv, LockInv, LockHeld
<1>5. Fresh'
  <2>1. t \notin state /\ state \subseteq Txn BY <1>2 DEF IInv, LockInv, Fresh, QueueInv, TypeOK
  <2> QED BY <1>1, <1>2, <2>1 DEF IInv, LockInv, Fresh
<1> QED BY <1>3, <1>4, <1>5 DEF LockInv

\* A step inside the transaction, which leaves the lock and the state alone.
LEMMA InsideStep ==
  ASSUME IInv, NEW t \in Txn, NEW l \in Holding, pc[t] \in Holding \ {"release"}, Goto(t, l),
         l = "persist" => seen'[t] = state, \A u \in Txn \ {t} : seen'[u] = seen[u],
         UNCHANGED <<now, state, file, since>>
  PROVE  LockInv'
<1>1. pc'[t] = l /\ \A u \in Txn \ {t} : pc'[u] = pc[u] BY DEF Goto, IInv, QueueInv, TypeOK
<1>2. l # "crashed" /\ l # "rename" /\ pc[t] \notin {"release", "returned", "crashed"} BY DEF Holding
<1>3. DeadStayDead' /\ OthersAreDead' BY <1>2, RunsAlive, StepOfOne
<1>4. LockHeld'
  <2>1. file.owner # None => file.owner \in Txn BY DEF IInv, QueueInv, TypeOK
  <2> QED BY <1>1, <2>1 DEF IInv, LockInv, LockHeld
<1>5. Fresh'
  <2>1. t \notin state /\ state \subseteq Txn BY <1>2 DEF IInv, LockInv, Fresh, QueueInv, TypeOK
  <2> QED BY <1>1, <2>1 DEF IInv, LockInv, Fresh
<1> QED BY <1>3, <1>4, <1>5 DEF LockInv

\* The initial state satisfies the invariant.
LEMMA LockInit == Init => LockInv
<1> SUFFICES ASSUME Init PROVE LockInv
  OBVIOUS
<1>1. \A t \in Txn : pc[t] = "idle" BY DEF Init
<1>2. DeadStayDead /\ OthersAreDead BY <1>1 DEF DeadStayDead, OthersAreDead
<1>3. LockHeld BY <1>1 DEF Init, LockHeld, NoFile, Holding
<1>4. Fresh BY <1>1 DEF Init, Fresh
<1> QED BY <1>2, <1>3, <1>4 DEF LockInv

\* The steps that touch the lock file, the state, or more than one transaction.
LEMMA OpenStep == ASSUME IInv, NEW t \in Txn, OpenLock(t) PROVE LockInv'
<1>1. pc[t] = "open" BY DEF OpenLock
<1>2. pc[t] \in Waiting /\ pc[t] \notin Holding /\ pc[t] \notin {"release", "returned", "crashed"}
  BY <1>1 DEF Waiting, Holding
<1>3. CASE file = NoFile
  <2>1. /\ file' = [owner |-> t, mtime |-> now] /\ since' = [since EXCEPT ![t] = now]
        /\ Goto(t, "read") /\ UNCHANGED <<now, state, seen>>
    BY <1>3 DEF OpenLock, LockFile
  <2>2. pc'[t] = "read" /\ \A u \in Txn \ {t} : pc'[u] = pc[u]
    BY <2>1 DEF Goto, IInv, QueueInv, TypeOK
  <2>3. \A u \in Txn : pc[u] \notin Holding
    BY <1>3, NoneAssumption DEF IInv, LockInv, LockHeld, NoFile
  <2>4. DeadStayDead' /\ OthersAreDead' BY <1>2, <2>1, RunsAlive, StepOfOne
  <2>5. LockHeld'
    <3>1. since'[t] = now /\ now \in Nat BY <2>1 DEF IInv, QueueInv, TypeOK
    <3>2. now - now <= StaleAfter BY <3>1, DelayAssumption
    <3>3. "read" \in Holding BY DEF Holding
    <3> QED BY <2>1, <2>2, <2>3, <3>1, <3>2, <3>3, NoneAssumption DEF LockHeld
  <2>6. Fresh'
    <3>1. t \notin state /\ state \subseteq Txn BY <1>2 DEF IInv, LockInv, Fresh, QueueInv, TypeOK
    <3> QED BY <2>1, <2>2, <3>1 DEF IInv, LockInv, Fresh
  <2> QED BY <2>4, <2>5, <2>6 DEF LockInv
<1>4. CASE file # NoFile
  <2>1. Goto(t, "stat") /\ UNCHANGED <<now, state, file, seen, since>> BY <1>4 DEF OpenLock
  <2> QED BY <1>2, <2>1, RunsAlive, OutsideStep
<1> QED BY <1>3, <1>4

LEMMA StatStep == ASSUME IInv, NEW t \in Txn, StatLock(t) PROVE LockInv'
<1>1. pc[t] = "stat" /\ UNCHANGED <<now, state, file, seen, since>> BY DEF StatLock
<1>2. pc[t] \in Waiting BY <1>1 DEF Waiting
<1>3. \A u \in Txn : Home[u] = Home[t] => pc[u] # "crashed" BY <1>2, RunsAlive
<1>4. CASE Stale
  <2>1. file.owner \in Txn BY <1>4 DEF Stale, IInv, LockInv, LockHeld, QueueInv, TypeOK
  <2>2. ~ (now - file.mtime <= StaleAfter)
    BY <1>4, DelayAssumption DEF Stale, IInv, QueueInv, TypeOK
  <2>3. pc[file.owner] = "crashed" BY <2>1, <2>2, NoneAssumption DEF IInv, LockInv, LockHeld
  <2>4. Home[file.owner] # Home[t] BY <1>3, <2>1, <2>3
  <2> QED BY <1>1, <1>2, <1>3, <1>4, <2>1, <2>3, <2>4, OutsideStep DEF StatLock
<1>5. CASE ~ Stale BY <1>1, <1>2, <1>3, <1>5, OutsideStep DEF StatLock
<1> QED BY <1>4, <1>5

LEMMA RenameStep ==
  ASSUME IInv, Fault("crash") => AtMostTwo, NEW t \in Txn, RenameLock(t) PROVE LockInv'
<1>1. pc[t] = "rename" /\ Goto(t, "check") /\ file' = NoFile /\ UNCHANGED <<now, state, seen, since>>
  BY DEF RenameLock
<1>2. pc[t] \in Waiting /\ pc[t] \notin {"release", "returned", "crashed"} BY <1>1 DEF Waiting
<1>3. pc'[t] = "check" /\ \A u \in Txn \ {t} : pc'[u] = pc[u]
  BY <1>1 DEF Goto, IInv, QueueInv, TypeOK
<1>4. \A u \in Txn : pc[u] \notin Holding BY <1>1, AloneToRename
<1>5. DeadStayDead' /\ OthersAreDead' BY <1>1, <1>2, RunsAlive, StepOfOne
<1>6. LockHeld' BY <1>1, <1>3, <1>4 DEF LockHeld, NoFile, Holding
<1>7. Fresh'
  <2>1. t \notin state /\ state \subseteq Txn BY <1>2 DEF IInv, LockInv, Fresh, QueueInv, TypeOK
  <2> QED BY <1>1, <1>3, <2>1 DEF IInv, LockInv, Fresh
<1> QED BY <1>5, <1>6, <1>7 DEF LockInv

LEMMA PersistStep == ASSUME IInv, NEW t \in Txn, Persist(t) PROVE LockInv'
<1>1. /\ pc[t] = "persist" /\ Goto(t, "release") /\ state' = seen[t] \cup {t}
      /\ UNCHANGED <<now, file, seen, since>>
  BY DEF Persist
<1>2. pc[t] \in Holding BY <1>1 DEF Holding
<1>3. pc'[t] = "release" /\ \A u \in Txn \ {t} : pc'[u] = pc[u]
  BY <1>1 DEF Goto, IInv, QueueInv, TypeOK
<1>4. DeadStayDead' /\ OthersAreDead' BY <1>1, <1>2, RunsAlive, StepOfOne
<1>5. LockHeld'
  <2>1. file.owner # None => file.owner \in Txn BY DEF IInv, QueueInv, TypeOK
  <2>2. "release" \in Holding BY DEF Holding
  <2> QED BY <1>1, <1>2, <1>3, <2>1, <2>2 DEF IInv, LockInv, LockHeld
<1>6. Fresh'
  <2>1. seen[t] = state /\ state \subseteq Txn BY <1>1 DEF IInv, LockInv, Fresh, QueueInv, TypeOK
  <2>2. \A u \in Txn \ {t} : pc'[u] # "persist" BY <1>2, <1>3, OneHolder DEF IInv, LockInv, Holding
  <2> QED BY <1>1, <1>3, <2>1, <2>2 DEF IInv, LockInv, Fresh
<1> QED BY <1>4, <1>5, <1>6 DEF LockInv

LEMMA ReleaseStep == ASSUME IInv, NEW t \in Txn, Release(t) PROVE LockInv'
<1>1. PICK l \in {"returned", "failed"} :
        /\ Goto(t, l) /\ pc[t] \in {"release", "undo"} /\ (pc[t] = "release" => l = "returned")
  BY DEF Release
<1>2. file' = NoFile /\ UNCHANGED <<now, state, seen, since>> BY DEF Release
<1>3. pc[t] \in Holding BY <1>1 DEF Holding
<1>4. pc'[t] = l /\ \A u \in Txn \ {t} : pc'[u] = pc[u] BY <1>1 DEF Goto, IInv, QueueInv, TypeOK
<1>5. DeadStayDead' /\ OthersAreDead' BY <1>1, <1>3, RunsAlive, StepOfOne
<1>6. LockHeld' BY <1>2, <1>3, <1>4, OneHolder DEF IInv, LockInv, LockHeld, NoFile, Holding
<1>7. Fresh'
  <2>1. t \in state => pc[t] = "release" BY <1>1 DEF IInv, LockInv, Fresh
  <2>2. state \subseteq Txn BY DEF IInv, QueueInv, TypeOK
  <2> QED BY <1>1, <1>2, <1>4, <2>1, <2>2 DEF IInv, LockInv, Fresh
<1> QED BY <1>5, <1>6, <1>7 DEF LockInv

LEMMA CrashStep == ASSUME IInv, NEW h \in Process, Crash(h) PROVE LockInv'
<1>1. /\ \A t \in Txn : pc'[t] = IF Home[t] = h /\ pc[t] \notin Ended THEN "crashed" ELSE pc[t]
      /\ Fault("crash") /\ UNCHANGED <<now, state, file, seen, since>>
  BY DEF Crash
<1>2. \A t \in Txn : pc[t] = "crashed" => pc'[t] = "crashed" BY <1>1
<1>3. \A t \in Txn : pc'[t] # "crashed" => pc'[t] = pc[t] BY <1>1
<1>4. DeadStayDead'
  <2> SUFFICES ASSUME NEW c \in Txn, pc'[c] = "crashed", NEW u \in Txn, Home[u] = Home[c]
               PROVE  pc'[u] \in Ended
    BY <1>1 DEF DeadStayDead, Fault
  <2>1. CASE Home[c] = h BY <1>1, <2>1 DEF Ended
  <2>2. CASE Home[c] # h BY <1>1, <2>2 DEF IInv, LockInv, DeadStayDead
  <2> QED BY <2>1, <2>2
<1>5. OthersAreDead'
  <2> SUFFICES ASSUME NEW u \in Txn, pc'[u] = "rename"
               PROVE  \E c \in Txn : pc'[c] = "crashed" /\ Home[c] # Home[u]
    BY DEF OthersAreDead
  <2>1. pc[u] = "rename" BY <1>3
  <2> QED BY <1>2, <2>1 DEF IInv, LockInv, OthersAreDead
<1>6. LockHeld'
  <2>1. "crashed" \notin Holding BY DEF Holding
  <2>2. file.owner # None => file.owner \in Txn BY DEF IInv, QueueInv, TypeOK
  <2>3. file.owner # None => pc'[file.owner] \in Holding \/ pc'[file.owner] = "crashed"
    BY <1>1, <2>2 DEF IInv, LockInv, LockHeld
  <2>4. \A t \in Txn : pc'[t] \in Holding => pc[t] \in Holding BY <1>3, <2>1
  <2> QED BY <1>1, <2>3, <2>4 DEF IInv, LockInv, LockHeld
<1>7. Fresh'
  <2>1. state \subseteq Txn BY DEF IInv, QueueInv, TypeOK
  <2>2. \A t \in state : pc'[t] = pc[t] \/ pc'[t] = "crashed" BY <1>3, <2>1
  <2>3. \A t \in Txn : pc'[t] = "persist" => pc[t] = "persist" BY <1>3
  <2> QED BY <1>1, <2>2, <2>3 DEF IInv, LockInv, Fresh
<1> QED BY <1>4, <1>5, <1>6, <1>7 DEF LockInv

LEMMA TickStep == ASSUME ~Fault("stall"), IInv, Tick PROVE LockInv'
<1>1. /\ now' = now + 1 /\ UNCHANGED <<state, file, pc, seen, since>>
      /\ \A t \in Txn : pc[t] \in Holding => now - since[t] < StaleAfter
  BY DEF Tick
<1>2. DeadStayDead' /\ OthersAreDead' /\ Fresh'
  BY <1>1 DEF IInv, LockInv, DeadStayDead, OthersAreDead, Fresh, Fault
<1>3. file.mtime \in Nat /\ now \in Nat /\ StaleAfter \in Nat
  BY DelayAssumption DEF IInv, QueueInv, TypeOK
<1>4. now - file.mtime < StaleAfter => now + 1 - file.mtime <= StaleAfter BY <1>3
<1>5. LockHeld'
  <2>1. \A t \in Txn : pc[t] \in Holding =>
          file.owner = t /\ since[t] = file.mtime /\ now + 1 - file.mtime <= StaleAfter
    <3> SUFFICES ASSUME NEW t \in Txn, pc[t] \in Holding
                 PROVE  /\ file.owner = t /\ since[t] = file.mtime
                        /\ now + 1 - file.mtime <= StaleAfter
      OBVIOUS
    <3>1. file.owner = t /\ since[t] = file.mtime BY DEF IInv, LockInv, LockHeld
    <3>2. now - file.mtime < StaleAfter BY <1>1, <3>1
    <3> QED BY <1>4, <3>1, <3>2
  <2>2. /\ file.owner = None => file = NoFile
        /\ file.owner # None => pc[file.owner] \in Holding \/ pc[file.owner] = "crashed"
    BY DEF IInv, LockInv, LockHeld
  <2>3. pc' = pc /\ file' = file /\ since' = since /\ now' = now + 1 BY <1>1
  <2>4. \A t \in Txn : pc'[t] \in Holding =>
          file'.owner = t /\ since'[t] = file'.mtime /\ now' - file'.mtime <= StaleAfter
    BY <1>3, <2>1, <2>3
  <2>5. file'.owner = None => file' = NoFile BY <2>2, <2>3
  <2>6. file'.owner # None => pc'[file'.owner] \in Holding \/ pc'[file'.owner] = "crashed"
    BY <2>2, <2>3
  <2> QED BY <2>4, <2>5, <2>6 DEF LockHeld, Holding, NoFile
<1> QED BY <1>2, <1>5 DEF LockInv

\* Every step keeps the invariant.
LEMMA LockStep ==
  ASSUME ~Fault("stall"), Fault("crash") => AtMostTwo, IInv, [Next]_vars
  PROVE  LockInv'
<1>1. ASSUME NEW t \in Txn, Mutate(t) PROVE LockInv' BY <1>1, OutsideStep DEF Mutate
<1>2. ASSUME NEW t \in Txn, Turn(t) PROVE LockInv'
  <2>1. \A u \in Txn \ {t} : since'[u] = since[u] BY <1>2 DEF Turn, IInv, QueueInv, TypeOK
  <2> QED BY <1>2, <2>1, RunsAlive, OutsideStep DEF Turn
<1>3. ASSUME NEW t \in Txn, Retry(t) \/ GiveUp(t) PROVE LockInv'
  <2>1. pc[t] = "check" /\ pc[t] \in Waiting /\ UNCHANGED <<now, state, file, seen, since>>
    BY <1>3 DEF Retry, GiveUp, Waiting
  <2>2. \A u \in Txn : Home[u] = Home[t] => pc[u] # "crashed" BY <2>1, RunsAlive
  <2>3. Goto(t, "open") \/ Goto(t, "failed") BY <1>3 DEF Retry, GiveUp
  <2> QED BY <2>1, <2>2, <2>3, OutsideStep
<1>4. ASSUME NEW t \in Txn, ReadState(t) PROVE LockInv'
  <2>1. seen'[t] = state /\ \A u \in Txn \ {t} : seen'[u] = seen[u]
    BY <1>4 DEF ReadState, IInv, QueueInv, TypeOK
  <2> QED BY <1>4, <2>1, InsideStep DEF ReadState, Holding
<1>5. ASSUME NEW t \in Txn, WriteFails(t) PROVE LockInv'
  BY <1>5, InsideStep DEF WriteFails, Holding
<1>6. CASE UNCHANGED vars
  BY <1>6 DEF vars, IInv, LockInv, DeadStayDead, LockHeld, OthersAreDead, Fresh, Fault
<1> QED BY <1>1, <1>2, <1>3, <1>4, <1>5, <1>6, OpenStep, StatStep, RenameStep, PersistStep,
           ReleaseStep, CrashStep, TickStep DEF Next, Step

\* Each step of the locked store is a commit of AtomicStore or leaves the state.
LEMMA StepCommits ==
  ASSUME IInv, [Next]_vars PROVE [Atomic!Next]_state
<1>1. ASSUME NEW t \in Txn, Persist(t) PROVE Atomic!Commit(t)
  <2>1. seen[t] = state /\ pc[t] = "persist" BY <1>1 DEF Persist, IInv, LockInv, Fresh
  <2>2. t \notin state BY <2>1 DEF IInv, LockInv, Fresh
  <2> QED BY <1>1, <2>1, <2>2 DEF Persist, Atomic!Commit
<1>2. CASE \E t \in Txn : Persist(t) BY <1>1, <1>2 DEF Atomic!Next
<1>3. CASE ~\E t \in Txn : Persist(t)
  BY <1>3 DEF Next, Step, Mutate, Turn, OpenLock, StatLock, RenameLock, Retry, GiveUp,
              ReadState, WriteFails, Release, Crash, Tick, vars
<1> QED BY <1>2, <1>3

\* No transaction is lost or overwritten while no holder of the lock outlives
\* StaleAfter: the locked store implements the atomic one, for any processes as
\* long as none dies, and for two whichever of them dies and whenever (mutate,
\* acquireFileLock, recoverStaleFileLock).
THEOREM Serialization ==
  ASSUME ~Fault("stall"), Fault("crash") => AtMostTwo PROVE Spec => Serialized
<1>1. Init => IInv /\ Atomic!Init BY QueueInit, LockInit DEF IInv, Init, Atomic!Init
<1>2. IInv /\ [Next]_vars => IInv' /\ [Atomic!Next]_state
  BY QueueStep, LockStep, StepCommits DEF IInv
<1> QED BY <1>1, <1>2, PTL DEF Spec, Serialized, Atomic!Spec
==============================================================================
