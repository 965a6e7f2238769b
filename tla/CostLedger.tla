------------------------------ MODULE CostLedger ------------------------------
(* The cost ledger of a RunPod session (server/runpod-controller.ts): seconds *)
(* by what the Pod was doing, brought up to date before each change of the    *)
(* phase or of the workload.  A request reads the clock, and its transaction  *)
(* then waits for the queue and the lock file: the times reach the ledger     *)
(* late, and out of order.                                                    *)
EXTENDS Integers

CONSTANTS Never,   \* null
          Delay    \* how old a reading may be when its transaction takes effect

ASSUME LedgerAssumption == Never \notin Nat /\ Delay \in Nat

VARIABLES session,    \* what the ledger depends on
          now,        \* the time, in seconds
          spent,      \* reference: the seconds of this session, by what went on
          punctual    \* every transaction of this session took effect at once

ledgerVars == <<session, now, spent, punctual>>

Buckets == {"startup", "active", "idle", "shutdown"}
Phases == {"off", "planned", "provisioning", "starting", "loading_model", "ready",
           "stopping", "stopped", "error"}

Sessions == [phase : Phases, pod : BOOLEAN, busy : BOOLEAN,
             startedAt : Nat \cup {Never}, accruedAt : Nat \cup {Never},
             ledger : [Buckets -> Nat]]

EmptyLedger == [b \in Buckets |-> 0]
Total(ledger) == ledger["startup"] + ledger["active"] + ledger["idle"] + ledger["shutdown"]

Billed(s) == s.pod /\ s.phase \notin {"off", "stopped"}

Bucket(s) ==
  CASE s.phase \in {"planned", "provisioning", "starting", "loading_model"} -> "startup"
    [] s.phase = "ready" -> IF s.busy THEN "active" ELSE "idle"
    [] OTHER -> "shutdown"

From(s) == IF s.accruedAt = Never THEN s.startedAt ELSE s.accruedAt

\* The time that passed, added to the category it belongs to.
Bill(s, at) ==
  IF Billed(s) THEN [s.ledger EXCEPT ![Bucket(s)] = @ + (at - From(s))] ELSE s.ledger

\* Mutant of Accrue: the time up to which the session is billed stays where it was.
AccrueFromStart(s, at) ==
  IF s.startedAt = Never \/ at <= From(s) THEN s
  ELSE [s EXCEPT !.ledger = Bill(s, at)]

\* accrueCostLedger.
Accrue(s, at) ==
  IF s.startedAt = Never \/ at <= From(s) THEN s
  ELSE [s EXCEPT !.accruedAt = at, !.ledger = Bill(s, at)]

\* costEstimate: the ledger projected to the time of the request, in seconds,
\* which the hourly rate then multiplies.
Projected(s, at) == Accrue(s, at).ledger

------------------------------------------------------------------------------
(* The session over time.                                                     *)

Readings == (IF now > Delay THEN now - Delay ELSE 0) .. now

\* The reference counts each second to what was in force while it passed.
Tick ==
  /\ now' = now + 1
  /\ spent' = IF session.startedAt # Never /\ Billed(session)
              THEN [spent EXCEPT ![Bucket(session)] = @ + 1] ELSE spent
  /\ UNCHANGED <<session, punctual>>

\* start over a found Pod, or before one is created: a new ledger.
Begin(at, found) ==
  /\ \E phase \in {"provisioning", "starting", "loading_model", "stopped", "error"} :
       session' = [phase |-> IF found THEN phase ELSE "planned", pod |-> found, busy |-> FALSE,
                   startedAt |-> at, accruedAt |-> at, ledger |-> EmptyLedger]
  /\ spent' = EmptyLedger
  /\ punctual' = (at = now)
  /\ UNCHANGED now

\* Mutant of Change: the phase changes before the interval is accrued.
ChangeThenAccrue(at, phase, pod, busy) ==
  /\ session' = Accrue([session EXCEPT !.phase = phase, !.pod = pod, !.busy = busy], at)
  /\ punctual' = (punctual /\ at = now)
  /\ UNCHANGED <<now, spent>>

\* Every other transaction accrues, then changes the phase, the Pod or the workload.
Change(at, phase, pod, busy) ==
  /\ session' = [Accrue(session, at) EXCEPT !.phase = phase, !.pod = pod, !.busy = busy]
  /\ punctual' = (punctual /\ at = now)
  /\ UNCHANGED <<now, spent>>

\* start and reconcile record the Pod they found or created.
Observe(at) ==
  \E phase \in {"provisioning", "starting", "loading_model", "ready", "stopping", "stopped", "error"} :
    Change(at, phase, TRUE, session.busy)
\* reconcile finds no Pod.
Vanish(at) == session.phase # "planned" /\ Change(at, "off", FALSE, session.busy)
\* syncWorkload, and the end of the drain.
Workload(at, busy) == Change(at, session.phase, session.pod, busy)
\* stop asks for the stop, sees it confirmed, or finds no Pod; it keeps podId.
Stop(at) == \E phase \in {"stopping", "stopped", "off"} : Change(at, phase, session.pod, session.busy)
\* recordFailure.
Fail(at) == Change(at, "error", session.pod, session.busy)

\* No session, or one stored before there was a ledger.
LedgerInit ==
  /\ session \in [phase : {"off"}, pod : {FALSE}, busy : {FALSE}, startedAt : {Never},
                  accruedAt : {Never}, ledger : {EmptyLedger}]
             \cup [phase : {"ready"}, pod : {TRUE}, busy : BOOLEAN, startedAt : {0},
                   accruedAt : {Never}, ledger : {EmptyLedger}]
  /\ now = 0
  /\ spent = EmptyLedger
  /\ punctual = TRUE

Transaction ==
  \E at \in Readings :
    \/ \E found \in BOOLEAN : Begin(at, found)
    \/ Observe(at)
    \/ Vanish(at)
    \/ \E busy \in BOOLEAN : Workload(at, busy)
    \/ Stop(at)
    \/ Fail(at)

LedgerNext == Tick \/ Transaction
LedgerSpec == LedgerInit /\ [][LedgerNext]_ledgerVars

------------------------------------------------------------------------------
(* Properties.                                                                *)

\* The types of the variables.
LedgerTypeOK ==
  /\ session \in Sessions
  /\ now \in Nat
  /\ spent \in [Buckets -> Nat]
  /\ punctual \in BOOLEAN

\* However late and out of order the transactions take effect, no second of a
\* session is billed twice: the categories never add up to more than the time
\* the session has been accrued for, and that is never in the future.
NothingBilledTwice ==
  session.startedAt # Never =>
    /\ session.startedAt <= From(session) /\ From(session) <= now
    /\ Total(session.ledger) <= From(session) - session.startedAt

\* "The interval is accrued before the phase or the workload changes, so that
\* the categories do not mix" (progress.md:375): the estimate at this moment is,
\* category by category, what went on.
EstimateIsExact ==
  punctual /\ session.startedAt # Never => Projected(session, now) = spent
==============================================================================
