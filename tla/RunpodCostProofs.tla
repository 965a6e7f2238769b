-------------------------- MODULE RunpodCostProofs --------------------------
(* What sessions cost.  CostLedger: no second is billed twice, and a punctual *)
(* ledger is exact, for any delay of the transactions and any history of the  *)
(* session.  RunpodCatalog: how old an overview can be, and that the places   *)
(* that judge it agree, for any callers, times, catalogues and settings.      *)
EXTENDS CostLedger, RunpodCatalog, TLAPS

LedgerInv == LedgerTypeOK /\ NothingBilledTwice /\ EstimateIsExact

------------------------------------------------------------------------------
(* The operators of the ledger.                                               *)

LEMMA BucketType == ASSUME NEW s \in Sessions PROVE Bucket(s) \in Buckets
  BY DEF Bucket, Buckets, Sessions, Phases

LEMMA EmptyLedgerType == EmptyLedger \in [Buckets -> Nat] /\ Total(EmptyLedger) = 0
  BY DEF EmptyLedger, Total, Buckets

\* Adding to one category adds as much to the total.
LEMMA TotalGrows ==
  ASSUME NEW ledger \in [Buckets -> Nat], NEW b \in Buckets, NEW n \in Nat
  PROVE LET grown == [ledger EXCEPT ![b] = @ + n]
        IN grown \in [Buckets -> Nat] /\ Total(grown) = Total(ledger) + n
<1>1. ledger["startup"] \in Nat /\ ledger["active"] \in Nat /\ ledger["idle"] \in Nat
        /\ ledger["shutdown"] \in Nat
  BY DEF Buckets
<1>2. b = "startup" \/ b = "active" \/ b = "idle" \/ b = "shutdown"
  BY DEF Buckets
<1> QED BY <1>1, <1>2 DEF Total, Buckets

LEMMA FromType ==
  ASSUME NEW s \in Sessions, s.startedAt # Never
  PROVE s.startedAt \in Nat /\ From(s) \in Nat
  BY DEF Sessions, From

\* What accrueCostLedger changes: the time billed up to, and one category.
LEMMA AccrueEffect ==
  ASSUME NEW s \in Sessions, NEW at \in Nat, s.startedAt # Never
  PROVE /\ Accrue(s, at) \in Sessions
        /\ Accrue(s, at).startedAt = s.startedAt
        /\ From(Accrue(s, at)) = IF at <= From(s) THEN From(s) ELSE at
        /\ Accrue(s, at).ledger = IF at <= From(s) THEN s.ledger ELSE Bill(s, at)
<1>1. From(s) \in Nat BY FromType
<1>2. CASE at <= From(s)
  <2>1. Accrue(s, at) = s BY <1>2 DEF Accrue
  <2> QED BY <1>2, <2>1
<1>3. CASE ~ (at <= From(s))
  <2>1. at - From(s) \in Nat BY <1>1, <1>3
  <2>2. s.ledger \in [Buckets -> Nat] BY DEF Sessions
  <2>3. [s.ledger EXCEPT ![Bucket(s)] = @ + (at - From(s))] \in [Buckets -> Nat]
    BY <2>1, <2>2, BucketType, TotalGrows
  <2>5. Bill(s, at) \in [Buckets -> Nat] BY <2>2, <2>3 DEF Bill
  <2>6. Accrue(s, at) = [s EXCEPT !.accruedAt = at, !.ledger = Bill(s, at)]
    BY <1>3 DEF Accrue
  <2>7. /\ Accrue(s, at) \in Sessions
        /\ Accrue(s, at).startedAt = s.startedAt
        /\ Accrue(s, at).accruedAt = at
        /\ Accrue(s, at).ledger = Bill(s, at)
    BY <2>5, <2>6 DEF Sessions
  <2>8. at # Never BY LedgerAssumption
  <2> QED BY <1>3, <2>7, <2>8 DEF From
<1> QED BY <1>2, <1>3

\* Without a start nothing is accrued.
LEMMA AccrueNothing ==
  ASSUME NEW s, NEW at, s.startedAt = Never
  PROVE Accrue(s, at) = s
  BY DEF Accrue

LEMMA ReadingsType == ASSUME now \in Nat PROVE Readings \subseteq 0 .. now
<1> SUFFICES ASSUME NEW at \in Readings PROVE at \in 0 .. now OBVIOUS
<1>1. CASE now > Delay
  <2>1. at \in (now - Delay) .. now BY <1>1 DEF Readings
  <2> QED BY <1>1, <2>1, LedgerAssumption
<1>2. CASE ~ (now > Delay)
  BY <1>2 DEF Readings
<1> QED BY <1>1, <1>2

------------------------------------------------------------------------------
(* The steps.                                                                 *)

LEMMA InitLedgerInv == LedgerInit => LedgerInv
<1> SUFFICES ASSUME LedgerInit PROVE LedgerInv OBVIOUS
<1>1. session \in Sessions /\ session.ledger = EmptyLedger
  <2>1. EmptyLedger \in [Buckets -> Nat] BY EmptyLedgerType
  <2>2. CASE session \in [phase : {"off"}, pod : {FALSE}, busy : {FALSE}, startedAt : {Never},
                          accruedAt : {Never}, ledger : {EmptyLedger}]
    BY <2>1, <2>2 DEF Sessions, Phases
  <2>3. CASE session \in [phase : {"ready"}, pod : {TRUE}, busy : BOOLEAN, startedAt : {0},
                          accruedAt : {Never}, ledger : {EmptyLedger}]
    <3>1. PICK busy \in BOOLEAN :
            session = [phase |-> "ready", pod |-> TRUE, busy |-> busy, startedAt |-> 0,
                       accruedAt |-> Never, ledger |-> EmptyLedger]
      BY <2>3
    <3> QED BY <2>1, <3>1 DEF Sessions, Phases
  <2> QED BY <2>2, <2>3 DEF LedgerInit
<1>2. session.startedAt # Never => session.startedAt = 0 /\ session.accruedAt = Never
  BY DEF LedgerInit
<1>3. LedgerTypeOK BY <1>1, EmptyLedgerType DEF LedgerInit, LedgerTypeOK
<1>4. NothingBilledTwice
  BY <1>1, <1>2, EmptyLedgerType DEF LedgerInit, NothingBilledTwice, From
<1>5. EstimateIsExact
  BY <1>1, <1>2 DEF LedgerInit, EstimateIsExact, Projected, Accrue, From
<1> QED BY <1>3, <1>4, <1>5 DEF LedgerInv

LEMMA TickLedgerInv == LedgerInv /\ Tick => LedgerInv'
<1> SUFFICES ASSUME LedgerInv, Tick PROVE LedgerInv' OBVIOUS
<1>0. session \in Sessions /\ now \in Nat /\ spent \in [Buckets -> Nat] /\ punctual \in BOOLEAN
  BY DEF LedgerInv, LedgerTypeOK
<1>1. session' = session /\ punctual' = punctual /\ now' = now + 1 BY DEF Tick
<1>2. Bucket(session) \in Buckets BY <1>0, BucketType
<1>3. spent' = IF session.startedAt # Never /\ Billed(session)
               THEN [spent EXCEPT ![Bucket(session)] = @ + 1] ELSE spent
  BY DEF Tick
<1>4. LedgerTypeOK'
  <2>1. spent' \in [Buckets -> Nat] BY <1>0, <1>2, <1>3, TotalGrows
  <2> QED BY <1>0, <1>1, <2>1 DEF LedgerTypeOK
<1>5. NothingBilledTwice'
  <2> SUFFICES ASSUME session.startedAt # Never
               PROVE From(session) <= now + 1
    BY <1>1 DEF LedgerInv, NothingBilledTwice, From, Total
  <2> QED BY <1>0, FromType DEF LedgerInv, NothingBilledTwice
<1>6. EstimateIsExact'
  <2> SUFFICES ASSUME punctual, session.startedAt # Never
               PROVE Accrue(session, now + 1).ledger = spent'
    BY <1>1 DEF EstimateIsExact, Projected
  <2>1. From(session) \in Nat /\ From(session) <= now
    BY <1>0, FromType DEF LedgerInv, NothingBilledTwice
  <2>2. Accrue(session, now).ledger = spent
    BY DEF LedgerInv, EstimateIsExact, Projected
  <2>3. CASE ~ Billed(session)
    <3>1. now + 1 \in Nat BY <1>0
    <3>2. Accrue(session, now + 1).ledger = session.ledger
      BY <1>0, <2>3, <3>1, AccrueEffect DEF Bill
    <3>3. Accrue(session, now).ledger = session.ledger
      BY <1>0, <2>3, AccrueEffect DEF Bill
    <3> QED BY <1>3, <2>2, <2>3, <3>2, <3>3
  <2>4. CASE Billed(session)
    <3>0. now + 1 \in Nat /\ ~ (now + 1 <= From(session)) BY <1>0, <2>1
    <3>1. Accrue(session, now + 1).ledger =
            [session.ledger EXCEPT ![Bucket(session)] =
               session.ledger[Bucket(session)] + ((now + 1) - From(session))]
      <4>1. Accrue(session, now + 1).ledger = Bill(session, now + 1)
        BY <1>0, <3>0, AccrueEffect
      <4>2. Bill(session, now + 1) =
              [session.ledger EXCEPT ![Bucket(session)] =
                 session.ledger[Bucket(session)] + ((now + 1) - From(session))]
        BY <2>4, Zenon DEF Bill
      <4> QED BY <4>1, <4>2
    <3>2. spent' = [spent EXCEPT ![Bucket(session)] = @ + 1] BY <1>3, <2>4
    <3>3. session.ledger \in [Buckets -> Nat] BY <1>0 DEF Sessions
    <3>4. CASE From(session) = now
      <4>1. spent = session.ledger BY <1>0, <2>2, <3>4, AccrueEffect
      <4>2. (now + 1) - From(session) = 1 BY <1>0, <3>4
      <4>3. Accrue(session, now + 1).ledger =
              [session.ledger EXCEPT ![Bucket(session)] = session.ledger[Bucket(session)] + 1]
        BY <3>1, <4>2
      <4>4. spent' = [session.ledger EXCEPT ![Bucket(session)] = session.ledger[Bucket(session)] + 1]
        BY <3>2, <4>1
      <4> QED BY <4>3, <4>4
    <3>5. CASE From(session) # now
      <4>1. spent = [session.ledger EXCEPT ![Bucket(session)] = @ + (now - From(session))]
        <5>1. ~ (now <= From(session)) BY <1>0, <2>1, <3>5
        <5>2. Accrue(session, now).ledger = Bill(session, now)
          BY <1>0, <5>1, AccrueEffect
        <5> QED BY <2>2, <2>4, <5>2 DEF Bill
      <4> QED BY <1>0, <1>2, <2>1, <3>1, <3>2, <3>3, <4>1
    <3> QED BY <3>4, <3>5
  <2> QED BY <2>3, <2>4
<1> QED BY <1>4, <1>5, <1>6 DEF LedgerInv

LEMMA BeginLedgerInv ==
  ASSUME LedgerInv, NEW at \in Readings, NEW found \in BOOLEAN, Begin(at, found)
  PROVE LedgerInv'
<1>0. now \in Nat /\ at \in Nat /\ at <= now
  BY ReadingsType DEF LedgerInv, LedgerTypeOK
<1>1. PICK phase \in Phases :
        session' = [phase |-> phase, pod |-> found, busy |-> FALSE,
                    startedAt |-> at, accruedAt |-> at, ledger |-> EmptyLedger]
  BY DEF Begin, Phases
<1>2. now' = now /\ spent' = EmptyLedger /\ punctual' = (at = now) BY DEF Begin
<1>3. at # Never BY <1>0, LedgerAssumption
<1>4. LedgerTypeOK'
  BY <1>0, <1>1, <1>2, EmptyLedgerType DEF LedgerTypeOK, Sessions
<1>5. NothingBilledTwice'
  BY <1>0, <1>1, <1>2, <1>3, EmptyLedgerType DEF NothingBilledTwice, From
<1>6. EstimateIsExact'
  BY <1>0, <1>1, <1>2, <1>3 DEF EstimateIsExact, Projected, Accrue, From
<1> QED BY <1>4, <1>5, <1>6 DEF LedgerInv

LEMMA ChangeLedgerInv ==
  ASSUME LedgerInv, NEW at \in Readings, NEW phase \in Phases, NEW pod \in BOOLEAN,
         NEW busy \in BOOLEAN, Change(at, phase, pod, busy)
  PROVE LedgerInv'
<1>0. now \in Nat /\ at \in Nat /\ at <= now /\ session \in Sessions /\ spent \in [Buckets -> Nat]
        /\ punctual \in BOOLEAN
  BY ReadingsType DEF LedgerInv, LedgerTypeOK
<1> DEFINE s == Accrue(session, at)
<1>1. session' = [s EXCEPT !.phase = phase, !.pod = pod, !.busy = busy] BY DEF Change
<1>2. now' = now /\ spent' = spent /\ punctual' = (punctual /\ at = now) BY DEF Change
<1>3. s \in Sessions
  BY <1>0, AccrueEffect, AccrueNothing
<1> HIDE DEF s
<1>4. /\ session' \in Sessions
      /\ session'.startedAt = s.startedAt /\ session'.accruedAt = s.accruedAt
      /\ session'.ledger = s.ledger
  BY <1>1, <1>3 DEF Sessions
<1>5. LedgerTypeOK' BY <1>0, <1>2, <1>4 DEF LedgerTypeOK
<1>6. CASE session.startedAt = Never
  <2>1. session'.startedAt = Never BY <1>4, <1>6, AccrueNothing DEF s
  <2> QED BY <1>5, <2>1 DEF LedgerInv, NothingBilledTwice, EstimateIsExact
<1>7. CASE session.startedAt # Never
  <2>1. /\ s.startedAt = session.startedAt
        /\ From(s) = IF at <= From(session) THEN From(session) ELSE at
        /\ s.ledger = IF at <= From(session) THEN session.ledger ELSE Bill(session, at)
    BY <1>0, <1>7, AccrueEffect DEF s
  <2>2. From(session') = From(s) BY <1>4 DEF From
  <2>3. /\ session.startedAt \in Nat /\ From(session) \in Nat
        /\ session.startedAt <= From(session) /\ From(session) <= now
        /\ Total(session.ledger) <= From(session) - session.startedAt
    BY <1>0, <1>7, FromType DEF LedgerInv, NothingBilledTwice
  <2>4. NothingBilledTwice'
    <3>1. Total(s.ledger) <= From(s) - session.startedAt
      <4>1. CASE at <= From(session)
        BY <2>1, <2>3, <4>1
      <4>2. CASE ~ (at <= From(session))
        <5>1. at - From(session) \in Nat BY <1>0, <2>3, <4>2
        <5>2. session.ledger \in [Buckets -> Nat] /\ Bucket(session) \in Buckets
          BY <1>0, BucketType DEF Sessions
        <5>3. Total(session.ledger) \in Nat
          BY <5>2 DEF Total, Buckets
        <5>4. Total(s.ledger) \in {Total(session.ledger),
                                   Total(session.ledger) + (at - From(session))}
          BY <2>1, <4>2, <5>1, <5>2, TotalGrows DEF Bill
        <5> QED BY <1>0, <2>1, <2>3, <4>2, <5>3, <5>4
      <4> QED BY <4>1, <4>2
    <3>2. Total(session'.ledger) = Total(s.ledger) BY <1>4
    <3>3. session.startedAt <= From(s) /\ From(s) <= now BY <1>0, <2>1, <2>3
    <3>4. session'.startedAt = session.startedAt BY <1>4, <2>1
    <3> QED BY <1>2, <2>2, <3>1, <3>2, <3>3, <3>4 DEF NothingBilledTwice
  <2>5. EstimateIsExact'
    <3> SUFFICES ASSUME punctual, at = now
                 PROVE Accrue(session', now).ledger = spent
      BY <1>2 DEF EstimateIsExact, Projected
    <3>1. s.ledger = spent
      BY <1>7 DEF LedgerInv, EstimateIsExact, Projected, s
    <3>2. From(session') = now BY <1>0, <2>1, <2>2, <2>3
    <3>3. Accrue(session', now) = session' BY <1>0, <3>2 DEF Accrue
    <3> QED BY <1>4, <3>1, <3>3
  <2> QED BY <1>5, <2>4, <2>5 DEF LedgerInv
<1> QED BY <1>6, <1>7

LEMMA TransactionLedgerInv == LedgerInv /\ Transaction => LedgerInv'
<1> SUFFICES ASSUME LedgerInv, NEW at \in Readings,
                    \/ \E found \in BOOLEAN : Begin(at, found)
                    \/ Observe(at)
                    \/ Vanish(at)
                    \/ \E busy \in BOOLEAN : Workload(at, busy)
                    \/ Stop(at)
                    \/ Fail(at)
             PROVE LedgerInv'
  BY DEF Transaction
<1>0. session.phase \in Phases /\ session.pod \in BOOLEAN /\ session.busy \in BOOLEAN
  BY DEF LedgerInv, LedgerTypeOK, Sessions
<1>1. CASE \E found \in BOOLEAN : Begin(at, found)
  BY <1>1, BeginLedgerInv
<1>2. CASE Observe(at)
  BY <1>0, <1>2, ChangeLedgerInv DEF Observe, Phases
<1>3. CASE Vanish(at)
  BY <1>0, <1>3, ChangeLedgerInv DEF Vanish, Phases
<1>4. CASE \E busy \in BOOLEAN : Workload(at, busy)
  BY <1>0, <1>4, ChangeLedgerInv DEF Workload
<1>5. CASE Stop(at)
  BY <1>0, <1>5, ChangeLedgerInv DEF Stop, Phases
<1>6. CASE Fail(at)
  BY <1>0, <1>6, ChangeLedgerInv DEF Fail, Phases
<1> QED BY <1>1, <1>2, <1>3, <1>4, <1>5, <1>6

LEMMA StepLedgerInv == LedgerInv /\ [LedgerNext]_ledgerVars => LedgerInv'
<1> SUFFICES ASSUME LedgerInv, [LedgerNext]_ledgerVars PROVE LedgerInv' OBVIOUS
<1>1. CASE LedgerNext
  BY <1>1, TickLedgerInv, TransactionLedgerInv DEF LedgerNext
<1>2. CASE UNCHANGED ledgerVars
  BY <1>2 DEF ledgerVars, LedgerInv, LedgerTypeOK, NothingBilledTwice, EstimateIsExact,
              Projected, Accrue, From, Total, Billed, Bucket
<1> QED BY <1>1, <1>2

LEMMA LedgerInvariant == LedgerSpec => []LedgerInv
  BY InitLedgerInv, StepLedgerInv, PTL DEF LedgerSpec

\* The ledger stays a record of natural numbers: no late reading of the clock
\* makes a category negative.
THEOREM LedgerTyped == LedgerSpec => []LedgerTypeOK
  BY LedgerInvariant, PTL DEF LedgerInv

\* The categories never add up to more than the time the session was accrued
\* for, whatever the order and the age of the clock readings.
THEOREM LedgerBillsOnce == LedgerSpec => []NothingBilledTwice
  BY LedgerInvariant, PTL DEF LedgerInv

\* When every transaction takes effect at the time it read, the estimate is
\* exact in each category, through every sequence of starts, failures and stops.
THEOREM LedgerExact == LedgerSpec => []EstimateIsExact
  BY LedgerInvariant, PTL DEF LedgerInv
------------------------------------------------------------------------------
(* The overview.                                                              *)

\* The request under way is young enough, and the cache is older than it.
RequestYoung ==
  overviewRequest # Null =>
    /\ overviewRequest.began <= clock /\ clock <= overviewRequest.began + Span
    /\ overviewCache # Null => overviewCache.began <= overviewRequest.began

\* What is cached is young until it expires, and what was answered last is no newer.
CacheYoung ==
  /\ overviewCache # Null =>
       /\ overviewCache.began <= clock
       /\ overviewCache.expiresAt <= overviewCache.began + Span + Ttl
       /\ latest <= overviewCache.began
  /\ overviewCache = Null => latest = 0

CatalogInv ==
  /\ CatalogTypeOK /\ RequestYoung /\ CacheYoung
  /\ \A c \in Caller : caller[c].asked <= clock
  /\ OverviewIsRecent

Calls == [at : {"idle", "waiting", "answered"}, fresh : BOOLEAN, asked : Nat, began : Nat]

LEMMA NoCallType == NoCall \in Calls /\ NoCall.at = "idle" /\ NoCall.asked = 0
  BY DEF NoCall, Calls

LEMMA CatalogStart == CatalogInit => CatalogInv
<1> SUFFICES ASSUME CatalogInit PROVE CatalogInv
  OBVIOUS
<1>1. \A c \in Caller : caller[c] = NoCall BY DEF CatalogInit
<1>2. CatalogTypeOK BY NoCallType, Zenon DEF CatalogInit, CatalogTypeOK, Calls
<1> QED BY <1>1, <1>2, NoCallType
        DEF CatalogInit, CatalogInv, RequestYoung, CacheYoung, OverviewIsRecent

\* The cached overview answers.
LEMMA TakesKeeps ==
  ASSUME CatalogInv, NEW c \in Caller, NEW fresh \in BOOLEAN, Takes(c, fresh)
  PROVE  CatalogInv' /\ latest' >= latest
<1> DEFINE r == [at |-> "answered", fresh |-> fresh, asked |-> clock, began |-> overviewCache.began]
<1>1. /\ clock \in Nat /\ latest \in Nat /\ overviewCache \in CacheEntry /\ Ttl \in Nat /\ Span \in Nat
      /\ overviewCache.expiresAt > clock /\ ~ fresh
  BY CatalogAssumption DEF CatalogInv, CatalogTypeOK, Takes, Cached, CacheEntry
<1>2. overviewCache.began \in Nat /\ overviewCache.expiresAt \in Nat BY <1>1 DEF CacheEntry
<1>3. r \in Calls /\ r.asked = clock /\ r.began = overviewCache.began /\ r.fresh = fresh
  BY <1>1, <1>2 DEF Calls
<1>4. /\ caller' = [caller EXCEPT ![c] = r] /\ latest' = overviewCache.began
      /\ UNCHANGED <<clock, overviewCache, overviewRequest>>
  BY DEF Takes
<1>5. r.began >= r.asked - Span - (IF r.fresh THEN 0 ELSE Ttl)
  BY <1>1, <1>2, <1>3 DEF CatalogInv, CacheYoung, Takes, Cached
<1> HIDE DEF r
<1>6. caller \in [Caller -> Calls] BY DEF CatalogInv, CatalogTypeOK, Calls
<1>7. caller' \in [Caller -> Calls] /\ caller'[c] = r
        /\ \A d \in Caller \ {c} : caller'[d] = caller[d]
  BY <1>3, <1>4, <1>6
<1>8. CatalogTypeOK' BY <1>2, <1>4, <1>7 DEF CatalogInv, CatalogTypeOK, Calls
<1>9. RequestYoung' /\ CacheYoung' /\ latest' >= latest
  BY <1>1, <1>2, <1>4 DEF CatalogInv, RequestYoung, CacheYoung, Takes, Cached
<1>10. (\A d \in Caller : caller[d].asked <= clock)'
  BY <1>1, <1>3, <1>4, <1>7 DEF CatalogInv
<1>11. OverviewIsRecent' BY <1>4, <1>5, <1>7 DEF CatalogInv, OverviewIsRecent
<1> QED BY <1>8, <1>9, <1>10, <1>11 DEF CatalogInv

\* A request is joined or sent.
LEMMA WaitsKeeps ==
  ASSUME CatalogInv, NEW c \in Caller, NEW fresh \in BOOLEAN, Waits(c, fresh)
  PROVE  CatalogInv' /\ latest' >= latest
<1> DEFINE r == [at |-> "waiting", fresh |-> fresh, asked |-> clock, began |-> 0]
           new == [read |-> Unread, began |-> clock]
<1>1. clock \in Nat /\ latest \in Nat /\ Ttl \in Nat /\ Span \in Nat
  BY CatalogAssumption DEF CatalogInv, CatalogTypeOK
<1>2. r \in Calls /\ r.asked = clock /\ r.at = "waiting" BY <1>1 DEF Calls
<1>3. new \in Request /\ new.began = clock BY <1>1 DEF Request, Unread
<1>4. /\ caller' = [caller EXCEPT ![c] = r]
      /\ overviewRequest' = IF overviewRequest # Null THEN overviewRequest ELSE new
      /\ UNCHANGED <<clock, overviewCache, latest>>
  BY DEF Waits
<1> HIDE DEF r, new
<1>5. caller \in [Caller -> Calls] BY DEF CatalogInv, CatalogTypeOK, Calls
<1>6. caller' \in [Caller -> Calls] /\ caller'[c] = r
        /\ \A d \in Caller \ {c} : caller'[d] = caller[d]
  BY <1>2, <1>4, <1>5
<1>7. overviewRequest' \in {Null} \cup Request BY <1>3, <1>4 DEF CatalogInv, CatalogTypeOK
<1>8. CatalogTypeOK' BY <1>4, <1>6, <1>7 DEF CatalogInv, CatalogTypeOK, Calls
<1>9. RequestYoung'
  <2>1. CASE overviewRequest # Null BY <1>4, <2>1 DEF CatalogInv, RequestYoung
  <2>2. CASE overviewRequest = Null
    BY <1>1, <1>3, <1>4, <2>2 DEF CatalogInv, RequestYoung, CacheYoung
  <2> QED BY <2>1, <2>2
<1>10. CacheYoung' /\ latest' >= latest BY <1>1, <1>4 DEF CatalogInv, CacheYoung
<1>11. (\A d \in Caller : caller[d].asked <= clock)' BY <1>1, <1>2, <1>4, <1>6 DEF CatalogInv
<1>12. OverviewIsRecent' BY <1>2, <1>4, <1>6 DEF CatalogInv, OverviewIsRecent
<1> QED BY <1>8, <1>9, <1>10, <1>11, <1>12 DEF CatalogInv

\* A read adds to the request what the part may be.
LEMMA ReadKeeps ==
  ASSUME CatalogInv, NEW part, NEW answer, Reads(part, answer),
         \/ part = "pods" /\ answer \in Nat
         \/ part = "offer" /\ answer \in Offer
         \/ part = "volumes" /\ answer \in SUBSET Center
  PROVE  CatalogInv' /\ latest' >= latest
<1> DEFINE parts == [pods : {Null} \cup Nat, offer : {Null} \cup Offer,
                     volumes : {Null} \cup SUBSET Center]
           read == [overviewRequest.read EXCEPT ![part] = answer]
<1>1. overviewRequest # Null /\ overviewRequest \in Request
  BY DEF CatalogInv, CatalogTypeOK, Reads
<1>2. /\ overviewRequest.read \in parts /\ overviewRequest.began \in Nat
      /\ overviewRequest' = [overviewRequest EXCEPT !.read[part] = answer]
      /\ UNCHANGED <<clock, overviewCache, caller, latest>>
  BY <1>1 DEF Reads, Request
<1>3. read \in parts BY <1>2
<1>4. overviewRequest' = [read |-> read, began |-> overviewRequest.began]
  BY <1>1, <1>2 DEF Request
<1>5. overviewRequest' \in Request BY <1>2, <1>3, <1>4 DEF Request
<1>6. overviewRequest'.began = overviewRequest.began BY <1>4
<1>7. CatalogTypeOK' BY <1>2, <1>5 DEF CatalogInv, CatalogTypeOK
<1>8. RequestYoung' BY <1>1, <1>2, <1>6 DEF CatalogInv, RequestYoung
<1>9. CacheYoung' /\ OverviewIsRecent' /\ (\A d \in Caller : caller[d].asked <= clock)'
  BY <1>2 DEF CatalogInv, CacheYoung, OverviewIsRecent
<1>10. latest' >= latest BY <1>2 DEF CatalogInv, CatalogTypeOK
<1> QED BY <1>7, <1>8, <1>9, <1>10 DEF CatalogInv

LEMMA ReadsKeep ==
  ASSUME CatalogInv, ListPods \/ GpuCatalog \/ ListDataCenters
  PROVE  CatalogInv' /\ latest' >= latest
<1>1. CASE ListPods BY <1>1, ReadKeeps, CatalogAssumption DEF ListPods
<1>2. CASE GpuCatalog
  <2>1. PICK raw \in RawOffers : Reads("offer", NormalizeOffer(raw)) BY <1>2 DEF GpuCatalog
  <2>2. NormalizeOffer(raw) \in Offer BY CatalogAssumption
  <2> QED BY <2>1, <2>2, ReadKeeps
<1>3. CASE ListDataCenters BY <1>3, ReadKeeps, CatalogAssumption DEF ListDataCenters
<1> QED BY <1>1, <1>2, <1>3

\* Everything is read: the cache is replaced, and whoever waits is answered.
LEMMA ResolveKeeps ==
  ASSUME CatalogInv, Resolve PROVE CatalogInv' /\ latest' >= latest
<1> DEFINE began == overviewRequest.began
           new == [value |-> overviewRequest.read, began |-> began, expiresAt |-> clock + Ttl]
           r(c) == [caller[c] EXCEPT !.at = "answered", !.began = began]
<1>1. /\ clock \in Nat /\ latest \in Nat /\ Ttl \in Nat /\ Span \in Nat
      /\ overviewRequest # Null /\ overviewRequest \in Request /\ began \in Nat
      /\ began <= clock /\ clock <= began + Span
  BY CatalogAssumption DEF CatalogInv, CatalogTypeOK, RequestYoung, Resolve, Request
<1>2. overviewRequest.read \in Overview
  <2>1. \A part \in {"pods", "offer", "volumes"} : overviewRequest.read[part] # Null
    BY DEF Resolve, Unread
  <2>2. overviewRequest.read.pods # Null /\ overviewRequest.read.offer # Null
        /\ overviewRequest.read.volumes # Null
    BY <2>1
  <2> QED BY <1>1, <2>2 DEF Request, Overview
<1>3. new \in CacheEntry /\ new.began = began /\ new.expiresAt = clock + Ttl
  BY <1>1, <1>2 DEF CacheEntry
<1>4. /\ overviewCache' = new /\ overviewRequest' = Null /\ latest' = began /\ clock' = clock
      /\ caller' = [c \in Caller |-> IF c \in Waiting THEN r(c) ELSE caller[c]]
  BY DEF Resolve, Resolved
<1>5. ASSUME NEW c \in Caller
      PROVE  /\ caller[c] \in Calls /\ r(c) \in Calls
             /\ r(c).asked = caller[c].asked /\ r(c).fresh = caller[c].fresh /\ r(c).began = began
  <2>1. caller[c] \in Calls BY DEF CatalogInv, CatalogTypeOK, Calls
  <2> QED BY <1>1, <2>1 DEF Calls
<1> HIDE DEF new, began, r
<1>6. caller' \in [Caller -> Calls] BY <1>4, <1>5
<1>7. CatalogTypeOK' BY <1>1, <1>3, <1>4, <1>6 DEF CatalogTypeOK, CacheEntry, Calls
<1>8. latest' >= latest
  BY <1>1, <1>4 DEF CatalogInv, CacheYoung, RequestYoung, began, CatalogTypeOK, CacheEntry
<1>9. RequestYoung' BY <1>4 DEF RequestYoung
<1>10. CacheYoung'
  <2>1. latest' <= new.began /\ new.began <= clock' /\ new.expiresAt <= new.began + Span + Ttl
    BY <1>1, <1>3, <1>4
  <2>2. new # Null BY <1>3, CatalogAssumption
  <2> QED BY <1>4, <2>1, <2>2 DEF CacheYoung
<1>11. (\A c \in Caller : caller[c].asked <= clock)' BY <1>4, <1>5 DEF CatalogInv
<1>12. OverviewIsRecent'
  <2> SUFFICES ASSUME NEW c \in Caller, (caller[c].at = "answered")'
               PROVE  (caller[c].began >= caller[c].asked - Span
                         - (IF caller[c].fresh THEN 0 ELSE Ttl))'
    BY DEF OverviewIsRecent
  <2>1. CASE c \in Waiting
    <3>1. caller'[c] = r(c) BY <1>4, <2>1
    <3>2. caller[c].asked \in Nat /\ caller[c].asked <= clock BY <1>5 DEF CatalogInv, Calls
    <3> QED BY <1>1, <1>5, <3>1, <3>2
  <2>2. CASE c \notin Waiting BY <1>4, <2>2 DEF CatalogInv, OverviewIsRecent
  <2> QED BY <2>1, <2>2
<1> QED BY <1>7, <1>8, <1>9, <1>10, <1>11, <1>12 DEF CatalogInv

\* A read fails: so do all who wait.
LEMMA RejectKeeps ==
  ASSUME CatalogInv, Reject PROVE CatalogInv' /\ latest' >= latest
<1>1. /\ clock \in Nat /\ latest \in Nat /\ overviewRequest' = Null
      /\ caller' = [c \in Caller |-> IF c \in Waiting THEN NoCall ELSE caller[c]]
      /\ UNCHANGED <<clock, overviewCache, latest>>
  BY DEF CatalogInv, CatalogTypeOK, Reject
<1>2. caller \in [Caller -> Calls] BY DEF CatalogInv, CatalogTypeOK, Calls
<1>3. caller' \in [Caller -> Calls] BY <1>1, <1>2, NoCallType
<1>4. CatalogTypeOK' BY <1>1, <1>3 DEF CatalogInv, CatalogTypeOK, Calls
<1>5. RequestYoung' /\ CacheYoung' BY <1>1 DEF CatalogInv, RequestYoung, CacheYoung
<1>6. (\A c \in Caller : caller[c].asked <= clock)' BY <1>1, NoCallType DEF CatalogInv
<1>7. OverviewIsRecent' BY <1>1, NoCallType DEF CatalogInv, OverviewIsRecent
<1> QED BY <1>1, <1>4, <1>5, <1>6, <1>7 DEF CatalogInv

\* Time passes, but a request ends in time.
LEMMA ClockKeeps ==
  ASSUME CatalogInv, ClockTick PROVE CatalogInv' /\ latest' >= latest
<1>1. /\ clock \in Nat /\ latest \in Nat /\ Span \in Nat /\ clock' = clock + 1
      /\ overviewRequest # Null => clock < overviewRequest.began + Span
      /\ UNCHANGED <<overviewCache, overviewRequest, caller, latest>>
  BY CatalogAssumption DEF CatalogInv, CatalogTypeOK, ClockTick
<1>2. CatalogTypeOK' BY <1>1 DEF CatalogInv, CatalogTypeOK
<1>3. overviewRequest # Null => overviewRequest.began \in Nat
  BY DEF CatalogInv, CatalogTypeOK, Request
<1>4. overviewCache # Null => overviewCache.began \in Nat
  BY DEF CatalogInv, CatalogTypeOK, CacheEntry
<1>5. \A c \in Caller : caller[c].asked \in Nat BY DEF CatalogInv, CatalogTypeOK
<1>6. RequestYoung' BY <1>1, <1>3 DEF CatalogInv, RequestYoung
<1>7. CacheYoung' BY <1>1, <1>4 DEF CatalogInv, CacheYoung
<1>8. (\A c \in Caller : caller[c].asked <= clock)' BY <1>1, <1>5 DEF CatalogInv
<1>9. OverviewIsRecent' BY <1>1 DEF CatalogInv, OverviewIsRecent
<1> QED BY <1>1, <1>2, <1>6, <1>7, <1>8, <1>9 DEF CatalogInv

LEMMA CatalogStep ==
  ASSUME CatalogInv, [CatalogNext]_catalogVars PROVE CatalogInv' /\ latest' >= latest
<1>1. ASSUME NEW c \in Caller, Ask(c) PROVE CatalogInv' /\ latest' >= latest
  BY <1>1, TakesKeeps, WaitsKeeps DEF Ask
<1>2. CASE UNCHANGED catalogVars
  BY <1>2 DEF catalogVars, CatalogInv, CatalogTypeOK, RequestYoung, CacheYoung, OverviewIsRecent
<1> QED BY <1>1, <1>2, ReadsKeep, ResolveKeeps, RejectKeeps, ClockKeeps
        DEF CatalogNext, CatalogRequest

LEMMA CatalogInvariant == CatalogSpec => []CatalogInv
<1>1. CatalogInv /\ [CatalogNext]_catalogVars => CatalogInv' BY CatalogStep
<1> QED BY <1>1, CatalogStart, PTL DEF CatalogSpec

\* The cache, the request under way and the callers keep their types
\* (runpod-client.ts).
THEOREM CatalogTypes == CatalogSpec => []CatalogTypeOK
<1>1. CatalogInv => CatalogTypeOK BY DEF CatalogInv
<1> QED BY <1>1, CatalogInvariant, PTL

\* An overview asked for afresh is no older than the reads of one request take, and
\* any other no older than that and the cache's time together, for any callers that
\* join, any time to live and any reads that fail (runpod-client.ts).
THEOREM OverviewsAreRecent == CatalogSpec => []OverviewIsRecent
<1>1. CatalogInv => OverviewIsRecent BY DEF CatalogInv
<1> QED BY <1>1, CatalogInvariant, PTL

\* Answers never go back to an older overview, whoever asks for a fresh one or is
\* content with the cached one (runpod-client.ts).
THEOREM OverviewsNeverGoBack == CatalogSpec => OverviewsAdvance
<1>1. CatalogInv /\ [CatalogNext]_catalogVars => [latest' >= latest]_catalogVars
  BY CatalogStep
<1> QED BY <1>1, CatalogInvariant, PTL DEF CatalogSpec, OverviewsAdvance

------------------------------------------------------------------------------
(* The forecasts.                                                             *)

\* The estimate at a price of four decimals is a whole number of half steps, and
\* is never rounded down.
LEMMA RoundsUp == ASSUME NEW n \in Nat PROVE RoundUsd(300 * n) >= 300 * n
<1>1. RoundUsd(300 * n) = ((600 * n + 600) \div 1200) * 600 BY DEF RoundUsd, Step
<1>2. (600 * n + 600) \div 1200 \in Int /\ 1200 * ((600 * n + 600) \div 1200) >= 600 * n + 600 - 1199
  OBVIOUS
<1>3. 2 * ((600 * n + 600) \div 1200) >= n BY <1>2
<1> QED BY <1>1, <1>2, <1>3

LEMMA HalfSteps ==
  ASSUME NEW rate \in Nat, rate % 10 = 0, NEW minutes \in Durations
  PROVE  \E n \in Nat : rate * minutes = 300 * n
<1>1. PICK k \in Nat : rate = 10 * k
  <2>1. rate = 10 * (rate \div 10) /\ rate \div 10 \in Nat OBVIOUS
  <2> QED BY <2>1
<1>2. minutes = 30 \/ minutes = 60 \/ minutes = 120 \/ minutes = 240 BY DEF Durations
<1>3. rate * minutes = 300 * k \/ rate * minutes = 300 * (2 * k)
        \/ rate * minutes = 300 * (4 * k) \/ rate * minutes = 300 * (8 * k)
  BY <1>1, <1>2
<1>4. 2 * k \in Nat /\ 4 * k \in Nat /\ 8 * k \in Nat OBVIOUS
<1> QED BY <1>1, <1>3, <1>4

\* The preflight, the plan and start judge every overview alike, whatever the
\* settings and the catalogue (runRunpodPreflight, plan, start).
THEOREM JudgesAgree == CatalogSpec => []ForecastsAgree
<1>1. ASSUME CatalogTypeOK PROVE ForecastsAgree
  <2> SUFFICES ASSUME overviewCache # Null, NEW config \in Configs
               PROVE  LET o == overviewCache.value IN
                 /\ PreflightReady(config, o) =>
                      /\ PlanBlockers(config, o) = {}
                      /\ (/\ config.workerApiKey /\ config.dataCenterId \in WellNamed
                          /\ RateLimitValid(config.maximumHourlyRate)
                          /\ o.offer.hourlyRate % 10 = 0)
                         => StartAccepted(config, o)
                 /\ StartAccepted(config, o) =>
                      /\ config.baseUrl => PlanGiven(config)
                      /\ PlanBlockers(config, o) \subseteq {"pods"}
    BY DEF ForecastsAgree
  <2> DEFINE o == overviewCache.value
             rate == o.offer.hourlyRate
             cost == Cost(o, config.durationMinutes)
  <2>1. o \in Overview BY <1>1 DEF CatalogTypeOK, CacheEntry
  <2>2. o.pods \in Nat /\ rate \in {Null} \cup Nat BY <2>1 DEF Overview, Offer
  <2>3. config \in Config BY CatalogAssumption
  <2>4. config.hardCostLimit \in Int /\ config.durationMinutes \in Int BY <2>3 DEF Config
  <2>5. ASSUME PreflightReady(config, o) PROVE PlanBlockers(config, o) = {}
    BY <2>2, <2>5 DEF PreflightReady, PlanBlockers
  <2>6. ASSUME PreflightReady(config, o), config.workerApiKey, config.dataCenterId \in WellNamed,
               RateLimitValid(config.maximumHourlyRate), rate % 10 = 0
        PROVE  StartAccepted(config, o)
    <3>1. rate \in Nat /\ config.durationMinutes \in Durations
      BY <2>2, <2>6 DEF PreflightReady, RateWithin
    <3>2. PICK n \in Nat : cost = 300 * n BY <2>6, <3>1, HalfSteps DEF Cost
    <3>3. RoundUsd(cost) >= cost BY <3>2, RoundsUp
    <3>4. RoundUsd(cost) <= 60 * config.hardCostLimit BY <2>6 DEF PreflightReady, EstimateWithin
    <3>5. cost \in Int /\ RoundUsd(cost) \in Int BY <3>2 DEF RoundUsd, Step
    <3>6. cost <= 60 * config.hardCostLimit BY <2>4, <3>3, <3>4, <3>5
    <3>7. OfferAccepted(config, o)
      BY <2>6, <3>6 DEF PreflightReady, OfferAccepted, CenterFits, GpuAvailable
    <3>8. InputValid(config) BY <2>6 DEF PreflightReady, InputValid
    <3>9. WriteConfigured(config) BY <2>6 DEF PreflightReady, ReadPermitted, EstimateWithin, StopConfigured, WriteConfigured
    <3> QED BY <3>7, <3>8, <3>9 DEF StartAccepted
  <2>7. ASSUME StartAccepted(config, o), config.baseUrl PROVE PlanGiven(config)
    BY <2>7 DEF StartAccepted, StopConfigured, WriteConfigured, InputValid, ReadConfigured, PlanGiven
  <2>8. ASSUME StartAccepted(config, o) PROVE PlanBlockers(config, o) \subseteq {"pods"}
    BY <2>8 DEF StartAccepted, OfferAccepted, PlanBlockers, GpuAvailable
  <2> QED BY <2>5, <2>6, <2>7, <2>8
<1> QED BY <1>1, CatalogTypes, PTL
==============================================================================
