----------------------------- MODULE StudioData ------------------------------
(* The studio's computations on data that grows: the expression compiler on   *)
(* every script of a few pieces, the cost ledger over every short history of  *)
(* a session, and the overview of RunPod's catalogue over every short history *)
(* of its requests.  A behaviour is about one of the three.                   *)
EXTENDS ExpressionScript, CostLedger, RunpodCatalog

CONSTANTS Pieces,      \* what a script is put together from
          MaxPieces,   \* bound: pieces of a script
          MaxNow,      \* bound: seconds of a session
          MaxClock     \* bound: time over which overviews are asked for

ASSUME PiecesAssumption == Pieces \subseteq Seq(STRING)

VARIABLES subject, script, size

vars == <<subject, script, size, session, now, spent, punctual,
          clock, overviewCache, overviewRequest, caller, latest>>

Init ==
  /\ subject \in {"script", "session", "catalog"}
  /\ script = <<>> /\ size = 0
  /\ LedgerInit
  /\ CatalogInit

Write ==
  /\ subject = "script" /\ size < MaxPieces
  /\ \E piece \in Pieces : script' = script \o piece
  /\ size' = size + 1
  /\ UNCHANGED <<subject, ledgerVars, catalogVars>>

Live ==
  /\ subject = "session"
  /\ Transaction \/ (now < MaxNow /\ Tick)
  /\ UNCHANGED <<subject, script, size, catalogVars>>

Browse ==
  /\ subject = "catalog"
  /\ CatalogRequest \/ (clock < MaxClock /\ ClockTick)
  /\ UNCHANGED <<subject, script, size, ledgerVars>>

Next == Write \/ Live \/ Browse
Spec == Init /\ [][Next]_vars

------------------------------------------------------------------------------
(* The properties of ExpressionScript, of the script written so far.          *)

\* No text is lost, repeated or moved, and every tag reaches its own stretch of
\* text (compileExpressionScript).
TagsReachTheirText == SegmentsAreStretches(script)

\* No bracket of a script the server accepts is spoken (validation.ts,
\* jobs/route.ts).
NoBracketIsSpoken == RawTagsWithheld(script)

\* What the importer of BEBAS packages accepts, the server accepts
\* (bebas-script-package.ts, validation.ts).
PackageIsSubmittable == PackagesSubmit(script)

\* What the server accepts, the worker accepts (validation.ts, models.py).
JobFitsWorker == SegmentsFitWorker(script)

\* A well-formed script is not called malformed (expression-script.ts:329).
WellFormedAccepted == WellFormedIsValid(script)
==============================================================================
