---------------------------- MODULE RunpodCatalog ----------------------------
(* RunPod's catalogue as the studio reads it, and what is concluded from it:  *)
(* the overview with its cache and its one request under way                  *)
(* (server/runpod-client.ts), and the three places that judge whether a       *)
(* session can be paid for: the preflight (server/runpod-preflight.ts), the   *)
(* page's plan, and start itself (server/runpod-controller.ts).  Prices are   *)
(* exact, in units of 0.00001 USD; one profile and one cloud are looked at.   *)
EXTENDS Integers

CONSTANTS Null,
          Caller,     \* requests that ask for an overview
          Center,     \* the data centers of the catalogue and the configuration
          WellNamed,  \* those with an identifier of letters, digits and dashes
          RawOffers,  \* what the GPU catalogue may say of the profile
          Volumes,    \* the data centers it may offer network volumes in
          PodCounts,  \* the sizes the inventory may have
          Configs,    \* the configurations judged
          Ttl,        \* how long an overview is kept
          Span        \* how long its reads take at most (15 s each)

Confirmations ==
  {"write scope", "balance", "single replica", "persistent state", "watchdog", "stop alert"}
Durations == {30, 60, 120, 240}
Usd == 100000

Availabilities == {"HIGH", "NONE", "UNKNOWN"}   \* HIGH stands for MEDIUM and LOW too
Offer == [hourlyRate : {Null} \cup Nat, availability : Availabilities, dataCenters : SUBSET Center]
Overview == [pods : Nat, offer : Offer, volumes : SUBSET Center]
\* A request: what it has read so far, and when it began.
Request ==
  [read : [pods : {Null} \cup Nat, offer : {Null} \cup Offer, volumes : {Null} \cup SUBSET Center],
   began : Nat]
\* An overview that is cached.
CacheEntry == [value : Overview, began : Nat, expiresAt : Nat]

\* A setting that must have a form is given by whether it has it.
Config == [apiKey : BOOLEAN, baseUrl : BOOLEAN, workerImage : BOOLEAN, workerApiKey : BOOLEAN,
           writeEnabled : BOOLEAN, networkVolumeId : BOOLEAN, dataDirectory : BOOLEAN,
           profileId : BOOLEAN, cloud : BOOLEAN, confirmed : SUBSET Confirmations,
           dataCenterId : Center, hardCostLimit : Int, maximumMinutes : Int,
           durationMinutes : Int, maximumHourlyRate : Int]

\* normalizeOffer: a missing item has no rate, availability or data center, and
\* an availability nobody knows is UNKNOWN.
NormalizeOffer(raw) ==
  IF raw = Null THEN [hourlyRate |-> Null, availability |-> "UNKNOWN", dataCenters |-> {}]
  ELSE [raw EXCEPT !.availability = IF @ \in Availabilities THEN @ ELSE "UNKNOWN"]

ASSUME CatalogAssumption ==
  /\ Ttl \in Nat /\ Span \in Nat
  /\ Null \notin Nat \cup Request \cup CacheEntry
  /\ \A raw \in RawOffers : NormalizeOffer(raw) \in Offer
  /\ Volumes \subseteq SUBSET Center /\ PodCounts \subseteq Nat
  /\ Configs \subseteq Config

------------------------------------------------------------------------------
(* The overview.                                                              *)

VARIABLES clock,
          overviewCache,    \* the last overview, when its request began, when it expires
          overviewRequest,  \* the request under way and what it has read
          caller,           \* who waits or was answered: when it asked, how old the answer is
          latest            \* when the request of the latest answer began

catalogVars == <<clock, overviewCache, overviewRequest, caller, latest>>

Unread == [pods |-> Null, offer |-> Null, volumes |-> Null]
NoCall == [at |-> "idle", fresh |-> FALSE, asked |-> 0, began |-> 0]

Cached == overviewCache # Null /\ overviewCache.expiresAt > clock

\* Mutant of Takes: a caller that wants a fresh overview takes the cached one too.
TakesCached(c, fresh) ==
  /\ Cached
  /\ caller' = [caller EXCEPT ![c] = [at |-> "answered", fresh |-> fresh, asked |-> clock,
                                      began |-> overviewCache.began]]
  /\ latest' = overviewCache.began
  /\ UNCHANGED <<clock, overviewCache, overviewRequest>>

\* overview() answers from the cache.
Takes(c, fresh) ==
  /\ ~ fresh /\ Cached
  /\ caller' = [caller EXCEPT ![c] = [at |-> "answered", fresh |-> fresh, asked |-> clock,
                                      began |-> overviewCache.began]]
  /\ latest' = overviewCache.began
  /\ UNCHANGED <<clock, overviewCache, overviewRequest>>

\* overview() joins the request under way, also if it wants a fresh one, or sends one.
Waits(c, fresh) ==
  /\ fresh \/ ~ Cached
  /\ overviewRequest' = IF overviewRequest # Null THEN overviewRequest
                        ELSE [read |-> Unread, began |-> clock]
  /\ caller' = [caller EXCEPT ![c] = [at |-> "waiting", fresh |-> fresh, asked |-> clock,
                                      began |-> 0]]
  /\ UNCHANGED <<clock, overviewCache, latest>>

Ask(c) ==
  /\ caller[c].at # "waiting"
  /\ \E fresh \in BOOLEAN : Takes(c, fresh) \/ Waits(c, fresh)

Reads(part, answer) ==
  /\ overviewRequest # Null /\ overviewRequest.read[part] = Null
  /\ overviewRequest' = [overviewRequest EXCEPT !.read[part] = answer]
  /\ UNCHANGED <<clock, overviewCache, caller, latest>>

\* listPods, over its pages; gpuCatalog of the cloud; listDataCenters.
ListPods == \E n \in PodCounts : Reads("pods", n)
GpuCatalog == \E raw \in RawOffers : Reads("offer", NormalizeOffer(raw))
ListDataCenters == \E v \in Volumes : Reads("volumes", v)

Waiting == {c \in Caller : caller[c].at = "waiting"}

\* Mutant of Resolved: an overview that has not expired stays cached.
ResolvedOnce ==
  overviewCache' = IF Cached THEN overviewCache
                   ELSE [value |-> overviewRequest.read, began |-> overviewRequest.began,
                         expiresAt |-> clock + Ttl]

\* The cache is replaced.
Resolved ==
  overviewCache' = [value |-> overviewRequest.read, began |-> overviewRequest.began,
                    expiresAt |-> clock + Ttl]

\* loadOverview has read everything: whoever waits is answered.
Resolve ==
  /\ overviewRequest # Null /\ \A part \in DOMAIN Unread : overviewRequest.read[part] # Null
  /\ Resolved
  /\ overviewRequest' = Null
  /\ caller' = [c \in Caller |->
                  IF c \in Waiting
                  THEN [caller[c] EXCEPT !.at = "answered", !.began = overviewRequest.began]
                  ELSE caller[c]]
  /\ latest' = overviewRequest.began
  /\ UNCHANGED clock

\* One of its reads fails (get, arrayAt): so do all who wait, and the cache stays.
Reject ==
  /\ overviewRequest # Null
  /\ overviewRequest' = Null
  /\ caller' = [c \in Caller |-> IF c \in Waiting THEN NoCall ELSE caller[c]]
  /\ UNCHANGED <<clock, overviewCache, latest>>

\* A request ends in time.
ClockTick ==
  /\ overviewRequest # Null => clock < overviewRequest.began + Span
  /\ clock' = clock + 1
  /\ UNCHANGED <<overviewCache, overviewRequest, caller, latest>>

CatalogInit ==
  /\ clock = 0 /\ overviewCache = Null /\ overviewRequest = Null
  /\ caller = [c \in Caller |-> NoCall]
  /\ latest = 0

CatalogRequest ==
  (\E c \in Caller : Ask(c)) \/ ListPods \/ GpuCatalog \/ ListDataCenters \/ Resolve \/ Reject
CatalogNext == ClockTick \/ CatalogRequest
CatalogSpec == CatalogInit /\ [][CatalogNext]_catalogVars

------------------------------------------------------------------------------
(* What is concluded from an overview o.                                      *)

\* In sixtieths of a unit, so that it is a whole number.
Cost(o, minutes) == o.offer.hourlyRate * minutes

\* roundUsd: to the nearest 0.0001 USD, half a step up.
Step == 600
RoundUsd(cost) == ((2 * cost + Step) \div (2 * Step)) * Step

GpuAvailable(o) == o.offer.availability \notin {"NONE", "UNKNOWN"} /\ o.offer.dataCenters # {}
RateWithin(o, maximumHourlyRate) ==
  o.offer.hourlyRate # Null /\ o.offer.hourlyRate <= maximumHourlyRate

LimitValid(config) == config.hardCostLimit > 0 /\ config.hardCostLimit <= 25 * Usd

\* Mutant of CenterFits: any data center of the offer will do.
CenterListed(config, o) == o.offer.dataCenters \cap o.volumes # {}
CenterFits(config, o) == config.dataCenterId \in o.offer.dataCenters \cap o.volumes

\* The preflight reads an overview only with these.
ReadPermitted(config) == config.apiKey /\ config.baseUrl

\* Its estimate is within the limit.
EstimateWithin(config, o) ==
  /\ LimitValid(config)
  /\ RoundUsd(Cost(o, config.durationMinutes)) <= 60 * config.hardCostLimit

\* runRunpodPreflight: every check passes.
PreflightReady(config, o) ==
  /\ ReadPermitted(config)
  /\ o.pods = 0
  /\ config.workerImage /\ config.writeEnabled /\ config.networkVolumeId
  /\ config.cloud /\ config.profileId
  /\ CenterFits(config, o)
  /\ GpuAvailable(o)
  /\ config.maximumHourlyRate > 0 /\ RateWithin(o, config.maximumHourlyRate)
  /\ EstimateWithin(config, o)
  /\ config.durationMinutes \in Durations /\ config.maximumMinutes \in Durations
  /\ config.durationMinutes <= config.maximumMinutes
  /\ config.dataDirectory
  /\ config.confirmed = Confirmations

\* validateRunpodReadConfiguration, which the routes ask for.
ReadConfigured(config) == config.apiKey /\ config.baseUrl /\ config.workerImage

\* stopConfigurationErrors and writeConfigurationErrors find nothing.
StopConfigured(config) == config.writeEnabled /\ config.apiKey
WriteConfigured(config) ==
  /\ StopConfigured(config)
  /\ config.workerApiKey /\ config.cloud /\ config.workerImage
  /\ config.dataCenterId \in WellNamed /\ config.networkVolumeId
  /\ LimitValid(config)
  /\ config.maximumMinutes \in Durations
  /\ config.confirmed = Confirmations

\* What parsePlanInput and validateStartInput ask of a limit.
RateLimitValid(maximumHourlyRate) ==
  Usd \div 100 <= maximumHourlyRate /\ maximumHourlyRate <= 10 * Usd

\* validateStartInput.
InputValid(config) ==
  /\ config.profileId
  /\ config.durationMinutes \in Durations /\ config.durationMinutes <= config.maximumMinutes
  /\ RateLimitValid(config.maximumHourlyRate)

\* start, between the overview and the list of Pods.
OfferAccepted(config, o) ==
  /\ o.offer.availability \notin {"NONE", "UNKNOWN"}
  /\ config.dataCenterId \in o.offer.dataCenters
  /\ RateWithin(o, config.maximumHourlyRate)
  /\ Cost(o, config.durationMinutes) <= 60 * config.hardCostLimit

\* start with the input the preflight was about gets as far as the list of Pods.
StartAccepted(config, o) == WriteConfigured(config) /\ InputValid(config) /\ OfferAccepted(config, o)

\* The plan route plans at all.
PlanGiven(config) ==
  /\ ReadConfigured(config)
  /\ config.profileId /\ config.cloud /\ config.durationMinutes \in Durations
  /\ RateLimitValid(config.maximumHourlyRate)

\* plan: its blockers, but for the two it always gives.
PlanBlockers(config, o) ==
  {b \in {"gpu", "rate", "pods"} :
     \/ b = "gpu" /\ ~ GpuAvailable(o)
     \/ b = "rate" /\ ~ RateWithin(o, config.maximumHourlyRate)
     \/ b = "pods" /\ o.pods > 0}

------------------------------------------------------------------------------
(* Properties.                                                                *)

\* The types of the variables.
CatalogTypeOK ==
  /\ clock \in Nat /\ latest \in Nat
  /\ overviewCache \in {Null} \cup CacheEntry
  /\ overviewRequest \in {Null} \cup Request
  /\ caller \in [Caller -> [at : {"idle", "waiting", "answered"}, fresh : BOOLEAN,
                            asked : Nat, began : Nat]]

\* A fresh overview may come from a request that was under way when it was asked
\* for, so a start may decide on a price from before its click, but no older than
\* the reads of one request take; any other is older by the cache's time at most
\* (overview of runpod-client.ts).
OverviewIsRecent ==
  \A c \in Caller : caller[c].at = "answered" =>
    caller[c].began >= caller[c].asked - Span - (IF caller[c].fresh THEN 0 ELSE Ttl)

\* Nobody is shown an overview from before one that was shown already, whoever
\* asked for which, joined whom, and failed: the one request and the cache are
\* replaced together (overview of runpod-client.ts).
OverviewsAdvance == [][latest' >= latest]_catalogVars

\* The three places agree on the same overview.  A preflight that is ready is one
\* whose start is not refused, but for what it does not look at: the worker's key,
\* the form of the data center's identifier, the bounds of the price limit, and
\* prices of more than four decimals, whose rounded estimate may hide that the
\* limit is exceeded.  What start accepts, the page can plan, unless the base URL is
\* malformed, and without a blocker but Pods (runRunpodPreflight, start, plan).
ForecastsAgree ==
  overviewCache # Null =>
    LET o == overviewCache.value IN
    \A config \in Configs :
      /\ PreflightReady(config, o) =>
           /\ PlanBlockers(config, o) = {}
           /\ (/\ config.workerApiKey /\ config.dataCenterId \in WellNamed
               /\ RateLimitValid(config.maximumHourlyRate) /\ o.offer.hourlyRate % 10 = 0)
              => StartAccepted(config, o)
      /\ StartAccepted(config, o) =>
           /\ config.baseUrl => PlanGiven(config)
           /\ PlanBlockers(config, o) \subseteq {"pods"}
==============================================================================
