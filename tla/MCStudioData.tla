---------------------------- MODULE MCStudioData -----------------------------
(* StudioData with the pieces of the small instance. *)
EXTENDS StudioData

\* Loose brackets, a line end, text, a character outside the Basic Multilingual
\* Plane, and a tag of each kind: one the model has a token for, in both
\* dialects; an instruction of the current dialect only; one nobody knows; and
\* one with its text, so that a few pieces make more segments than are allowed.
ScriptPieces ==
  {<<"[">>, <<"]">>, <<"nl">>, <<"a">>, <<"astral">>,
   <<"[", "laughs", "]">>, <<"[", "warm", "]">>, <<"[", "cheer", "]">>,
   <<"[", "warm", "]", "a">>}

\* One center on offer, one that is not, and one whose identifier has another form.
Good == [apiKey |-> TRUE, baseUrl |-> TRUE, workerImage |-> TRUE, workerApiKey |-> TRUE,
         writeEnabled |-> TRUE, networkVolumeId |-> TRUE, dataDirectory |-> TRUE,
         profileId |-> TRUE, cloud |-> TRUE, confirmed |-> Confirmations,
         dataCenterId |-> "EU", hardCostLimit |-> 34500, maximumMinutes |-> 60,
         durationMinutes |-> 30, maximumHourlyRate |-> 69000]

\* The settings that are right, and each of them wrong in turn.
SomeConfigs ==
  {Good} \cup {[Good EXCEPT ![s] = FALSE] : s \in {"apiKey", "baseUrl", "workerImage", "workerApiKey",
              "writeEnabled", "networkVolumeId", "dataDirectory", "profileId", "cloud"}}
  \cup {[Good EXCEPT !.confirmed = Confirmations \ {"balance"}]}
  \cup {[Good EXCEPT !.dataCenterId = d] : d \in {"US", "e_u"}}
  \cup {[Good EXCEPT !.hardCostLimit = n] : n \in {0, 34499, 25 * Usd + 1}}
  \cup {[Good EXCEPT !.maximumMinutes = n] : n \in {30, 45}}
  \cup {[Good EXCEPT !.durationMinutes = n] : n \in {45, 60, 120}}
  \cup {[Good EXCEPT !.maximumHourlyRate = n] : n \in {68999, 1000, 999, 10 * Usd + 1}}

\* Prices at the limits and around a rounding step, one with an availability nobody
\* knows, and a missing one.
SomeOffers ==
  {Null} \cup {[hourlyRate |-> r, availability |-> "HIGH", dataCenters |-> {"EU", "e_u"}] :
               r \in {999, 69000, 69001}}
  \cup {[hourlyRate |-> 69000, availability |-> "SOLD", dataCenters |-> {"EU"}]}
SomeVolumes == {{"EU", "e_u"}}

\* Which caller is which does not matter.
Callers == Permutations(Caller)
==============================================================================
