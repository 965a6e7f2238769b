---------------------------- MODULE StudioProvider ---------------------------
(* The page (components/studio-provider.tsx): one of the two adapters, chosen *)
(* by NEXT_PUBLIC_STUDIO_SERVICE when the application is built and fixed for  *)
(* the life of the page.                                                      *)
EXTENDS DemoStudio, ApiStudio

VARIABLE service

studioVars == <<service, demoVars, apiVars>>

\* The adapter not used stays as it begins.
StudioInit ==
  /\ DemoInit /\ ApiInit
  /\ \/ service = "demo" /\ site = "off" /\ records = NoRecords /\ ~ signedIn
     \/ service = "api" /\ keeps /\ settings = CHOOSE s \in DefaultSettings : TRUE

StudioNext ==
  \/ service = "demo" /\ DemoNext /\ UNCHANGED <<service, apiVars>>
  \/ service = "api" /\ ApiNext /\ UNCHANGED <<service, demoVars>>

StudioSpec ==
  /\ StudioInit /\ [][StudioNext]_studioVars
  /\ WF_demoVars(service = "demo" /\ TimePasses) /\ DemoFairness /\ ApiFairness

\* The snapshots of both adapters have the types of StudioSnapshot.
StudioTypeOK == service \in {"demo", "api"} /\ DemoTypeOK /\ ApiTypeOK
==============================================================================
