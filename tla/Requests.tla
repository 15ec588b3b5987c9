------------------------------- MODULE Requests -------------------------------
(***************************************************************************)
(* The backend's requests beside the daemon's: the AI log, the health scan *)
(* (whose bundle and report it makes itself), the index advice of a scan   *)
(* that somebody follows, and the actual plan of a batch.  The handlers    *)
(* share the process and, two of them, the store's file, but none reads    *)
(* what another writes.  So a behaviour moves the requests of one kind     *)
(* (active, chosen once), interleaved among themselves and with what they  *)
(* wait for.                                                               *)
(*                                                                         *)
(* Source: backend/src/routes.rs (router).                                 *)
(***************************************************************************)
EXTENDS AiLog

CONSTANTS
    Moving,         \* which of the four may be active
    Tables, Letters, Servers, BundleFailures, ProbeFailures,    \* HealthReport
    Captures, Learning, Mature, Live, Window, Retention,
    ManyDeadlocks, FewBlocked, ManyBlocked, SomeWait, HighWait,
    MaxTime, MaxSamples,
    Ids, Catalogs, Queries, MaxReads, MaxSuggestions,           \* IndexAdvisor
    Batches, Heavy                                              \* ActualPlan

VARIABLES
    active,
    now, server, booted, samples, scan,
    catalog, usage, missing, young, small, seeking,
    text, page, asked, handler, rest, inTran, pending, licence, trace

HR == INSTANCE HealthReport WITH started <- booted
IA == INSTANCE IndexAdvisor
AP == INSTANCE ActualPlan

hVars == <<now, server, booted, samples, scan>>
iVars == <<catalog, usage, missing, young, small, seeking>>
pVars == <<text, page, asked, handler, rest, inTran, pending, licence, trace>>
allVars == <<active, vars, hVars, iVars, pVars>>

ASSUME RequestsAssumption ==
    /\ Moving \subseteq {"ailog", "scan", "advice", "plan"}
    /\ HR!HealthAssumption
    /\ IA!IndexAdvisorAssumption
    /\ AP!ActualPlanAssumption

RequestsInit ==
    /\ active \in Moving
    /\ Init /\ HR!Init /\ IA!Init /\ AP!Init
    \* one initial state for those that do not move
    /\ active # "scan" => server = CHOOSE s \in Servers : TRUE
    /\ active # "advice" => catalog = (CHOOSE c \in Catalogs : TRUE) /\ small
    /\ active # "plan" => text = CHOOSE b \in Batches : TRUE

AiLogs == active = "ailog" /\ Next /\ UNCHANGED <<active, hVars, iVars, pVars>>
HealthScan == active = "scan" /\ HR!Next /\ UNCHANGED <<active, vars, iVars, pVars>>
IndexAdvice == active = "advice" /\ IA!Next /\ UNCHANGED <<active, vars, hVars, pVars>>
PlanRun == active = "plan" /\ AP!Next /\ UNCHANGED <<active, vars, hVars, iVars>>

RequestsNext == AiLogs \/ HealthScan \/ IndexAdvice \/ PlanRun

RequestsSpec == RequestsInit /\ [][RequestsNext]_allVars

-----------------------------------------------------------------------------
\* No issue is lost or softened on its way to a card and the headline
\* (HealthReport).
WorstIsKept == HR!WorstIsKept

\* The order of the map's values does not show (HealthReport).
OrderFree == HR!OrderFree

\* A probe that fails adds no check (HealthReport).
ChecksAreHonest == HR!ChecksAreHonest

\* An all-clear is earned by enough, and fresh, history (HealthReport).
AllClearIsEarned == HR!AllClearIsEarned

\* Consolidation answers every suggestion and keeps every seek (IndexAdvisor).
ConsolidationIsSound == IA!ConsolidationIsSound

\* Following one statement leaves every seek possible (IndexAdvisor).
SeeksStay == IA!SeeksStay

\* ... and every used covering index but those it names (IndexAdvisor).
CoverStays == IA!CoverStays

\* A heavy batch runs only when the user said so (ActualPlan).
NoUnaskedLoad == AP!NoUnaskedLoad

\* Only a batch that ends the transaction itself leaves a trace (ActualPlan).
OnlyOwnRollbackTraces == AP!OnlyOwnRollbackTraces

\* No batch leaves a trace, as the handler's comment has it (ActualPlan).
LeavesNoTrace == AP!LeavesNoTrace
=============================================================================
