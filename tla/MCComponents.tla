---------------------------- MODULE MCComponents ----------------------------
(***************************************************************************)
(* Three components side by side for TLC: the control state of one volume, *)
(* the replicas of one row, and one job.  They share nothing; `part' names *)
(* the one a behaviour runs, and the others stay in an initial state.      *)
(***************************************************************************)
EXTENDS VolumeControl, RegisterReplicas

CONSTANTS a, b   \* two nodes

VARIABLES
    part,
    rows, gone, gossip, launch, host, phase, seen, drawn, past, rest

jobVars == <<rows, gone, gossip, launch, host, phase, seen, drawn, past, rest>>

Cases == INSTANCE JobScenarioCases

Job == INSTANCE JobController WITH
           Actors <- {a, b}, MaxIds <- 3, MaxGossip <- 1, JobScenarios <- Cases!Scenarios,
           left <- rest

----------------------------------------------------------------------------
InitParts ==
    /\ part \in {"replicas", "volume", "job"}
    /\ Init
    /\ ReplicasInit
    /\ Job!Init
    /\ part # "job" => rest = Cases!Troubled
    /\ part # "replicas" => rising

VolumeStep ==
    part = "volume" /\ Next /\ UNCHANGED <<part, replicaVars, jobVars>>

ReplicasStep ==
    part = "replicas" /\ ReplicasNext /\ UNCHANGED <<part, vars, jobVars>>

JobStep ==
    part = "job" /\ Job!Next /\ UNCHANGED <<part, vars, replicaVars>>

NextParts == VolumeStep \/ ReplicasStep \/ JobStep

SpecParts ==
    InitParts /\ [][NextParts]_<<part, vars, replicaVars, jobVars>>

----------------------------------------------------------------------------
\* A volume command submitted twice is reported as current the second time.
RetriesCurrent == part = "volume" => RetryReportsCurrent

\* No job is attempted more often than max_retries allows.
AttemptsBounded == part = "job" => Job!AttemptsBounded

\* A terminal job row tells what really happened.
OutcomeReal == part = "job" => Job!OutcomeReal

\* A terminal job has nothing left running.
SettledQuiet == part = "job" => Job!SettledQuiet
=============================================================================
