------------------------- MODULE OpenScreenDiscovery -------------------------
(***************************************************************************)
(* The openscreen discovery backend of src/client/openscreen/              *)
(* mdns_service.cpp, started by init_mdns_transport_discovery in           *)
(* src/client/transport_mdns.cpp.                                          *)
(*                                                                         *)
(* Actors:                                                                 *)
(*  - the main thread, which calls init_mdns_transport_discovery once:    *)
(*    it reads ADB_MDNS_OPENSCREEN and, unless it is "0", sets g_state    *)
(*    and posts the startup task;                                          *)
(*  - the task runner thread, which runs the startup task: the interface  *)
(*    query, CreateDnsSdService, then one loop iteration per service type *)
(*    (start a watcher, push it, check got_fatal_, stop all on a fatal);  *)
(*  - the discovery service, which may report a fatal error at any time   *)
(*    once it exists (got_fatal_ is a std::atomic written by             *)
(*    OnFatalError).                                                      *)
(*                                                                         *)
(* The loop body runs on the task runner, so other tasks never interleave *)
(* with one iteration; the fatal flag can still change between them.     *)
(***************************************************************************)
EXTENDS Naturals

CONSTANT NumServices   \* kNumADBDNSServices

ASSUME DiscoveryAssumption == NumServices \in Nat \ {0}

\* Values of the ADB_MDNS_OPENSCREEN environment variable that the code tells
\* apart: unset, "0", and any other string.
EnvValues == {"unset", "0", "other"}

\* The indices of kADBDNSServices.
ServiceIndex == 0 .. (NumServices - 1)

VARIABLES
    env,        \* ADB_MDNS_OPENSCREEN as the process sees it
    initPc,     \* "before" or "after" init_mdns_transport_discovery
    gState,     \* g_state != nullptr
    taskPc,     \* where the posted startup task is
    loopIndex,  \* the loop index i of the startup task
    watchers,   \* indices of the watchers in g_state->watchers
    running,    \* indices of the watchers whose is_running() holds
    gotFatal    \* reporting_client->got_fatal_

dvars == <<env, initPc, gState, taskPc, loopIndex, watchers, running, gotFatal>>

\* Where the startup task can have ended: no config, every watcher started,
\* or the fatal break.
TaskEnded == {"aborted", "complete", "stopped"}

TaskPcs == {"none", "posted", "loop"} \cup TaskEnded

DTypeOK ==
    /\ env \in EnvValues
    /\ initPc \in {"before", "after"}
    /\ gState \in BOOLEAN
    /\ taskPc \in TaskPcs
    /\ loopIndex \in 0 .. NumServices
    /\ watchers \subseteq ServiceIndex
    /\ running \subseteq watchers
    /\ gotFatal \in BOOLEAN

DInit ==
    /\ env \in EnvValues
    /\ initPc = "before"
    /\ gState = FALSE
    /\ taskPc = "none"
    /\ loopIndex = 0
    /\ watchers = {}
    /\ running = {}
    /\ gotFatal = FALSE

\* IsOpenScreenStarted(): true as soon as g_state is set.
IsOpenScreenStarted == gState

\* mdns_check(): the status text, abstracted to which of its two answers.
mdns_check == IF IsOpenScreenStarted THEN "version" ELSE "disabled"

-----------------------------------------------------------------------------
(***************************************************************************)
(* init_mdns_transport_discovery and StartOpenScreenDiscovery on the main *)
(* thread.  The CHECK(!g_state) holds: the function is called once.       *)
(***************************************************************************)
InitTransportDiscovery ==
    /\ initPc = "before"
    /\ initPc' = "after"
    /\ IF env = "0"
         THEN UNCHANGED <<gState, taskPc>>
         ELSE /\ gState' = TRUE
              /\ taskPc' = "posted"
    /\ UNCHANGED <<env, loopIndex, watchers, running, gotFatal>>

(***************************************************************************)
(* The posted task, first part: GetConfigForAllInterfaces returns nullopt *)
(* when no interface has an address, and the task returns; otherwise the  *)
(* DnsSdService is created and the loop starts at i = 0.                  *)
(***************************************************************************)
StartupConfig ==
    /\ taskPc = "posted"
    /\ \E hasInterface \in BOOLEAN :
         taskPc' = IF hasInterface THEN "loop" ELSE "aborted"
    /\ UNCHANGED <<env, initPc, gState, loopIndex, watchers, running, gotFatal>>

(***************************************************************************)
(* One iteration of the watcher loop: construct the watcher, StartDiscovery *)
(* and push it to g_state->watchers, then, if got_fatal_ is set, stop     *)
(* every running watcher and break.  A fatal error reported from inside   *)
(* StartDiscovery is an OnFatalError step just before this one: both     *)
(* leave the flag set when it is tested.                                   *)
(***************************************************************************)

\* Mutant: the for condition is i <= kNumADBDNSServices.
LoopCond_Inclusive(j) == j <= NumServices

\* Mutant: the loop stops one service type short.
LoopCond_SkipsLast(j) == j < NumServices - 1

\* The for condition of the watcher loop.
LoopCond(j) == j < NumServices

\* Mutant: the loop never advances i.
LoopStep_NoAdvance(j) == j

\* The for increment.
LoopStep(j) == j + 1

\* Mutant: the fatal branch breaks without stopping any watcher.
StopWatchers_None(ws, rs) == rs

\* The stop loop: every watcher of g_state->watchers that is_running() is
\* stopped.
StopWatchers(ws, rs) == rs \ ws

StartWatcher ==
    /\ taskPc = "loop"
    /\ LoopCond(loopIndex)
    /\ watchers' = watchers \cup {loopIndex}
    /\ IF gotFatal
         THEN /\ running' = StopWatchers(watchers', running \cup {loopIndex})
              /\ taskPc' = "stopped"
              /\ UNCHANGED loopIndex
         ELSE /\ running' = running \cup {loopIndex}
              /\ loopIndex' = LoopStep(loopIndex)
              /\ UNCHANGED taskPc
    /\ UNCHANGED <<env, initPc, gState, gotFatal>>

\* The for condition fails: every service type has a watcher.
LoopDone ==
    /\ taskPc = "loop"
    /\ ~LoopCond(loopIndex)
    /\ taskPc' = "complete"
    /\ UNCHANGED <<env, initPc, gState, loopIndex, watchers, running, gotFatal>>

\* DiscoveryReportingClient::OnFatalError, once the DnsSdService exists.
OnFatalError ==
    /\ taskPc \in {"loop", "complete", "stopped"}
    /\ ~gotFatal
    /\ gotFatal' = TRUE
    /\ UNCHANGED <<env, initPc, gState, taskPc, loopIndex, watchers, running>>

-----------------------------------------------------------------------------
DNext ==
    \/ InitTransportDiscovery
    \/ StartupConfig
    \/ StartWatcher
    \/ LoopDone
    \/ OnFatalError

\* The task runner runs every posted task and each loop iteration to its end:
\* its steps are weakly fair.  The main thread and the network are not.
DFairness ==
    /\ WF_dvars(StartupConfig)
    /\ WF_dvars(StartWatcher)
    /\ WF_dvars(LoopDone)

DSpec == DInit /\ [][DNext]_dvars /\ DFairness

-----------------------------------------------------------------------------
(***************************************************************************)
(* Properties.                                                             *)
(***************************************************************************)

\* When the startup task has ended without a fatal error seen by the loop,
\* the watchers match how it ended: with no config no watcher exists; after
\* the whole loop every service type of kADBDNSServices has a running watcher.
StartupOutcome ==
    /\ taskPc = "aborted" => watchers = {}
    /\ taskPc = "complete" => running = ServiceIndex

\* Once StartOpenScreenDiscovery has set g_state, the posted task eventually
\* finishes: the loop over kADBDNSServices terminates whether or not a fatal
\* error arrives.
StartupTerminates == gState ~> (taskPc \in TaskEnded)

\* Error-handling design: after a fatal backend error, discovery stops: once
\* startup is over, a set got_fatal_ leaves no watcher running.
FatalStopsDiscovery ==
    gotFatal /\ taskPc \in TaskEnded => running = {}
=============================================================================
