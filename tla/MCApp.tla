-------------------------------- MODULE MCApp --------------------------------
(***************************************************************************)
(* The app's own machinery, each part on an instance of its own: the       *)
(* initial state chooses which part runs, and only its variables change.   *)
(***************************************************************************)
EXTENDS App

VARIABLE part                                               \* the part that runs

-----------------------------------------------------------------------------
\* Lines of the control socket: a shot and a quit behind it, an edit that
\* waits, a session and a plot, a file.
After(frames, act) == [wait |-> frames, act |-> act]
SmallLines == { <<After(0, "shot"), After(0, "quit")>>, <<After(1, "edit")>>,
                <<After(0, "load"), After(0, "plot")>>, <<After(0, "file")>> }
SmallSession == <<After(0, "edit"), After(1, "edit")>>

\* The bridge a second time: one call over three processes, and the server
\* killed.
Launches == INSTANCE McpBridge WITH
    Targets <- {"spawn"}, Lines <- {"query"}, Kills <- TRUE, MaxCalls <- 1,
    MaxProcs <- 3, MaxFaults <- 1, None <- NoFile,
    procs <- mcpProcs, token <- mcpToken, socks <- mcpSocks, client <- mcpClient,
    ran <- mcpRan, shots <- mcpShots, file <- mcpFile, answer <- mcpAnswer, faults <- mcpFaults

ASSUME LaunchesAssumption == Launches!BridgeAssumption

-----------------------------------------------------------------------------
SuiteInit ==
    /\ part \in {"script", "record", "refdb", "calls", "launches"}
    /\ Init /\ Rec!Init /\ Ref!Init
    /\ IF part = "calls" THEN Calls!Init ELSE Launches!Init

SuiteVars == <<part, vars, recVars, refVars, mcpVars>>

ScriptFrame    == part = "script" /\ Frame    /\ UNCHANGED <<part, recVars, refVars, mcpVars>>
ScriptReadback == part = "script" /\ Readback /\ UNCHANGED <<part, recVars, refVars, mcpVars>>
BridgeWatchdog == /\ part \in {"calls", "launches"} /\ Calls!Watchdog
                  /\ UNCHANGED <<part, vars, recVars, refVars>>

SuiteNext ==
    \/ part = "script" /\ Step /\ UNCHANGED <<part, recVars, refVars, mcpVars>>
    \/ part = "record" /\ Rec!Next /\ UNCHANGED <<part, vars, refVars, mcpVars>>
    \/ part = "refdb" /\ Ref!Next /\ UNCHANGED <<part, vars, recVars, mcpVars>>
    \/ part = "calls" /\ Calls!Next /\ UNCHANGED <<part, vars, recVars, refVars>>
    \/ part = "launches" /\ Launches!Next /\ UNCHANGED <<part, vars, recVars, refVars>>

\* The fairness of ScriptRunner's and McpBridge's FairSpec.
SuiteSpec == /\ SuiteInit /\ [][SuiteNext]_SuiteVars
             /\ WF_SuiteVars(ScriptFrame) /\ WF_SuiteVars(ScriptReadback)
             /\ WF_SuiteVars(BridgeWatchdog)

-----------------------------------------------------------------------------
\* ScriptRunner: a quit that came to be due ends the process.  McpBridge: an
\* app whose server was killed ends.
EndsInTime ==
    /\ QuitEnds
    /\ Calls!At("killed") ~> \A p \in Calls!Ours : ~Calls!Runs(p)
=============================================================================
