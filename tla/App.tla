-------------------------------- MODULE App ---------------------------------
(***************************************************************************)
(* Four parts of the app side by side, whatever their sizes: the script    *)
(* runner, the recorder, the reference store and the bridge to the app.    *)
(* They share no state; what they promise is stated here under the names   *)
(* that the instances and the proofs use.                                  *)
(***************************************************************************)
EXTENDS ScriptRunner

CONSTANTS
    NoFile, Torn, Blank,
    RecBudget, RecMinKept, RecChunk, RecFileLength, RecEventCap, RecMaxRecords, RecMaxSessions,
    RefSources, RefMaxFetches, RefMaxClears, RefMaxKills,
    McpTargets, McpLines, McpKills, McpMaxCalls, McpMaxProcs, McpMaxFaults

VARIABLES
    recInst, recPending, recEvents, recPhase, recLink, recRec, recActive, recOffered,
    refSnapshot, refMeta, refTmp, refBytes, refJob, refUi, refPending, refShown, refMissed,
    refFetches, refClears, refKills,
    mcpProcs, mcpToken, mcpSocks, mcpClient, mcpRan, mcpShots, mcpFile, mcpAnswer, mcpFaults

recVars == <<recInst, recPending, recEvents, recPhase, recLink, recRec, recActive, recOffered>>
refVars == <<refSnapshot, refMeta, refTmp, refBytes, refJob, refUi, refPending, refShown, refMissed,
             refFetches, refClears, refKills>>
mcpVars == <<mcpProcs, mcpToken, mcpSocks, mcpClient, mcpRan, mcpShots, mcpFile, mcpAnswer,
             mcpFaults>>

Rec == INSTANCE Recorder WITH
    Budget <- RecBudget, MinKept <- RecMinKept, Chunk <- RecChunk, FileLength <- RecFileLength,
    EventCap <- RecEventCap, MaxRecords <- RecMaxRecords, MaxSessions <- RecMaxSessions,
    None <- NoFile,
    inst <- recInst, pending <- recPending, events <- recEvents, phase <- recPhase,
    link <- recLink, rec <- recRec, active <- recActive, offered <- recOffered

Ref == INSTANCE RefStore WITH
    Sources <- RefSources, MaxFetches <- RefMaxFetches, MaxClears <- RefMaxClears, MaxKills <- RefMaxKills,
    None <- NoFile, Torn <- Torn, Blank <- Blank,
    snapshot <- refSnapshot, meta <- refMeta, tmp <- refTmp, bytes <- refBytes,
    job <- refJob, ui <- refUi, pending <- refPending, shown <- refShown, missed <- refMissed,
    fetches <- refFetches, clears <- refClears, kills <- refKills

Calls == INSTANCE McpBridge WITH
    Targets <- McpTargets, Lines <- McpLines, Kills <- McpKills, MaxCalls <- McpMaxCalls,
    MaxProcs <- McpMaxProcs, MaxFaults <- McpMaxFaults, None <- NoFile,
    procs <- mcpProcs, token <- mcpToken, socks <- mcpSocks, client <- mcpClient,
    ran <- mcpRan, shots <- mcpShots, file <- mcpFile, answer <- mcpAnswer, faults <- mcpFaults

ASSUME AppAssumption ==
    RunnerAssumption /\ Rec!RecorderAssumption /\ Ref!RefStoreAssumption /\ Calls!BridgeAssumption

-----------------------------------------------------------------------------
\* Recorder: the ring is the tail of what was offered to it.
RingIsTail == Rec!RingIsTail
\* RefStore: at rest the app shows what is stored.
ShownIsStored == Ref!ShownIsStored
\* McpBridge: a call gets the reply to its own line, fails only when an app
\* failed it, is trusted again after a reconnect, runs its lines in order,
\* and leaves no app behind.
CallsAreServed ==
    /\ Calls!AnswersTheCall /\ Calls!NotStranded /\ Calls!TrustFollows
    /\ Calls!LinesInOrder /\ Calls!OneChild
=============================================================================
