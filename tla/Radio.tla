------------------------------- MODULE Radio --------------------------------
(***************************************************************************)
(* Eight parts of the radio side by side, whatever their sizes: the        *)
(* backends of the oscilloscope, the dongle and the sound card, DAB        *)
(* playback, the survey, the modulation lab, and a DAB multiplex and its   *)
(* label from their transmitter on.  They share no state; what they        *)
(* promise is stated here under the names that the instances and the       *)
(* proofs use.                                                             *)
(***************************************************************************)
EXTENDS Integers

CONSTANTS
    None,
    RtlRates, RtlCentres, RtlGains, RtlPpms, RtlHf, RtlCalLo, RtlQueue, RtlChunks, RtlAsked(_),
    MicChunk, MicBuffered, MicCallbacks, MicConfigs, MicChannels, MicSignals, MicSamples,
    Ranges, Levels, Zero, VdsRates, BaseRate, SlowRates, Positions, VdsCentre, Sweeps, VdsAsked(_),
    PlayServices, PlayRefused, PlayModes, WarmUp, JobCap, OutCap, Prime, SinkCap, MaxSeams,
    Steps, Skipped, SettleFrames, DwellFrames, Keep, EventCap, MaxRuns,
    LabPlaces, LabCentres, LabSettings, LabSlack, LabActive, LabHold, LabEvery, LabFrames, LabLinks, LabEdits,
    Programmes, MuxDepth, Delay, CifsPerFrame, CuPerCif, FibsPerFrame, FibDataBytes, Damages, MaxCifs,
    LblLengths

VARIABLES
    vdsOpen, vdsReg, vdsDrv, vdsBuffer, vdsApplied, vdsApart,
    rtlPlugged, rtlOpen, rtlStuck, rtlReg, rtlDrv, rtlApplied, rtlMoved,
    rtlStream, rtlAcct, rtlAnswer, rtlMade, rtlTold, rtlBehind,
    micDevice, micShared, micMade, micBackend, micFrame, micLost, micTold, micHole, micPanicked,
    playRx, playService, playAudio, playDemod, playSink, playGone, playSeam,
    scanPhase, scanCentre, scanDirty, scanPending, scanHardware, scanPolling,
    scanEvents, scanSurvey, scanSurveys, scanRuns,
    labUi, labTracker, labClock, labLab, labJob, labDone, labShown, labTicks, labWaited, labUsed,
    muxAir, muxSince, muxCif, muxEns, muxHandlers, muxOut, muxFresh, muxHeard,
    lblTx, lblP, lblHeard, lblTaken, lblSkipped

vdsVars  == <<vdsOpen, vdsReg, vdsDrv, vdsBuffer, vdsApplied, vdsApart>>
rtlVars  == <<rtlPlugged, rtlOpen, rtlStuck, rtlReg, rtlDrv, rtlApplied, rtlMoved,
              rtlStream, rtlAcct, rtlAnswer, rtlMade, rtlTold, rtlBehind>>
micVars  == <<micDevice, micShared, micMade, micBackend, micFrame, micLost, micTold, micHole,
              micPanicked>>
playVars == <<playRx, playService, playAudio, playDemod, playSink, playGone, playSeam>>
scanVars == <<scanPhase, scanCentre, scanDirty, scanPending, scanHardware, scanPolling,
              scanEvents, scanSurvey, scanSurveys, scanRuns>>
labVars  == <<labUi, labTracker, labClock, labLab, labJob, labDone, labShown, labTicks,
              labWaited, labUsed>>
muxVars  == <<muxAir, muxSince, muxCif, muxEns, muxHandlers, muxOut, muxFresh, muxHeard>>
lblVars  == <<lblTx, lblP, lblHeard, lblTaken, lblSkipped>>

Vds == INSTANCE Vds1022 WITH
    Rates <- VdsRates, Centre <- VdsCentre, Asked <- VdsAsked,
    open <- vdsOpen, reg <- vdsReg, drv <- vdsDrv, buffer <- vdsBuffer,
    applied <- vdsApplied, apart <- vdsApart

Rtl == INSTANCE RtlBackend WITH
    Rates <- RtlRates, Centres <- RtlCentres, Gains <- RtlGains, Ppms <- RtlPpms, Hf <- RtlHf,
    CalLo <- RtlCalLo, QueueCap <- RtlQueue, MaxMade <- RtlChunks, Asked <- RtlAsked,
    plugged <- rtlPlugged, open <- rtlOpen, stuck <- rtlStuck, reg <- rtlReg,
    drv <- rtlDrv, applied <- rtlApplied, moved <- rtlMoved, stream <- rtlStream,
    acct <- rtlAcct, answer <- rtlAnswer, made <- rtlMade, told <- rtlTold,
    behind <- rtlBehind

Mic == INSTANCE AudioInput WITH
    Chunk <- MicChunk, MaxBuffered <- MicBuffered, Callbacks <- MicCallbacks,
    Configs <- MicConfigs, Channels <- MicChannels, Signals <- MicSignals, MaxMade <- MicSamples,
    device <- micDevice, shared <- micShared, made <- micMade, backend <- micBackend,
    frame <- micFrame, lost <- micLost, told <- micTold, hole <- micHole,
    panicked <- micPanicked

Play == INSTANCE DabPlayback WITH
    Services <- PlayServices, Refused <- PlayRefused, Modes <- PlayModes,
    rx <- playRx, service <- playService, audio <- playAudio, demod <- playDemod,
    sink <- playSink, gone <- playGone, seam <- playSeam

Scan == INSTANCE SdrSurvey WITH
    phase <- scanPhase, centre <- scanCentre, dirty <- scanDirty, pending <- scanPending,
    hardware <- scanHardware, polling <- scanPolling, events <- scanEvents,
    survey <- scanSurvey, surveys <- scanSurveys, runs <- scanRuns

Lab == INSTANCE SignalLab WITH
    Places <- LabPlaces, Centres <- LabCentres, Settings <- LabSettings, Slack <- LabSlack,
    MinActive <- LabActive, Hold <- LabHold, Every <- LabEvery, MaxFrames <- LabFrames,
    MaxLinks <- LabLinks, MaxEdits <- LabEdits,
    ui <- labUi, tracker <- labTracker, clock <- labClock, lab <- labLab, job <- labJob,
    done <- labDone, shown <- labShown, ticks <- labTicks, waited <- labWaited, used <- labUsed

Mux == INSTANCE DabMux WITH
    Depth <- MuxDepth,
    air <- muxAir, since <- muxSince, cif <- muxCif, ens <- muxEns, handlers <- muxHandlers,
    out <- muxOut, fresh <- muxFresh, heard <- muxHeard

Lbl == INSTANCE DabLabel WITH
    Lengths <- LblLengths,
    tx <- lblTx, p <- lblP, heard <- lblHeard, taken <- lblTaken, skipped <- lblSkipped

ASSUME PartsAssumption ==
    /\ Vds!VdsAssumption /\ Rtl!RtlAssumption /\ Mic!AudioAssumption /\ Play!PlaybackAssumption
    /\ Scan!SurveyAssumption /\ Lab!LabAssumption /\ Mux!MuxAssumption /\ Lbl!LabelAssumption

-----------------------------------------------------------------------------
\* Vds1022, RtlBackend: each part of what the backend says it applied is what
\* the instrument holds, whatever was applied, failed or was refused before,
\* but for the parts that auto-set, a keep-alive or a refusal has parted since
\* they were last written (`apart' of the one, `moved' of the other).
AppliedIsHeld == Vds!AppliedIsHeld /\ Rtl!AppliedIsHeld
\* Vds1022: a record is told with the settings it was taken under, which may be
\* older than those in force.
RecordsToldRight == Vds!RecordsToldRight
\* RtlBackend: every chunk is in a frame or declared lost by one.  AudioInput:
\* the capture clock counts every sample frame, what is thrown away is
\* declared, and frames are stamped by it.
EveryChunkCounts ==
    /\ Rtl!EveryChunkCounts
    /\ Mic!ClockIsKept /\ Mic!LossIsTold /\ Mic!StampedAfterHole /\ Mic!StampsAdvance
\* DabPlayback: the device never holds blocks of two programmes.
OneVoice == Play!OneVoice
\* DabPlayback: what plays is what is selected, out of a published table.
PlaysTheSelection == Play!PlaysTheSelection
\* SdrSurvey: a survey covered every step that was not skipped, in order.
CoverageIsThePlan == Scan!CoverageIsThePlan
\* SignalLab: a measurement is shown for the setting and window it is of, and
\* no signal takes the identity of another.  DabMux: a sub-channel gives the
\* logical frames that were sent, whole, and none of two plans or with a hole
\* in it.  DabLabel: the label shown was sent, whole and of one message, and
\* one of which two passes came through is shown.
NothingIsMixed ==
    /\ Lab!ShownIsCurrent /\ Lab!IdentityIsUnique
    /\ Mux!NothingMixed /\ Mux!GivesWhatWasSent
    /\ Lbl!ShownWasSent /\ Lbl!HeardIsShown
=============================================================================
