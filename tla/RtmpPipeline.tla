----------------------------- MODULE RtmpPipeline -----------------------------
(***************************************************************************)
(* The pipeline of an RTMP session (runPipeLines.ts,                       *)
(* usecases/StreamlinkToConsumerService.ts): the transcoder's children     *)
(* pull the publisher's stream, the orchestrator sends what they put out   *)
(* to the recognition service.  Both recover on their own; here they are   *)
(* put together with the publisher, the on_publish hook (router/rtmp.ts)   *)
(* and the stop of the session.                                            *)
(***************************************************************************)
EXTENDS FfmpegTranscoder, StreamOrchestrator

CONSTANT MaxFaults   \* bound: the failures that no lack of audio explains

ASSUME FaultsAssumption == MaxFaults \in Nat

VARIABLES
    publisher,  \* external: "away", "joining" (on_publish was called) or "live"
    pcm,        \* whether outputMultiplexer has a chunk (bound: one)
    faults      \* of MaxFaults

vars == <<ffVars, sttVars, publisher, pcm, faults>>
envVars == <<publisher, pcm, faults>>

TypeOK ==
    /\ FfTypeOK /\ SttTypeOK
    /\ publisher \in {"away", "joining", "live"} /\ pcm \in BOOLEAN
    /\ faults \in 0 .. MaxFaults

Init == FfInit /\ SttInit /\ publisher = "away" /\ pcm = FALSE /\ faults = 0

(***************************************************************************)
(* External: what fails for no reason is limited, what the lack of audio   *)
(* or the end of a replaced stream explains is not.                        *)
(***************************************************************************)
Flowing == publisher = "live" /\ running \ wedged # {}
CreationFails == rotationInFlight = "none" /\ rotationInFlight' = "failed"
Pays(unexplained) ==
    /\ faults' = faults + (IF unexplained THEN 1 ELSE 0) + (IF CreationFails THEN 1 ELSE 0)
    /\ faults' <= MaxFaults
Unexplained(s) == s = active /\ Flowing

(* The publisher connects (nginx calls on_publish and lets it in), and     *)
(* leaves; a child may then wait for ever on a dead connection.            *)
Notified == phase \in {"running", "stopping", "stopped"} /\ restartPending
OnPublish ==
    /\ publisher = "away" /\ publisher' = "joining"
    /\ \/ Notified /\ Restart
       \/ ~Notified /\ UNCHANGED ffVars
    /\ UNCHANGED <<sttVars, pcm, faults>>

Publishes ==
    /\ publisher = "joining" /\ publisher' = "live"
    /\ UNCHANGED <<ffVars, sttVars, pcm, faults>>

Leaves ==
    /\ publisher = "live" /\ publisher' = "away"
    /\ \E left \in SUBSET running : wedged' = wedged \cup left
    /\ UNCHANGED <<transcoding, childProcess, running, killed, restartPending, stale,
                   sttVars, pcm, faults>>

(***************************************************************************)
(* run of the service, and the function it returns.  The signal handlers   *)
(* call the latter too.                                                    *)
(***************************************************************************)
Run == StartTranscoder /\ (Start \/ StartFails) /\ UNCHANGED envVars

StopService == Stop /\ UNCHANGED <<ffVars, envVars>>
StreamStops == ShutDown /\ UNCHANGED <<ffVars, envVars>>
TranscoderStops ==
    /\ phase = "stopped" /\ StopTranscoder
    /\ UNCHANGED <<sttVars, envVars>>

(***************************************************************************)
(* The steps of the transcoder.                                            *)
(***************************************************************************)
ChildProgress(c) ==
    /\ publisher = "live" /\ transcoding = "yes" /\ Progress(c)
    /\ pcm' = TRUE
    /\ UNCHANGED <<sttVars, publisher, faults>>

NoProgress == ~Flowing /\ GrowsStale /\ UNCHANGED <<sttVars, envVars>>
StallSeen == HealthCheck /\ UNCHANGED <<sttVars, envVars>>
RestartFires == Restart /\ UNCHANGED <<sttVars, envVars>>

ChildExits(c) ==
    /\ Exit(c)
    /\ UNCHANGED <<sttVars, publisher, pcm>>
    /\ Pays(publisher = "live" /\ c \notin killed \cup wedged)

(***************************************************************************)
(* The steps of the orchestrator.                                          *)
(***************************************************************************)
StartDone == StartSettles /\ UNCHANGED <<ffVars, envVars>>
RotationDone == RotationSettles /\ UNCHANGED <<ffVars, envVars>>
RotationDue == TimerFires /\ Pays(FALSE) /\ UNCHANGED <<ffVars, publisher, pcm>>

TranscriptComes(s) == Transcript(s) /\ UNCHANGED <<ffVars, envVars>>
StreamEnds(s) == Ends(s) /\ Pays(Unexplained(s)) /\ UNCHANGED <<ffVars, publisher, pcm>>
StreamFails(s) ==
    /\ ErrorIgnored(s) \/ ErrorPauses(s) \/ ErrorRotates(s)
    /\ Pays(Unexplained(s))
    /\ UNCHANGED <<ffVars, publisher, pcm>>

Reads == pcm /\ pcm' = FALSE
ReadStops == PumpStops /\ Reads /\ UNCHANGED <<ffVars, publisher, faults>>
ReadResumes == PumpResumes /\ Reads /\ Pays(FALSE) /\ UNCHANGED <<ffVars, publisher>>
ReadWrites ==
    /\ Writes
    /\ \/ pump = "reading" /\ Reads
       \/ pump = "resuming" /\ UNCHANGED pcm
    /\ UNCHANGED <<ffVars, publisher, faults>>

TranscoderNext ==
    \/ NoProgress \/ StallSeen \/ RestartFires
    \/ \E c \in Children : ChildProgress(c) \/ ChildExits(c)

OrchestratorNext ==
    \/ StartDone \/ RotationDone \/ RotationDue
    \/ ReadStops \/ ReadResumes \/ ReadWrites
    \/ \E s \in Streams : TranscriptComes(s) \/ StreamEnds(s) \/ StreamFails(s)

Next ==
    \/ OnPublish \/ Publishes \/ Leaves
    \/ Run \/ StopService \/ StreamStops \/ TranscoderStops
    \/ TranscoderNext \/ OrchestratorNext

Spec == Init /\ [][Next]_vars

(***************************************************************************)
(* Timers fire, suspended functions go on, the pump reads what there is, a *)
(* child that can make progress does, and what was told to end does.  That *)
(* a publisher comes or stays, a session stops, or a stream fails is not   *)
(* assumed.                                                                *)
(***************************************************************************)
Fairness ==
    /\ WF_vars(StartDone) /\ WF_vars(RotationDone) /\ WF_vars(RotationDue)
    /\ SF_vars(ReadStops \/ ReadResumes \/ ReadWrites)
    /\ WF_vars(StreamStops) /\ WF_vars(TranscoderStops)
    /\ WF_vars(NoProgress) /\ WF_vars(StallSeen) /\ WF_vars(RestartFires)
    /\ WF_vars(\E c \in Children : ChildProgress(c))
    /\ \A c \in Children : WF_vars(c \in killed /\ ChildExits(c))
    /\ \A s \in Streams : WF_vars(s \notin open /\ StreamEnds(s))

FairSpec == Spec /\ Fairness

(***************************************************************************)
(* Properties.                                                             *)
(***************************************************************************)
(* One stream of the recognition service is paid for at a time and one     *)
(* ffmpeg child pulls, whatever restarts and rotations overlap: the        *)
(* switcher's active stream and the one that a rotation in flight is about *)
(* to close (StreamSwitcher.ts 19-38), and the child last spawned          *)
(* (FfmpegTranscoder.ts 196-201).                                          *)
OneOfEach == OneOpenStream /\ OneLiveChild

(* Both recoveries are armed whenever they may be needed, and only then: a *)
(* dead child is waiting to be replaced, a running orchestrator has its    *)
(* next rotation before it, and a paused one has none (comments of         *)
(* StreamOrchestrator.ts 38-41 and 166-168).                               *)
RecoveryArmed == ChildIsReplaced /\ RotationIsComing /\ PauseHolds

(* A pipeline that was stopped leaves nothing behind, wherever the stop    *)
(* found its rotation and its restart.                                     *)
StopLeavesNothing ==
    transcoding = "stopped" =>
        /\ open = {} /\ ~restartTimer /\ rotationInFlight = "none"
        /\ running \subseteq killed /\ ~restartPending

(* While a publisher stays and the session runs, its audio is recognised   *)
(* again and again: neither a wedged or crashed child nor a paused         *)
(* recognition is for good (FfmpegTranscoder.ts 8-10, and                  *)
(* StreamOrchestrator.ts 38-41: "it is recoverable").                      *)
Recognised == ReadWrites /\ active \in open
AudioReturns ==
    <>[](publisher = "live" /\ phase = "running") => []<><<Recognised>>_vars
=============================================================================
