-------------------------- MODULE RtmpPipeline_proofs --------------------------
(***************************************************************************)
(* The safety properties of the RTMP pipeline, for any number of children, *)
(* streams, tolerated errors and faults.  The invariant has a part for the *)
(* transcoder, a part for the orchestrator and one conjunct that links     *)
(* them; as the two share no variable, each is shown to be kept by its own *)
(* steps first.                                                            *)
(***************************************************************************)
EXTENDS RtmpPipeline, TLAPS

(* A child told to end is not the current one, so the exit of the current  *)
(* one always asks for a restart; nothing runs before the start, and after *)
(* the stop only what was told to end.                                     *)
ChildInv ==
    /\ OneLiveChild /\ ChildIsReplaced
    /\ childProcess \notin killed
    /\ transcoding = "no" => running = {} /\ childProcess = NoChild /\ ~restartPending
    /\ transcoding = "stopped" => running \subseteq killed /\ ~restartPending

FfInv == FfTypeOK /\ ChildInv

(* Only a rotation in flight has a stream to close; before the start and   *)
(* after the stop none is open.                                            *)
StreamsInv ==
    /\ OneOpenStream
    /\ rotationInFlight = "none" => prev = NoStream
    /\ phase = "idle" => active = NoStream /\ prev = NoStream /\ live = {}
    /\ phase = "stopped" => open = {}

(* A rotation that failed has armed the timer, a stop disarms it, and      *)
(* before the start nothing could fire.                                    *)
ControlInv ==
    /\ RotationIsComing /\ PauseHolds
    /\ ~paused => consecutiveErrorRotations <= MaxConsecutiveErrorRotations
    /\ rotationInFlight = "failed" /\ phase = "running" /\ ~paused => restartTimer
    /\ stopFlag => ~restartTimer
    /\ phase = "idle" => ~restartTimer /\ rotationInFlight = "none" /\ pump = "off"
    /\ phase = "stopped" => rotationInFlight = "none"

SttInv == SttTypeOK /\ StreamsInv /\ ControlInv

EnvInv ==
    /\ publisher \in {"away", "joining", "live"} /\ pcm \in BOOLEAN
    /\ faults \in 0 .. MaxFaults
    /\ transcoding = "stopped" => phase = "stopped"

IInv == FfInv /\ SttInv /\ EnvInv

-----------------------------------------------------------------------------
(* The transcoder.                                                         *)

LEMMA AttachFresh ==
    ASSUME Attach
    PROVE  /\ childProcess' \in FreeChildren
           /\ running' = running \cup {childProcess'}
           /\ stale' = FALSE
BY DEF Attach

LEMMA StartKeepsFf ==
    ASSUME FfInv, StartTranscoder
    PROVE  FfInv'
<1>1. FfTypeOK'
  BY AttachFresh DEF FfInv, FfTypeOK, StartTranscoder, FreeChildren
<1>2. ChildInv'
  BY AttachFresh
     DEF FfInv, FfTypeOK, ChildInv, OneLiveChild, ChildIsReplaced, StartTranscoder,
         FreeChildren
<1> QED BY <1>1, <1>2 DEF FfInv

LEMMA RestartKeepsFf ==
    ASSUME FfInv, Restart
    PROVE  FfInv'
<1>1. FfTypeOK'
  BY AttachFresh DEF FfInv, FfTypeOK, Restart, DisposeChild, FreeChildren
<1>2. ChildInv'
  BY AttachFresh
     DEF FfInv, FfTypeOK, ChildInv, OneLiveChild, ChildIsReplaced, Restart, DisposeChild,
         FreeChildren
<1> QED BY <1>1, <1>2 DEF FfInv

LEMMA ExitKeepsFf ==
    ASSUME FfInv, NEW c \in Children, Exit(c)
    PROVE  FfInv'
<1>1. FfTypeOK'
  BY DEF FfInv, FfTypeOK, Exit, AsksRestart
<1>2. ChildInv'
  BY DEF FfInv, FfTypeOK, ChildInv, OneLiveChild, ChildIsReplaced, Exit, AsksRestart
<1> QED BY <1>1, <1>2 DEF FfInv

LEMMA StopKeepsFf ==
    ASSUME FfInv, StopTranscoder
    PROVE  FfInv'
<1>1. FfTypeOK'
  BY ChildAssumption DEF FfInv, FfTypeOK, StopTranscoder, DisposeChild
<1>2. ChildInv'
  BY ChildAssumption
     DEF FfInv, FfTypeOK, ChildInv, OneLiveChild, ChildIsReplaced, StopTranscoder,
         DisposeChild
<1> QED BY <1>1, <1>2 DEF FfInv

LEMMA ProgressKeepsFf ==
    ASSUME FfInv, GrowsStale \/ HealthCheck \/ (\E c \in Children : Progress(c))
    PROVE  FfInv'
<1>1. FfTypeOK'
  BY DEF FfInv, FfTypeOK, GrowsStale, HealthCheck, Progress
<1>2. ChildInv'
  BY
     DEF FfInv, FfTypeOK, ChildInv, OneLiveChild, ChildIsReplaced, GrowsStale,
         HealthCheck, Progress
<1> QED BY <1>1, <1>2 DEF FfInv

LEMMA StutterKeepsFf ==
    ASSUME FfInv, UNCHANGED ffVars
    PROVE  FfInv'
<1>1. FfTypeOK'
  BY DEF FfInv, FfTypeOK, ffVars
<1>2. ChildInv'
  BY DEF FfInv, FfTypeOK, ChildInv, OneLiveChild, ChildIsReplaced, ffVars
<1> QED BY <1>1, <1>2 DEF FfInv

-----------------------------------------------------------------------------
(* The orchestrator.                                                       *)

LEMMA OpensFresh ==
    ASSUME NEW gone, Opens(gone)
    PROVE  /\ active' \in FreeStreams(gone)
           /\ open' = (open \ gone) \cup {active'}
           /\ live' = (live \ gone) \cup {active'}
BY DEF Opens, NewStream

LEMMA CannotOpenFresh ==
    ASSUME NEW gone, CannotOpen(gone)
    PROVE  /\ active' = active /\ open' = open \ gone
           /\ live \ gone \subseteq live' /\ live' \subseteq live \cup Streams
BY DEF CannotOpen, NewStream, FreeStreams

LEMMA StartKeepsStt ==
    ASSUME SttInv, Start \/ StartFails
    PROVE  SttInv'
<1>1. CASE Start
  <2>1. SttTypeOK'
    BY <1>1, OpensFresh, StreamAssumption DEF SttInv, SttTypeOK, Start, FreeStreams
  <2>2. StreamsInv'
    BY <1>1, OpensFresh, StreamAssumption
       DEF SttInv, SttTypeOK, StreamsInv, OneOpenStream, Start, FreeStreams
  <2>3. ControlInv'
    BY <1>1, OpensFresh, StreamAssumption
       DEF SttInv, SttTypeOK, ControlInv, RotationIsComing, PauseHolds, stopFlag, Start,
           FreeStreams
  <2> QED BY <2>1, <2>2, <2>3 DEF SttInv
<1>2. CASE StartFails
  <2>1. SttTypeOK'
    BY <1>2, CannotOpenFresh, StreamAssumption DEF SttInv, SttTypeOK, StartFails
  <2>2. StreamsInv'
    BY <1>2, CannotOpenFresh, StreamAssumption
       DEF SttInv, SttTypeOK, StreamsInv, OneOpenStream, StartFails
  <2>3. ControlInv'
    BY <1>2, CannotOpenFresh, StreamAssumption
       DEF SttInv, SttTypeOK, ControlInv, RotationIsComing, PauseHolds, stopFlag,
           StartFails
  <2> QED BY <2>1, <2>2, <2>3 DEF SttInv
<1> QED BY <1>1, <1>2

LEMMA SettleKeepsStt ==
    ASSUME SttInv, StartSettles \/ RotationSettles
    PROVE  SttInv'
<1>1. CASE StartSettles
  <2>1. SttTypeOK'
    BY <1>1, StreamAssumption DEF SttInv, SttTypeOK, StartSettles, MaySchedule, stopFlag
  <2>2. StreamsInv'
    BY <1>1, StreamAssumption
       DEF SttInv, SttTypeOK, StreamsInv, OneOpenStream, StartSettles
  <2>3. ControlInv'
    BY <1>1, StreamAssumption
       DEF SttInv, SttTypeOK, ControlInv, RotationIsComing, PauseHolds, stopFlag,
           StartSettles, MaySchedule
  <2> QED BY <2>1, <2>2, <2>3 DEF SttInv
<1>2. CASE RotationSettles
  <2>1. SttTypeOK'
    BY <1>2, StreamAssumption
       DEF SttInv, SttTypeOK, RotationSettles, Replaced, MaySchedule, stopFlag
  <2>2. StreamsInv'
    BY <1>2, StreamAssumption
       DEF SttInv, SttTypeOK, StreamsInv, OneOpenStream, RotationSettles, Replaced
  <2>3. ControlInv'
    <3>1. CASE rotationInFlight = "handoff" /\ MaySchedule
      <4>1. restartTimer' = TRUE /\ ~paused /\ ~stopFlag
        BY <1>2, <3>1 DEF RotationSettles, MaySchedule
      <4> QED BY <1>2, <4>1
              DEF SttInv, SttTypeOK, ControlInv, RotationIsComing, PauseHolds, stopFlag,
                  RotationSettles
    <3>2. CASE ~(rotationInFlight = "handoff" /\ MaySchedule)
      <4>1. restartTimer' = restartTimer
        BY <1>2, <3>2 DEF RotationSettles, SttInv, SttTypeOK
      <4> QED BY <1>2, <3>2, <4>1
              DEF SttInv, SttTypeOK, ControlInv, RotationIsComing, PauseHolds, stopFlag,
                  RotationSettles, MaySchedule
    <3> QED BY <3>1, <3>2
  <2> QED BY <2>1, <2>2, <2>3 DEF SttInv
<1> QED BY <1>1, <1>2

(* A rotation begins, with what its caller does to the pause, the count    *)
(* and the pump.                                                           *)
LEMMA RotationKeepsStt ==
    ASSUME SttInv, NEW gone, RotationBegins(gone), ~stopFlag,
           phase \notin {"idle", "stopped"}, UNCHANGED phase,
           paused' = FALSE, pump' \in {"off", "reading", "resuming", "done"},
           consecutiveErrorRotations' \in 0 .. MaxConsecutiveErrorRotations
    PROVE  SttInv'
<1>1. CASE RotationOpens(gone)
  <2>1. SttTypeOK'
    <3>1. consecutiveErrorRotations' \in 0 .. MaxConsecutiveErrorRotations + 1
      BY StreamAssumption
    <3>2. open' \subseteq live' /\ live' \subseteq Streams /\ active' \in Streams \cup {NoStream}
      BY <1>1, OpensFresh DEF SttInv, SttTypeOK, RotationOpens, FreeStreams
    <3> QED BY <1>1, <3>1, <3>2 DEF SttInv, SttTypeOK, RotationOpens
  <2>2. StreamsInv'
    BY <1>1, OpensFresh, StreamAssumption
       DEF SttInv, SttTypeOK, StreamsInv, OneOpenStream, RotationOpens, FreeStreams
  <2>3. ControlInv'
    BY <1>1, OpensFresh, StreamAssumption
       DEF SttInv, SttTypeOK, ControlInv, RotationIsComing, PauseHolds, stopFlag,
           RotationOpens, FreeStreams
  <2> QED BY <2>1, <2>2, <2>3 DEF SttInv
<1>2. CASE RotationFails(gone)
  <2>1. SttTypeOK'
    <3>1. consecutiveErrorRotations' \in 0 .. MaxConsecutiveErrorRotations + 1
      BY StreamAssumption
    <3>2. open' \subseteq live' /\ live' \subseteq Streams /\ active' \in Streams \cup {NoStream}
      BY <1>2, CannotOpenFresh DEF SttInv, SttTypeOK, RotationFails
    <3> QED BY <1>2, <3>1, <3>2 DEF SttInv, SttTypeOK, RotationFails, ArmsRetry
  <2>2. StreamsInv'
    BY <1>2, CannotOpenFresh, StreamAssumption
       DEF SttInv, SttTypeOK, StreamsInv, OneOpenStream, RotationFails, ArmsRetry
  <2>3. ControlInv'
    BY <1>2, CannotOpenFresh, StreamAssumption
       DEF SttInv, SttTypeOK, ControlInv, RotationIsComing, PauseHolds, stopFlag,
           RotationFails, ArmsRetry
  <2> QED BY <2>1, <2>2, <2>3 DEF SttInv
<1> QED BY <1>1, <1>2 DEF RotationBegins

(* The end of a stream, with or without the pause that it may cause.       *)
LEMMA EndsKeepsStt ==
    ASSUME SttInv, NEW s \in Streams, Ends(s) \/ ErrorPauses(s)
    PROVE  SttInv'
<1>1. CASE Ends(s)
  <2>1. SttTypeOK'
    BY <1>1 DEF SttInv, SttTypeOK, Ends
  <2>2. StreamsInv'
    BY <1>1 DEF SttInv, SttTypeOK, StreamsInv, OneOpenStream, Ends
  <2>3. ControlInv'
    BY <1>1
       DEF SttInv, SttTypeOK, ControlInv, RotationIsComing, PauseHolds, stopFlag, Ends
  <2> QED BY <2>1, <2>2, <2>3 DEF SttInv
<1>2. CASE ErrorPauses(s)
  <2>1. SttTypeOK'
    <3>1. consecutiveErrorRotations' \in 0 .. MaxConsecutiveErrorRotations + 1
      BY <1>2, StreamAssumption DEF SttInv, SttTypeOK, ControlInv, ErrorPauses
    <3> QED BY <1>2, <3>1 DEF SttInv, SttTypeOK, ErrorPauses
  <2>2. StreamsInv'
    BY <1>2, StreamAssumption
       DEF SttInv, SttTypeOK, StreamsInv, OneOpenStream, ErrorPauses
  <2>3. ControlInv'
    BY <1>2, StreamAssumption
       DEF SttInv, SttTypeOK, ControlInv, RotationIsComing, PauseHolds, stopFlag,
           ErrorPauses
  <2> QED BY <2>1, <2>2, <2>3 DEF SttInv
<1> QED BY <1>1, <1>2

(* An error that rotates, or finds a rotation in flight.                   *)
LEMMA ErrorKeepsStt ==
    ASSUME SttInv, NEW s \in Streams, ErrorRotates(s)
    PROVE  SttInv'
<1>1. /\ consecutiveErrorRotations' \in 0 .. MaxConsecutiveErrorRotations
      /\ ~stopFlag /\ ~paused /\ paused' = FALSE
      /\ phase \notin {"idle", "stopped"} /\ UNCHANGED <<phase, pump>>
  BY StreamAssumption
     DEF SttInv, SttTypeOK, StreamsInv, ControlInv, ErrorRotates, TooManyErrors, stopFlag
<1>2. CASE RotationBegins({s})
  BY <1>1, <1>2, RotationKeepsStt DEF SttInv, SttTypeOK
<1>3. CASE RotationShared({s})
  <2>1. SttTypeOK'
    <3>1. consecutiveErrorRotations' \in 0 .. MaxConsecutiveErrorRotations + 1
      BY <1>1, StreamAssumption
    <3> QED BY <1>1, <1>3, <3>1 DEF SttInv, SttTypeOK, RotationShared
  <2>2. StreamsInv'
    BY <1>1, <1>3, StreamAssumption
       DEF SttInv, SttTypeOK, StreamsInv, OneOpenStream, RotationShared
  <2>3. ControlInv'
    BY <1>1, <1>3, StreamAssumption
       DEF SttInv, SttTypeOK, ControlInv, RotationIsComing, PauseHolds, stopFlag,
           RotationShared
  <2> QED BY <2>1, <2>2, <2>3 DEF SttInv
<1> QED BY <1>2, <1>3 DEF ErrorRotates

LEMMA TimerKeepsStt ==
    ASSUME SttInv, TimerFires
    PROVE  SttInv'
<1>1. /\ ~stopFlag /\ ~paused /\ paused' = FALSE
      /\ phase \notin {"idle", "stopped"} /\ UNCHANGED <<phase, pump>>
      /\ consecutiveErrorRotations' \in 0 .. MaxConsecutiveErrorRotations
  BY StreamAssumption DEF SttInv, SttTypeOK, ControlInv, TimerFires, PauseHolds, stopFlag
<1> QED BY <1>1, RotationKeepsStt DEF SttInv, SttTypeOK, TimerFires

LEMMA PumpKeepsStt ==
    ASSUME SttInv, PumpStops \/ PumpResumes \/ Writes
    PROVE  SttInv'
<1>1. CASE PumpResumes
  <2>1. /\ ~stopFlag /\ paused' = FALSE
        /\ phase \notin {"idle", "stopped"} /\ UNCHANGED phase
        /\ consecutiveErrorRotations' \in 0 .. MaxConsecutiveErrorRotations
        /\ pump' \in {"off", "reading", "resuming", "done"}
    BY <1>1, StreamAssumption DEF SttInv, ControlInv, PumpResumes, stopFlag
  <2> QED BY <1>1, <2>1, RotationKeepsStt DEF PumpResumes
<1>2. CASE PumpStops
  <2>1. SttTypeOK'
    BY <1>2 DEF SttInv, SttTypeOK, PumpStops
  <2>2. StreamsInv'
    BY <1>2 DEF SttInv, SttTypeOK, StreamsInv, OneOpenStream, PumpStops
  <2>3. ControlInv'
    BY <1>2
       DEF SttInv, SttTypeOK, ControlInv, RotationIsComing, PauseHolds, stopFlag,
           PumpStops
  <2> QED BY <2>1, <2>2, <2>3 DEF SttInv
<1>3. CASE Writes
  <2>1. SttTypeOK'
    BY <1>3 DEF SttInv, SttTypeOK, Writes
  <2>2. StreamsInv'
    BY <1>3 DEF SttInv, SttTypeOK, StreamsInv, OneOpenStream, Writes
  <2>3. ControlInv'
    BY <1>3
       DEF SttInv, SttTypeOK, ControlInv, RotationIsComing, PauseHolds, stopFlag, Writes
  <2> QED BY <2>1, <2>2, <2>3 DEF SttInv
<1> QED BY <1>1, <1>2, <1>3

LEMMA TranscriptKeepsStt ==
    ASSUME SttInv, NEW s \in Streams, Transcript(s)
    PROVE  SttInv'
<1>1. SttTypeOK'
  BY StreamAssumption DEF SttInv, SttTypeOK, Transcript
<1>2. StreamsInv'
  BY StreamAssumption DEF SttInv, SttTypeOK, StreamsInv, OneOpenStream, Transcript
<1>3. ControlInv'
  BY StreamAssumption
     DEF SttInv, SttTypeOK, ControlInv, RotationIsComing, PauseHolds, stopFlag, Transcript
<1> QED BY <1>1, <1>2, <1>3 DEF SttInv

(* Once stopping, the rotation in flight settles without arming anything,  *)
(* and no other begins; the shutdown then closes the only stream.          *)
LEMMA StopKeepsStt ==
    ASSUME SttInv, Stop \/ ShutDown
    PROVE  SttInv'
<1>1. CASE Stop
  <2>1. SttTypeOK'
    BY <1>1 DEF SttInv, SttTypeOK, Stop
  <2>2. StreamsInv'
    BY <1>1 DEF SttInv, SttTypeOK, StreamsInv, OneOpenStream, Stop
  <2>3. ControlInv'
    BY <1>1
       DEF SttInv, SttTypeOK, ControlInv, RotationIsComing, PauseHolds, stopFlag, Stop
  <2> QED BY <2>1, <2>2, <2>3 DEF SttInv
<1>2. CASE ShutDown
  <2>1. SttTypeOK'
    BY <1>2 DEF SttInv, SttTypeOK, ShutDown
  <2>2. StreamsInv'
    BY <1>2, StreamAssumption DEF SttInv, SttTypeOK, StreamsInv, OneOpenStream, ShutDown
  <2>3. ControlInv'
    BY <1>2
       DEF SttInv, SttTypeOK, ControlInv, RotationIsComing, PauseHolds, stopFlag, ShutDown
  <2> QED BY <2>1, <2>2, <2>3 DEF SttInv
<1> QED BY <1>1, <1>2

LEMMA StutterKeepsStt ==
    ASSUME SttInv, UNCHANGED sttVars
    PROVE  SttInv'
<1>1. SttTypeOK'
  BY DEF SttInv, SttTypeOK, sttVars
<1>2. StreamsInv'
  BY DEF SttInv, SttTypeOK, StreamsInv, OneOpenStream, sttVars
<1>3. ControlInv'
  BY DEF SttInv, SttTypeOK, ControlInv, RotationIsComing, PauseHolds, stopFlag, sttVars
<1> QED BY <1>1, <1>2, <1>3 DEF SttInv

-----------------------------------------------------------------------------
(* The pipeline.                                                           *)

LEMMA PaysBounded ==
    ASSUME EnvInv, NEW unexplained \in BOOLEAN, Pays(unexplained)
    PROVE  faults' \in 0 .. MaxFaults
BY FaultsAssumption DEF EnvInv, Pays, CreationFails

LEMMA InitInv == Init => IInv
<1> SUFFICES ASSUME Init PROVE IInv
  OBVIOUS
<1>1. FfInv
  BY DEF Init, FfInit, FfInv, FfTypeOK, ChildInv, OneLiveChild, ChildIsReplaced
<1>2. SttInv
  <2>1. /\ consecutiveErrorRotations \in 0 .. MaxConsecutiveErrorRotations + 1
        /\ consecutiveErrorRotations <= MaxConsecutiveErrorRotations
    BY StreamAssumption DEF Init, SttInit
  <2>2. SttTypeOK
    BY <2>1 DEF Init, SttInit, SttTypeOK
  <2>3. StreamsInv
    BY DEF Init, SttInit, StreamsInv, OneOpenStream
  <2>4. ControlInv
    BY <2>1 DEF Init, SttInit, ControlInv, RotationIsComing, PauseHolds, stopFlag
  <2> QED BY <2>2, <2>3, <2>4 DEF SttInv
<1>3. EnvInv
  <2>1. faults \in 0 .. MaxFaults
    BY FaultsAssumption DEF Init
  <2> QED BY <2>1 DEF Init, FfInit, EnvInv
<1> QED BY <1>1, <1>2, <1>3 DEF IInv

LEMMA ServiceKeepsInv ==
    ASSUME IInv,
           \/ OnPublish \/ Publishes \/ Leaves
           \/ Run \/ StopService \/ StreamStops \/ TranscoderStops
    PROVE  IInv'
<1>1. CASE OnPublish
  <2>1. FfInv'
    BY <1>1, RestartKeepsFf, StutterKeepsFf DEF OnPublish, IInv
  <2>2. UNCHANGED <<transcoding, phase, pcm, faults>> /\ publisher' = "joining"
    BY <1>1 DEF OnPublish, Restart, ffVars, sttVars
  <2> QED BY <1>1, <2>1, <2>2, StutterKeepsStt DEF OnPublish, IInv, EnvInv
<1>2. CASE Publishes
  <2>1. UNCHANGED <<transcoding, phase, pcm, faults>> /\ publisher' = "live"
    BY <1>2 DEF Publishes, ffVars, sttVars
  <2> QED BY <1>2, <2>1, StutterKeepsFf, StutterKeepsStt DEF Publishes, IInv, EnvInv
<1>3. CASE Leaves
  <2>1. FfInv'
    BY <1>3 DEF Leaves, IInv, FfInv, ChildInv, FfTypeOK, OneLiveChild, ChildIsReplaced
  <2>2. UNCHANGED <<transcoding, phase, pcm, faults>> /\ publisher' = "away"
    BY <1>3 DEF Leaves, sttVars
  <2> QED BY <1>3, <2>1, <2>2, StutterKeepsStt DEF Leaves, IInv, EnvInv
<1>4. CASE Run
  <2>1. FfInv' /\ SttInv'
    BY <1>4, StartKeepsFf, StartKeepsStt DEF Run, IInv
  <2>2. transcoding' = "yes" /\ UNCHANGED envVars
    BY <1>4 DEF Run, StartTranscoder
  <2> QED BY <2>1, <2>2 DEF IInv, EnvInv, envVars
<1>5. CASE StopService \/ StreamStops
  <2>1. FfInv' /\ SttInv'
    BY <1>5, StutterKeepsFf, StopKeepsStt DEF StopService, StreamStops, IInv
  <2>2. /\ UNCHANGED <<transcoding, publisher, pcm, faults>>
        /\ phase # "stopped"
    BY <1>5 DEF StopService, StreamStops, Stop, ShutDown, ffVars, envVars
  <2> QED BY <2>1, <2>2 DEF IInv, EnvInv
<1>6. CASE TranscoderStops
  <2>1. FfInv' /\ SttInv'
    BY <1>6, StopKeepsFf, StutterKeepsStt DEF TranscoderStops, IInv
  <2>2. UNCHANGED <<phase, publisher, pcm, faults>> /\ phase = "stopped"
    BY <1>6 DEF TranscoderStops, sttVars, envVars
  <2> QED BY <2>1, <2>2 DEF IInv, EnvInv
<1> QED BY <1>1, <1>2, <1>3, <1>4, <1>5, <1>6

LEMMA TranscoderKeepsInv ==
    ASSUME IInv, TranscoderNext
    PROVE  IInv'
<1>1. ASSUME NEW c \in Children, ChildProgress(c)
      PROVE  IInv'
  <2>1. FfInv' /\ SttInv'
    BY <1>1, ProgressKeepsFf, StutterKeepsStt DEF ChildProgress, IInv
  <2>2. UNCHANGED <<transcoding, phase, publisher, faults>> /\ pcm' = TRUE
    BY <1>1 DEF ChildProgress, Progress, sttVars
  <2> QED BY <2>1, <2>2 DEF IInv, EnvInv
<1>2. ASSUME NEW c \in Children, ChildExits(c)
      PROVE  IInv'
  <2>1. FfInv' /\ SttInv'
    BY <1>2, ExitKeepsFf, StutterKeepsStt DEF ChildExits, IInv
  <2>2. UNCHANGED <<transcoding, phase, publisher, pcm>>
    BY <1>2 DEF ChildExits, Exit, sttVars
  <2>3. faults' \in 0 .. MaxFaults
    BY <1>2, PaysBounded DEF ChildExits, IInv
  <2> QED BY <2>1, <2>2, <2>3 DEF IInv, EnvInv
<1>3. CASE NoProgress \/ StallSeen \/ RestartFires
  <2>1. FfInv' /\ SttInv'
    BY <1>3, ProgressKeepsFf, RestartKeepsFf, StutterKeepsStt
       DEF NoProgress, StallSeen, RestartFires, IInv
  <2>2. UNCHANGED <<transcoding, phase, publisher, pcm, faults>>
    BY <1>3
       DEF NoProgress, StallSeen, RestartFires, GrowsStale, HealthCheck, Restart, sttVars,
           envVars
  <2> QED BY <2>1, <2>2 DEF IInv, EnvInv
<1> QED BY <1>1, <1>2, <1>3 DEF TranscoderNext

(* No step of the orchestrator but the shutdown enters or leaves "stopped".*)
LEMMA OrchestratorKeepsInv ==
    ASSUME IInv, OrchestratorNext
    PROVE  IInv'
<1>1. CASE StartDone \/ RotationDone
  <2>1. SttInv'
    BY <1>1, SettleKeepsStt DEF StartDone, RotationDone, IInv
  <2>2. UNCHANGED <<ffVars, envVars>> /\ (phase = "stopped" => phase' = "stopped")
    BY <1>1 DEF StartDone, RotationDone, StartSettles, RotationSettles
  <2> QED BY <2>1, <2>2, StutterKeepsFf DEF IInv, EnvInv, ffVars, envVars
<1>2. CASE RotationDue
  <2>1. SttInv'
    BY <1>2, TimerKeepsStt DEF RotationDue, IInv
  <2>2. UNCHANGED <<ffVars, phase, publisher, pcm>>
    BY <1>2 DEF RotationDue, TimerFires
  <2>3. faults' \in 0 .. MaxFaults
    BY <1>2, PaysBounded DEF RotationDue, IInv
  <2> QED BY <2>1, <2>2, <2>3, StutterKeepsFf DEF IInv, EnvInv, ffVars
<1>3. CASE ReadStops \/ ReadWrites
  <2>1. SttInv'
    BY <1>3, PumpKeepsStt DEF ReadStops, ReadWrites, IInv
  <2>2. UNCHANGED <<ffVars, phase, publisher, faults>>
    BY <1>3 DEF ReadStops, ReadWrites, PumpStops, Writes
  <2>3. pcm' \in BOOLEAN
    BY <1>3 DEF ReadStops, ReadWrites, Reads, IInv, EnvInv
  <2> QED BY <2>1, <2>2, <2>3, StutterKeepsFf DEF IInv, EnvInv, ffVars
<1>4. CASE ReadResumes
  <2>1. SttInv'
    BY <1>4, PumpKeepsStt DEF ReadResumes, IInv
  <2>2. UNCHANGED <<ffVars, phase, publisher>> /\ pcm' = FALSE
    BY <1>4 DEF ReadResumes, PumpResumes, Reads
  <2>3. faults' \in 0 .. MaxFaults
    BY <1>4, PaysBounded DEF ReadResumes, IInv
  <2> QED BY <2>1, <2>2, <2>3, StutterKeepsFf DEF IInv, EnvInv, ffVars
<1>5. ASSUME NEW s \in Streams, TranscriptComes(s)
      PROVE  IInv'
  <2>1. SttInv'
    BY <1>5, TranscriptKeepsStt DEF TranscriptComes, IInv
  <2>2. UNCHANGED <<ffVars, phase, envVars>>
    BY <1>5 DEF TranscriptComes, Transcript
  <2> QED BY <2>1, <2>2, StutterKeepsFf DEF IInv, EnvInv, ffVars, envVars
<1>6. ASSUME NEW s \in Streams, StreamEnds(s) \/ StreamFails(s)
      PROVE  IInv'
  <2>1. SttInv'
    BY <1>6, EndsKeepsStt, ErrorKeepsStt DEF StreamEnds, StreamFails, ErrorIgnored, IInv
  <2>2. UNCHANGED <<ffVars, phase, publisher, pcm>>
    BY <1>6
       DEF StreamEnds, StreamFails, ErrorIgnored, ErrorPauses, ErrorRotates, Ends
  <2>3. faults' \in 0 .. MaxFaults
    <3>1. Unexplained(s) \in BOOLEAN BY DEF Unexplained
    <3> QED BY <1>6, <3>1, PaysBounded DEF StreamEnds, StreamFails, IInv
  <2> QED BY <2>1, <2>2, <2>3, StutterKeepsFf DEF IInv, EnvInv, ffVars
<1> QED BY <1>1, <1>2, <1>3, <1>4, <1>5, <1>6 DEF OrchestratorNext

(* The inductive invariant.                                                *)
THEOREM PipelineInvariant == Spec => []IInv
<1>1. Init => IInv
  BY InitInv
<1>2. IInv /\ [Next]_vars => IInv'
  <2> SUFFICES ASSUME IInv, [Next]_vars PROVE IInv'
    OBVIOUS
  <2>1. CASE Next
    BY <2>1, ServiceKeepsInv, TranscoderKeepsInv, OrchestratorKeepsInv DEF Next
  <2>2. CASE UNCHANGED vars
    <3>1. UNCHANGED <<ffVars, sttVars, publisher, pcm, faults>>
      BY <2>2 DEF vars
    <3> QED BY <3>1, StutterKeepsFf, StutterKeepsStt DEF IInv, EnvInv, ffVars, sttVars
  <2> QED BY <2>1, <2>2
<1> QED BY <1>1, <1>2, PTL DEF Spec

(* One recognition stream and one ffmpeg child at a time, whatever         *)
(* rotations and restarts overlap.                                         *)
THEOREM PipelineOneOfEach == Spec => []OneOfEach
<1>1. IInv => OneOfEach
  BY DEF IInv, FfInv, ChildInv, SttInv, StreamsInv, OneOfEach
<1> QED BY <1>1, PipelineInvariant, PTL

(* A restart or a rotation is on its way whenever one is needed, and none  *)
(* while the recognition is paused.                                        *)
THEOREM PipelineRecovers == Spec => []RecoveryArmed
<1>1. IInv => RecoveryArmed
  BY DEF IInv, FfInv, ChildInv, SttInv, ControlInv, RecoveryArmed
<1> QED BY <1>1, PipelineInvariant, PTL

(* A stopped pipeline leaves no stream, no timer and no child behind.      *)
THEOREM PipelineStops == Spec => []StopLeavesNothing
<1>1. IInv => StopLeavesNothing
  BY
     DEF IInv, FfInv, ChildInv, SttInv, StreamsInv, ControlInv, EnvInv, StopLeavesNothing,
         stopFlag
<1> QED BY <1>1, PipelineInvariant, PTL

(* Type correctness.                                                       *)
THEOREM PipelineTypes == Spec => []TypeOK
<1>1. IInv => TypeOK
  BY DEF IInv, FfInv, SttInv, EnvInv, TypeOK
<1> QED BY <1>1, PipelineInvariant, PTL
=============================================================================
