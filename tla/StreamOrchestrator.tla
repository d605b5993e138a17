-------------------------- MODULE StreamOrchestrator --------------------------
(***************************************************************************)
(* The consumer of a session's audio (usecases/StreamOrchestrator.ts) with *)
(* the switcher it writes to (stream/StreamSwitcher.ts) and the streams of *)
(* the recognition service (adapters/googleSttV2.ts).  A stream lives for  *)
(* minutes: it is replaced on a timer, when it fails, and when audio       *)
(* returns after the failures had paused the replacing.                    *)
(*                                                                         *)
(* This module has the state and the handlers; RtmpPipeline puts them      *)
(* together with the transcoder.  A rotation suspends once, between the    *)
(* handoff to the new stream and the timer for the next.  Events of the    *)
(* streams and a stop may come in between; timers and the pump's next      *)
(* chunk do not: node runs a timer only when there are no microtasks, and  *)
(* a chunk takes the pump more of them than the rest of a rotation.  The   *)
(* service is external; a stream's identity is used again once nothing     *)
(* refers to it.                                                           *)
(* Definitions introduced as mutants are not part of the specification     *)
(* (README, "Mutants").                                                    *)
(***************************************************************************)
EXTENDS Naturals, FiniteSets

CONSTANTS
    Streams,                     \* bound: the streams not yet over at once
    NoStream,
    MaxConsecutiveErrorRotations \* maxConsecutiveErrorRotations

ASSUME StreamAssumption ==
    NoStream \notin Streams /\ MaxConsecutiveErrorRotations \in Nat

VARIABLES
    phase,                      \* of the orchestrator: start, run, stop
    paused,
    consecutiveErrorRotations,
    restartTimer,               \* whether it is set
    rotationInFlight,           \* "none", or how the rotation's work went
    active,                     \* the switcher's stream
    prev,                       \* the stream the rotation in flight closes
    open,                       \* the streams whose closed is false
    live,                       \* external: the streams that may still call back
    pump                        \* the loop that reads the audio

sttVars == <<phase, paused, consecutiveErrorRotations, restartTimer,
             rotationInFlight, active, prev, open, live, pump>>

stopFlag == phase \in {"stopping", "stopped"}

SttTypeOK ==
    /\ phase \in {"idle", "starting", "running", "failed", "stopping", "stopped"}
    /\ paused \in BOOLEAN /\ restartTimer \in BOOLEAN
    /\ consecutiveErrorRotations \in 0 .. MaxConsecutiveErrorRotations + 1
    /\ rotationInFlight \in {"none", "handoff", "failed"}
    /\ active \in Streams \cup {NoStream} /\ prev \in Streams \cup {NoStream}
    /\ open \subseteq live /\ live \subseteq Streams
    /\ pump \in {"off", "reading", "resuming", "done"}

SttInit ==
    /\ phase = "idle" /\ paused = FALSE /\ consecutiveErrorRotations = 0
    /\ restartTimer = FALSE /\ rotationInFlight = "none"
    /\ active = NoStream /\ prev = NoStream /\ open = {} /\ live = {}
    /\ pump = "off"

FreeStreams(gone) == Streams \ ((live \ gone) \cup {active, prev})
NewStream(gone) == CHOOSE s \in FreeStreams(gone) : TRUE

(* _createSttHandle returns: the stream is open and takes over, when gone  *)
(* are the streams that just failed.                                       *)
Opens(gone) ==
    /\ FreeStreams(gone) # {}
    /\ active' = NewStream(gone)
    /\ open' = (open \ gone) \cup {active'}
    /\ live' = (live \ gone) \cup {active'}

(* It raises: there is no stream, or one that was stopped but calls back.  *)
CannotOpen(gone) ==
    /\ FreeStreams(gone) # {}
    /\ live' \in {live \ gone, (live \ gone) \cup {NewStream(gone)}}
    /\ open' = open \ gone
    /\ UNCHANGED active

(***************************************************************************)
(* start, up to the first suspension; then the timer and the pump.         *)
(***************************************************************************)
Start ==
    /\ phase = "idle" /\ phase' = "starting"
    /\ Opens({})
    /\ UNCHANGED <<paused, consecutiveErrorRotations, restartTimer, rotationInFlight,
                   prev, pump>>

StartFails ==
    /\ phase = "idle" /\ phase' = "failed"
    /\ CannotOpen({})
    /\ UNCHANGED <<paused, consecutiveErrorRotations, restartTimer, rotationInFlight,
                   prev, pump>>

(* The guard of _scheduleNextRestart; its callers are not stopped when     *)
(* they begin, but may be when they go on.                                 *)
MayScheduleStopped == ~paused                        \* mutant: a stop is not looked at
MaySchedule == ~stopFlag /\ ~paused

StartSettles ==
    /\ phase = "starting" /\ phase' = "running"
    /\ restartTimer' = (restartTimer \/ MaySchedule)
    /\ pump' = "reading"
    /\ UNCHANGED <<paused, consecutiveErrorRotations, rotationInFlight, active, prev,
                   open, live>>

(***************************************************************************)
(* _rotateStream up to the suspension.  A rotation that is in flight       *)
(* serves all who ask; one that fails arms the timer for another try.      *)
(***************************************************************************)
RotationOpens(gone) ==
    /\ rotationInFlight = "none" /\ rotationInFlight' = "handoff"
    /\ Opens(gone)
    /\ prev' = active /\ restartTimer' = FALSE

ForgetsRetry == FALSE                                \* mutant: the failure arms nothing
ArmsRetry == TRUE
RotationFails(gone) ==
    /\ rotationInFlight = "none" /\ rotationInFlight' = "failed"
    /\ CannotOpen(gone)
    /\ prev' = NoStream /\ restartTimer' = ArmsRetry

RotationShared(gone) ==
    /\ rotationInFlight # "none"
    /\ live' = live \ gone /\ open' = open \ gone
    /\ UNCHANGED <<rotationInFlight, active, prev, restartTimer>>

RotationBegins(gone) == RotationOpens(gone) \/ RotationFails(gone)

(* The rest of it: the handle replaced is closed, then the timer is armed. *)
ReplacedUnlessStopped == IF stopFlag THEN {} ELSE {prev}  \* mutant: a stop leaves it open
Replaced == {prev}
RotationSettles ==
    /\ rotationInFlight # "none" /\ rotationInFlight' = "none"
    /\ open' = open \ Replaced /\ prev' = NoStream
    /\ restartTimer' = (restartTimer \/ (rotationInFlight = "handoff" /\ MaySchedule))
    /\ UNCHANGED <<phase, paused, consecutiveErrorRotations, active, live, pump>>

TimerFires ==
    /\ restartTimer /\ phase # "starting"
    /\ RotationBegins({})
    /\ UNCHANGED <<phase, paused, consecutiveErrorRotations, pump>>

(***************************************************************************)
(* The callbacks of a stream, replaced ones included.  end and close       *)
(* without an error call nothing back.                                     *)
(***************************************************************************)
Transcript(s) ==
    /\ s \in live
    /\ consecutiveErrorRotations # 0 /\ consecutiveErrorRotations' = 0
    /\ UNCHANGED <<phase, paused, restartTimer, rotationInFlight, active, prev, open,
                   live, pump>>

Ends(s) ==
    /\ s \in live /\ live' = live \ {s} /\ open' = open \ {s}
    /\ UNCHANGED <<phase, paused, consecutiveErrorRotations, restartTimer,
                   rotationInFlight, active, prev, pump>>

ErrorIgnored(s) == (stopFlag \/ paused) /\ Ends(s)

TooManyErrors == consecutiveErrorRotations >= MaxConsecutiveErrorRotations
ErrorPauses(s) ==
    /\ ~stopFlag /\ ~paused /\ TooManyErrors
    /\ s \in live /\ live' = live \ {s} /\ open' = open \ {s}
    /\ consecutiveErrorRotations' = consecutiveErrorRotations + 1
    /\ paused' = TRUE /\ restartTimer' = FALSE
    /\ UNCHANGED <<phase, rotationInFlight, active, prev, pump>>

ErrorRotates(s) ==
    /\ ~stopFlag /\ ~paused /\ ~TooManyErrors
    /\ s \in live /\ (RotationBegins({s}) \/ RotationShared({s}))
    /\ consecutiveErrorRotations' = consecutiveErrorRotations + 1
    /\ UNCHANGED <<phase, paused, pump>>

(***************************************************************************)
(* The pump takes a chunk: it stops, or revives the recognition first, or  *)
(* writes.  write drops the chunk if there is no open stream.              *)
(***************************************************************************)
PumpStops ==
    /\ pump = "reading" /\ rotationInFlight = "none"
    /\ stopFlag /\ pump' = "done"
    /\ UNCHANGED <<phase, paused, consecutiveErrorRotations, restartTimer,
                   rotationInFlight, active, prev, open, live>>

NeverRevives == FALSE                                \* mutant: giving up for good
Revives == paused
PumpResumes ==
    /\ pump = "reading" /\ ~stopFlag /\ Revives
    /\ paused' = FALSE /\ consecutiveErrorRotations' = 0
    /\ RotationBegins({}) /\ pump' = "resuming"
    /\ UNCHANGED phase

Writes ==
    /\ rotationInFlight = "none"
    /\ pump = "resuming" \/ (pump = "reading" /\ ~stopFlag /\ ~Revives)
    /\ pump' = "reading"
    /\ UNCHANGED <<phase, paused, consecutiveErrorRotations, restartTimer,
                   rotationInFlight, active, prev, open, live>>

(***************************************************************************)
(* The function that start returned: it waits for a rotation in flight,    *)
(* then shuts the switcher down.                                           *)
(***************************************************************************)
Stop ==
    /\ phase = "running" /\ phase' = "stopping"
    /\ restartTimer' = FALSE
    /\ UNCHANGED <<paused, consecutiveErrorRotations, rotationInFlight, active, prev,
                   open, live, pump>>

ShutDown ==
    /\ phase = "stopping" /\ rotationInFlight = "none" /\ phase' = "stopped"
    /\ active' = NoStream /\ open' = open \ {active}
    /\ UNCHANGED <<paused, consecutiveErrorRotations, restartTimer, rotationInFlight,
                   prev, live, pump>>

(* No stream is left open, and paid for, when it is replaced.              *)
OneOpenStream == open \subseteq {active, prev}

(* While audio is consumed, the next rotation is always on its way.        *)
RotationIsComing ==
    phase = "running" /\ ~paused => restartTimer \/ rotationInFlight # "none"

(* While the rotations are paused, nothing will start one but audio.       *)
PauseHolds == paused => ~restartTimer
=============================================================================
