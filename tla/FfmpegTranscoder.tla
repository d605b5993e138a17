--------------------------- MODULE FfmpegTranscoder ---------------------------
(***************************************************************************)
(* The transcoder of the RTMP pipeline (adapters/FfmpegTranscoder.ts): one *)
(* ffmpeg child pulls the publisher's stream; a child that exits or stalls *)
(* is replaced after a delay, or at once when the publisher returns.       *)
(*                                                                         *)
(* This module has the state and the handlers; RtmpPipeline puts them      *)
(* together with the consumer of the audio and the publisher.  Delays are  *)
(* not measured (a timer that runs may fire), so the back-off, which       *)
(* only sets a delay, is left out.  A child is external, and its identity  *)
(* is used again once it is gone.                                          *)
(***************************************************************************)
EXTENDS FiniteSets

CONSTANTS
    Children,   \* bound: the children not yet gone at once
    NoChild

ASSUME ChildAssumption == NoChild \notin Children

VARIABLES
    transcoding,     \* "no", "yes", or "stopped" (the closure's stopped)
    childProcess,    \* the child that was spawned last, unless disposed of
    running,         \* external: the children that run
    wedged,          \* external: those that will never make progress again
    killed,          \* killedChildren
    restartPending,  \* whether restartTimer and restartAction are set
    stale            \* no progress for 10 s, and 15 s since the spawn

ffVars == <<transcoding, childProcess, running, wedged, killed, restartPending, stale>>

FfTypeOK ==
    /\ transcoding \in {"no", "yes", "stopped"}
    /\ childProcess \in Children \cup {NoChild}
    /\ running \subseteq Children /\ wedged \subseteq running
    /\ killed \subseteq running
    /\ restartPending \in BOOLEAN /\ stale \in BOOLEAN

FfInit ==
    /\ transcoding = "no" /\ childProcess = NoChild
    /\ running = {} /\ wedged = {} /\ killed = {}
    /\ restartPending = FALSE /\ stale = FALSE

(* attachTranscoder: a new child, whose grace period starts now.           *)
FreeChildren == Children \ (running \cup {childProcess})
Attach ==
    /\ FreeChildren # {}
    /\ LET c == CHOOSE c \in FreeChildren : TRUE
       IN  childProcess' = c /\ running' = running \cup {c}
    /\ stale' = FALSE

(* disposeChild: SIGTERM now and SIGKILL after 2 s, to a child that may    *)
(* already be gone.                                                        *)
DisposeChild == killed' = killed \cup (running \cap {childProcess})

StartTranscoder ==
    /\ transcoding = "no" /\ transcoding' = "yes"
    /\ Attach
    /\ UNCHANGED <<wedged, killed, restartPending>>

(* stderr reports progress, of whatever child.                             *)
Progress(c) ==
    /\ c \in running \ wedged
    /\ stale' = FALSE
    /\ UNCHANGED <<transcoding, childProcess, running, wedged, killed, restartPending>>

(* Time passes without progress.                                           *)
GrowsStale ==
    /\ transcoding = "yes" /\ ~stale
    /\ stale' = TRUE
    /\ UNCHANGED <<transcoding, childProcess, running, wedged, killed, restartPending>>

(* The interval of the health check.  A restart that is already pending    *)
(* stays as it is, and one asked for is not called off by later progress.  *)
HealthCheck ==
    /\ transcoding = "yes" /\ stale /\ ~restartPending
    /\ restartPending' = TRUE
    /\ UNCHANGED <<transcoding, childProcess, running, wedged, killed, stale>>

(* The close event of a child: restart, unless it was killed from here.    *)
AsksRestart(c) == transcoding = "yes" /\ c \notin killed
Exit(c) ==
    /\ c \in running
    /\ running' = running \ {c} /\ wedged' = wedged \ {c} /\ killed' = killed \ {c}
    /\ restartPending' = (restartPending \/ AsksRestart(c))
    /\ UNCHANGED <<transcoding, childProcess, stale>>

(* The restart timer fires, or restartNow runs its action early.           *)
Restart ==
    /\ restartPending /\ restartPending' = FALSE
    /\ DisposeChild /\ Attach
    /\ UNCHANGED <<transcoding, wedged>>

StopTranscoder ==
    /\ transcoding = "yes" /\ transcoding' = "stopped"
    /\ DisposeChild /\ childProcess' = NoChild
    /\ restartPending' = FALSE
    /\ UNCHANGED <<running, wedged, stale>>

(* Of the children only the last one spawned runs without having been told *)
(* to end.                                                                 *)
OneLiveChild == running \ killed \subseteq {childProcess}

(* A transcoder that is not stopped and has no child will get one.         *)
ChildIsReplaced == transcoding = "yes" /\ childProcess \notin running => restartPending
=============================================================================
