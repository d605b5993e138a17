------------------------------ MODULE SpanFeed ------------------------------
(***************************************************************************)
(* What the publish buffer promises its caller and its reader: a lossy but *)
(* ordered and accounted feed.  A span is delivered at most once and never *)
(* after a later one; it stops waiting only when it was delivered or is    *)
(* counted as lost.  (A span counted as lost may still be delivered: its   *)
(* last request can be under way when the buffer gives it up.)             *)
(***************************************************************************)
EXTENDS Naturals, Sequences

VARIABLES offered, waiting, lost, stream

feedVars == <<offered, waiting, lost, stream>>

Delivered == {stream[i] : i \in 1..Len(stream)}

FeedInit == offered = 0 /\ waiting = {} /\ lost = {} /\ stream = <<>>

(* Spans leave: each was delivered or is counted.                           *)
LeaveFrom(W) ==
    /\ waiting' \in SUBSET W
    /\ lost \subseteq lost' /\ lost' \subseteq lost \cup W
    /\ W \ waiting' \subseteq lost' \cup Delivered

Offer ==
    /\ offered' = offered + 1
    /\ LeaveFrom(waiting \cup {offered + 1})
    /\ UNCHANGED stream

Leave == LeaveFrom(waiting) /\ UNCHANGED <<offered, stream>>

Deliver ==
    /\ \E s \in 1..offered :
         /\ \A i \in 1..Len(stream) : stream[i] < s
         /\ stream' = Append(stream, s)
    /\ UNCHANGED <<offered, waiting, lost>>

FeedNext == Offer \/ Leave \/ Deliver

FeedSpec == FeedInit /\ [][FeedNext]_feedVars
=============================================================================
