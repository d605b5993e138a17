----------------------------- MODULE SentenceFeed -----------------------------
(***************************************************************************)
(* What the sentence separator promises to who listens: the deltas of a    *)
(* session are spoken in the order they were offered, each once, a part of *)
(* one segment at a time, and nothing is left out - until it was           *)
(* disturbed, after which a part may stay behind, but still none is spoken *)
(* late or twice.  What is spoken is lost only when its push fails.        *)
(***************************************************************************)
EXTENDS Naturals, Sequences

VARIABLES
    deltas,     \* session and segment of each delta offered
    spoken,     \* deltas made part of a sentence
    lost,       \* deltas of sentences that could not be pushed
    disturbed   \* whether text may have been left behind

feedVars == <<deltas, spoken, lost, disturbed>>

Offered == 1..Len(deltas)
Waiting == Offered \ (spoken \cup lost)

(* All of part is of one segment of one session.                            *)
Together(part) == \A c, d \in part : deltas[c] = deltas[d]

(* It is the turn of part: all its session spoke before is older, and all   *)
(* that still waits is younger.                                             *)
InTurn(part) ==
    \A d \in part, c \in Offered \ part :
      deltas[c].session = deltas[d].session =>
        /\ c \notin Waiting => c < d
        /\ c \in Waiting => d < c \/ disturbed

FeedInit == deltas = <<>> /\ spoken = {} /\ lost = {} /\ disturbed = FALSE

Offer ==
    /\ Len(deltas') = Len(deltas) + 1
    /\ \A d \in Offered : deltas'[d] = deltas[d]
    /\ UNCHANGED <<spoken, lost, disturbed>>

Speak ==
    /\ \E part \in SUBSET Waiting :
         Together(part) /\ InTurn(part) /\ spoken' = spoken \cup part
    /\ UNCHANGED <<deltas, lost, disturbed>>

Lose ==
    /\ \E part \in SUBSET spoken :
         /\ Together(part)
         /\ spoken' = spoken \ part /\ lost' = lost \cup part
    /\ UNCHANGED <<deltas, disturbed>>

Disturb == disturbed' = TRUE /\ UNCHANGED <<deltas, spoken, lost>>

FeedNext == Offer \/ Speak \/ Lose \/ Disturb

FeedSpec == FeedInit /\ [][FeedNext]_feedVars
=============================================================================
