------------------------ MODULE MCTimelinePlayback ------------------------
(* Instances of TimelinePlayback for TLC. *)
EXTENDS TimelinePlayback

CONSTANTS c1, c2, t1

NoneRefused == {}
LastRefused == {<<MaxRevision, t1>>}   \* an edit that cut the timeline short

(* What the publisher held when the session was made, if anything, is      *)
(* called revision 1: only the order of revisions matters.                 *)
MCInit == Init /\ published <= 1
MCSpec == MCInit /\ [][Next]_vars /\ Fairness
===========================================================================
