--------------------------- MODULE LatestRequest ---------------------------
(***************************************************************************)
(* What the two playback workers of the engine promise: requests and       *)
(* invalidations draw numbers; the worker looks at the newest number and   *)
(* may then complete that one, once.  A completion is never for a request  *)
(* that was already superseded when the worker last looked, and never for  *)
(* one at or before the last completed.  TimelinePlayback and              *)
(* PlaybackScheduler implement it with queues, epochs and caches.          *)
(***************************************************************************)
EXTENDS Naturals

VARIABLES latest,     \* the newest number drawn
          claimed,    \* the number the worker found to be the newest, or 0
          completed   \* the last number completed

vars == <<latest, claimed, completed>>

Init == latest = 0 /\ claimed = 0 /\ completed = 0

Draw == latest' = latest + 1 /\ UNCHANGED <<claimed, completed>>

Claim == /\ claimed = 0 /\ latest > completed
         /\ claimed' = latest /\ UNCHANGED <<latest, completed>>

Complete == /\ claimed # 0
            /\ completed' = claimed /\ claimed' = 0 /\ UNCHANGED latest

\* The worker sees that the request was superseded after all, or was stopped.
Abandon == claimed # 0 /\ claimed' = 0 /\ UNCHANGED <<latest, completed>>

Next == Draw \/ Claim \/ Complete \/ Abandon

Spec == Init /\ [][Next]_vars
=============================================================================
