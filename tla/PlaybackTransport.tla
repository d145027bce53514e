-------------------------- MODULE PlaybackTransport --------------------------
(***************************************************************************)
(* PlaybackTransport (src/audio/playback_transport.cpp): the clock of a    *)
(* playback session as a record, and what each of its operations makes of  *)
(* it.  Positions are counted in frame intervals.  Between two operations  *)
(* a playing transport moves with the host's clock (Moved); the small      *)
(* correction_us_ of update_audio_clock, less than a frame, is left out.   *)
(***************************************************************************)
EXTENDS Integers

CONSTANTS
  Duration,       \* duration_us_
  Rates           \* the rates set_rate is called with

ASSUME TransportAssumption ==
  /\ Duration \in Nat
  /\ Rates \subseteq Int \ {0} /\ 1 \in Rates

TransportStates == {"stopped", "playing", "paused", "seeking", "completed"}

Transport == [state : TransportStates, position : 0..Duration, rate : Rates,
              seekGeneration : Nat]

InitTransport ==
  [state |-> "stopped", position |-> 0, rate |-> 1, seekGeneration |-> 0]

Clamp(p) == IF p < 0 THEN 0 ELSE IF p > Duration THEN Duration ELSE p

(* The far end in the direction of a rate is where playback completes, the  *)
(* near end where it starts over.                                           *)
AtEnd(rate, p) == IF rate < 0 THEN p = 0 ELSE p = Duration
Start(rate)    == IF rate < 0 THEN Duration ELSE 0

TransportPlay(t) ==
  [t EXCEPT !.state = "playing",
            !.position = IF t.state = "completed" THEN Start(t.rate) ELSE @]

TransportPause(t) == [t EXCEPT !.state = "paused"]

TransportStop(t) == [t EXCEPT !.state = "stopped", !.position = 0]

TransportSeek(t, p) ==
  [t EXCEPT !.state = IF AtEnd(t.rate, Clamp(p)) THEN "completed" ELSE "seeking",
            !.position = Clamp(p),
            !.seekGeneration = @ + 1]

TransportSetRate(t, rate) == [t EXCEPT !.rate = rate]

(* position_us after n more intervals of the host's clock. *)
Moved(t, n) == [t EXCEPT !.position = Clamp(t.position + n * t.rate)]
=============================================================================
