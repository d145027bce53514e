-------------------------- MODULE MCPlaybackEngine --------------------------
(* Instances of PlaybackEngine for TLC. *)
EXTENDS PlaybackEngine

BothDirections == {1, -1}
ForwardOnly    == {1}
NoLoops        == {}
OneLoop        == {<<0, 2>>}
=============================================================================
