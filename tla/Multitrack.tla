----------------------------- MODULE Multitrack -----------------------------
(***************************************************************************)
(* The multitrack timeline (src/editor/multitrack_timeline.cpp): projects  *)
(* of tracks and clips, what makes one valid, and the edits of             *)
(* MultitrackTimeline. A project is a value, an edit the operator that     *)
(* gives the project after the call, which is the same one if it refuses.  *)
(* Times count in units of which Minimum make the shortest clip an edit    *)
(* may leave. Ids are sequences, so that "a-insert-tail" is made from "a". *)
(* The order of clips in a track decides nothing and is left out.          *)
(***************************************************************************)
EXTENDS Integers, Sequences, FiniteSets, FiniteSetsExt

CONSTANTS Minimum,
          Names    \* what ids are made of; also tracks, media and groups
NoGroup == "none"
ASSUME MultitrackAssumption == Minimum \in Nat \ {0} /\ NoGroup \in Names

(* A clip shows media from the instant from on, of which there are until.  *)
Clip == [id : Seq(Names), track : Names, audio : BOOLEAN, start : Int, length : Int,
         from : Int, until : Int, media : Names, group : Names, locked : BOOLEAN]
IsProject(p) ==
  /\ p = [tracks |-> p.tracks, clips |-> p.clips]
  /\ p.tracks \in [DOMAIN p.tracks -> [audio : BOOLEAN, locked : BOOLEAN]]
  /\ DOMAIN p.tracks \subseteq Names
  /\ p.clips \subseteq Clip /\ IsFiniteSet(p.clips)
  /\ \A c \in p.clips : c.track \in DOMAIN p.tracks

EndOf(c)       == c.start + c.length
Has(p, id)     == \E c \in p.clips : c.id = id
ClipOf(p, id)  == CHOOSE c \in p.clips : c.id = id
IdsOf(clips)   == {c.id : c \in clips}
Accepts(p, c)  == p.tracks[c.track].audio = c.audio
Intersect(c, d) == c.start < EndOf(d) /\ d.start < EndOf(c)

Valid(p) ==
  /\ \A c, d \in p.clips :
       c # d => c.id # d.id /\ ~ (c.track = d.track /\ Intersect(c, d))
  /\ \A c \in p.clips : /\ c.start >= 0 /\ c.length > 0 /\ c.from >= 0
                        /\ Accepts(p, c) /\ c.from + c.length <= c.until
Checked(p, q) == IF Valid(q) THEN q ELSE p

Free(p, c)   == ~ c.locked /\ ~ p.tracks[c.track].locked
Linked(p, c) == IF c.group = NoGroup THEN {c} ELSE {d \in p.clips : d.group = c.group}
Chosen(p, id, linked) ==
  IF linked THEN Linked(p, ClipOf(p, id)) ELSE {ClipOf(p, id)}
Swapped(p, old, new) == [p EXCEPT !.clips = (@ \ old) \union new]

---------------------------------------------------------------------------
AddTrack(p, k, audio) ==
  IF k \in DOMAIN p.tracks THEN p
  ELSE [p EXCEPT !.tracks = [j \in DOMAIN @ \union {k} |->
          IF j = k THEN [audio |-> audio, locked |-> FALSE] ELSE @[j]]]

AddClip(p, c) ==
  IF \/ c.track \notin DOMAIN p.tracks \/ ~ Free(p, c) \/ Has(p, c.id) THEN p
  ELSE Checked(p, [p EXCEPT !.clips = @ \union {c}])

RemoveClip(p, id, linked) ==
  IF \E c \in Chosen(p, id, linked) : ~ Free(p, c) THEN p
  ELSE Swapped(p, Chosen(p, id, linked), {})

LinkClips(p, a, b, group) ==
  LET pair == {ClipOf(p, a), ClipOf(p, b)}
  IN IF a = b \/ \E c \in pair : c.locked THEN p
     ELSE Swapped(p, pair, {[c EXCEPT !.group = group] : c \in pair})

UnlinkGroup(p, group) ==
  LET freed == {c \in p.clips : c.group = group /\ Free(p, c)}
  IN Swapped(p, freed, {[c EXCEPT !.group = NoGroup] : c \in freed})

(* Linked clips move by the same distance, cut off at zero one by one; the *)
(* track changes for the named clip alone. *)
MoveClip(p, id, k, start, linked) ==
  LET c      == ClipOf(p, id)
      moving == Chosen(p, id, linked)
      by     == Max({0, start}) - c.start
      Moved(d) == [d EXCEPT !.start = Max({0, @ + by}), !.track = IF d = c THEN k ELSE @]
  IN IF \/ p.tracks[k].locked \/ p.tracks[k].audio # c.audio
        \/ \E d \in moving : ~ Free(p, d)
     THEN p ELSE Checked(p, Swapped(p, moving, {Moved(d) : d \in moving}))

(* Mutant: the source does not follow the head of the clip. *)
TrimmedHead(c, s, e) == [c EXCEPT !.start = @ + s, !.length = @ + e]

(* A clip whose head moves by s and whose length changes by e.             *)
Trimmed(c, s, e) == [c EXCEPT !.start = @ + s, !.from = @ + s, !.length = @ + e]
TrimClip(p, id, start, end, linked) ==
  LET c     == ClipOf(p, id)
      items == Chosen(p, id, linked)
      cut   == {Trimmed(d, start - c.start, end - start - c.length) : d \in items}
  IN IF \/ start < 0 \/ end - start < Minimum
        \/ \E d \in items : ~ Free(p, d)
        \/ \E d \in cut : d.length < Minimum
     THEN p ELSE Checked(p, Swapped(p, items, cut))

(* The two parts of a clip at an instant inside it. *)
HeadOf(c, at)       == [c EXCEPT !.length = at - c.start]
TailOf(c, at, name) == [c EXCEPT !.id = Append(@, name), !.start = at,
                                 !.from = @ + at - c.start, !.length = EndOf(c) - at]
Inside(c, at)       == c.start < at /\ at < EndOf(c)

(* Linked clips that cannot be split there are passed over. Both parts of  *)
(* each stay in the group.                                                 *)
SplitClip(p, id, at, name, linked) ==
  LET items == {d \in Chosen(p, id, linked) : Free(p, d) /\ Inside(d, at)}
      tails == {TailOf(d, at, name) : d \in items}
  IN IF \/ ClipOf(p, id).locked \/ ~ Inside(ClipOf(p, id), at)
        \/ IdsOf(tails) \intersect IdsOf(p.clips) # {}
     THEN p ELSE Checked(p, Swapped(p, items, {HeadOf(d, at) : d \in items} \union tails))

RippleMove(p, id, start) ==
  LET c     == ClipOf(p, id)
      items == {d \in p.clips : d.track = c.track /\ d.start >= c.start}
      by    == Max({0, start}) - c.start
  IN IF ~ Free(p, c) THEN p
     ELSE Checked(p, Swapped(p, items, {[d EXCEPT !.start = @ + by] : d \in items}))

(* src/editor/timeline_track_removal.cpp; a clip linked to one of the      *)
(* track goes with it only under that policy.                              *)
RemoveTrack(p, k, policy) ==
  LET own    == {c \in p.clips : c.track = k}
      others == IF policy = "clips and linked" THEN UNION {Linked(p, c) : c \in own} ELSE {}
      rest   == DOMAIN p.tracks \ {k}
  IN IF \/ p.tracks[k].locked
        \/ own # {} /\ policy = "reject if not empty"
        \/ \E c \in own : c.locked
        \/ \E c \in others : ~ Free(p, c)
     THEN p ELSE [tracks |-> [j \in rest |-> p.tracks[j]], clips |-> p.clips \ (own \union others)]
=============================================================================
