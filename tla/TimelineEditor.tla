--------------------------- MODULE TimelineEditor ---------------------------
(***************************************************************************)
(* The professional timeline editor (src/editor/timeline_editing_suite.cpp *)
(* with the history of src/editor/professional_timeline_suite.cpp): edits  *)
(* of a Multitrack project that ripple, overwrite, roll, slip, slide and   *)
(* nest clips, over undo, redo and transactions. Before the first of them  *)
(* the host prepares the project with the calls of MultitrackTimeline.     *)
(***************************************************************************)
EXTENDS Multitrack, SequencesExt

CONSTANTS Projects,                    \* what the host starts with
          Positions, Lengths, Deltas,  \* arguments of the host
          HistoryLimit,
          UndoInTransaction,           \* the host may undo inside a transaction
          MaxEdits, MaxHostCalls       \* bounds

(* The host starts with a valid project, as it was opened or built call by *)
(* call, and asks for no negative instant, which every edit refuses or     *)
(* takes for zero. TimelineHistory keeps one entry at least.               *)
ASSUME EditorAssumption ==
  /\ \A p \in Projects : IsProject(p) /\ Valid(p)
  /\ Positions \subseteq Nat /\ Lengths \subseteq Int /\ Deltas \subseteq Int
  /\ HistoryLimit \in Nat \ {0}
  /\ {"insert-tail", "overwrite-tail", "second", "new", "compound", "linked", "added"} \subseteq Names

VARIABLES project, undo, redo, base,   \* project_, history_, transaction_base_
          compound,                    \* what make_compound returned to the host
          opened, last, edits, hostCalls   \* the host; last = the edit just made
editorVars == <<project, undo, redo, base, compound, opened, last, edits, hostCalls>>

None == [kind |-> "none"]

EditorInit ==
  /\ project \in Projects
  /\ undo = <<>> /\ redo = <<>> /\ base = <<>> /\ compound = {}
  /\ opened = FALSE /\ last = None /\ edits = 0 /\ hostCalls = 0

(* An edit ends before it is recorded, or is recorded and then changes the *)
(* project or puts it back.                                                *)
Refused(p)  == [recorded |-> FALSE, project |-> p]
Tried(q)    == [recorded |-> TRUE, project |-> q]
Unlocked(p) == {k \in DOMAIN p.tracks : ~ p.tracks[k].locked}
OnTrack(p, k)      == {c \in p.clips : c.track = k}
LongEnough(clips)  == {c \in clips : c.length >= Minimum}

(* The clips of track k that start at or after an instant, moved by.       *)
Shifted(p, tracks, from, by) ==
  LET moved == {c \in p.clips : c.track \in tracks /\ c.start >= from}
  IN Swapped(p, moved, {[c EXCEPT !.start = @ + by] : c \in moved})

---------------------------------------------------------------------------
(* What becomes of an existing clip: insert opens room at an instant,      *)
(* overwrite clears a range. Parts that are too short are dropped.         *)
Opened(c, at, length) ==
  IF c.start >= at THEN {[c EXCEPT !.start = @ + length]}
  ELSE IF EndOf(c) <= at THEN {c}
  ELSE LongEnough({HeadOf(c, at), [TailOf(c, at, "insert-tail") EXCEPT !.start = @ + length]})

Cleared(c, start, end) ==
  IF EndOf(c) <= start \/ c.start >= end THEN {c}
  ELSE LongEnough((IF c.start < start THEN {HeadOf(c, start)} ELSE {})
                    \union (IF EndOf(c) > end THEN {TailOf(c, end, "overwrite-tail")} ELSE {}))

InsertClip(p, c, mode) ==
  LET own == OnTrack(p, c.track)
      Parts(d) == IF mode = "insert" THEN Opened(d, c.start, c.length)
                  ELSE Cleared(d, c.start, EndOf(c))
  IN IF p.tracks[c.track].locked \/ c.length < Minimum \/ Has(p, c.id) THEN Refused(p)
     ELSE Tried(Checked(p, Swapped(p, own, (UNION {Parts(d) : d \in own}) \union {c})))

(* Linked clips on locked tracks stay behind. *)
Lift(p, id, linked) ==
  LET q == Swapped(p, {c \in Chosen(p, id, linked) : c.track \in Unlocked(p)}, {})
  IN Tried(IF Has(q, id) THEN p ELSE q)

RippleDelete(p, id, linked) ==
  LET c == ClipOf(p, id)
      q == Lift(p, id, linked).project
  IN Tried(IF q = p THEN p ELSE Checked(p, Shifted(q, Unlocked(p), EndOf(c), - c.length)))

CloseGap(p, k, start, end) ==
  IF \/ p.tracks[k].locked
     \/ \E c \in OnTrack(p, k) : c.start < end /\ EndOf(c) > start
  THEN Refused(p) ELSE Tried(Checked(p, Shifted(p, Unlocked(p), end, start - end)))

(* The cut between two clips moves; neither has to be unlocked, nor need   *)
(* they be on one track. *)
Roll(p, left, right, cut) ==
  LET l == ClipOf(p, left)
      r == ClipOf(p, right)
      new == {HeadOf(l, cut), Trimmed(r, cut - r.start, r.start - cut)}
  IN IF EndOf(l) # r.start \/ cut <= l.start \/ cut >= EndOf(r) THEN Refused(p)
     ELSE Tried(IF LongEnough(new) # new THEN p ELSE Checked(p, Swapped(p, {l, r}, new)))

Slip(p, id, by) ==
  LET c == ClipOf(p, id)
      new == [c EXCEPT !.from = @ + by]
  IN IF c.locked THEN Refused(p)
     ELSE Tried(IF new.from < 0 \/ new.from + new.length > new.until THEN p
                ELSE Swapped(p, {c}, {new}))

(* A clip moves between the neighbours it touches on both sides.           *)
Slide(p, id, by) ==
  LET c == ClipOf(p, id)
      before == {d \in OnTrack(p, c.track) : EndOf(d) = c.start}
      after  == {d \in OnTrack(p, c.track) : d.start = EndOf(c)}
      outer  == {HeadOf(d, EndOf(d) + by) : d \in before} \union {Trimmed(d, by, - by) : d \in after}
      new    == outer \union {[c EXCEPT !.start = @ + by]}
  IN IF p.tracks[c.track].locked \/ before = {} \/ after = {} THEN Refused(p)
     ELSE Tried(IF LongEnough(outer) # outer THEN p
                ELSE Checked(p, Swapped(p, before \union {c} \union after, new)))

(* The clips of some ids become one: nested, they count from their first   *)
(* instant. They leave locked tracks as well.                              *)
CompoundId == <<"compound">>
Nested(p, ids) ==
  LET clips == {c \in p.clips : c.id \in ids}
      first == Min({c.start : c \in clips})
  IN {[c EXCEPT !.start = @ - first] : c \in clips}
MakeCompound(p, ids, k) ==
  LET clips  == {c \in p.clips : c.id \in ids}
      first  == Min({c.start : c \in clips})
      length == Max({EndOf(c) : c \in clips}) - first
      clip   == [id |-> CompoundId, track |-> k, audio |-> FALSE, start |-> first,
                 length |-> length, from |-> 0, until |-> length, media |-> "compound",
                 group |-> NoGroup, locked |-> FALSE]
  IN IF Has(p, CompoundId) \/ p.tracks[k].locked THEN Refused(p)
     ELSE Tried(Checked(p, Swapped(p, clips, {clip})))

(* Nested clips return to their own tracks, or to track k where those are  *)
(* locked or gone; an id that is in use again refuses them all.            *)
BreakApart(p, nested, id, k) ==
  LET rest == Swapped(p, {ClipOf(p, id)}, {})
      Home(d) == IF d.track \in Unlocked(p) THEN d.track ELSE k
      back == {[d EXCEPT !.start = @ + ClipOf(p, id).start, !.track = Home(d)] : d \in nested}
  IN IF p.tracks[k].locked THEN Refused(p)
     ELSE Tried(IF IdsOf(back) \intersect IdsOf(rest.clips) # {} THEN p
                ELSE Checked(p, Swapped(rest, {}, back)))

---------------------------------------------------------------------------
Recent(s) == IF Len(s) > HistoryLimit THEN Tail(s) ELSE s

(* Mutant: what was undone stays when something new is recorded. *)
RecordedOnly ==
  IF base # <<>> THEN UNCHANGED <<undo, redo>>
  ELSE undo' = Recent(Append(undo, project)) /\ UNCHANGED redo

(* record_history: the project before the edit, unless a transaction will  *)
(* record what it began with. *)
Recorded ==
  IF base # <<>> THEN UNCHANGED <<undo, redo>>
  ELSE undo' = Recent(Append(undo, project)) /\ redo' = <<>>

(* A call e of the editor that came to r. One that failed after it was     *)
(* recorded leaves a useless entry in the history.                         *)
Edits(e, r) ==
  /\ edits < MaxEdits /\ hostCalls < MaxHostCalls /\ hostCalls' = hostCalls + 1 /\ opened' = TRUE
  /\ r.recorded /\ Recorded
  /\ project' = r.project
  /\ IF r.project = project THEN last' = None /\ UNCHANGED edits
     ELSE last' = e /\ edits' = edits + 1
  /\ UNCHANGED base
Edit(e, r) == Edits(e, r) /\ UNCHANGED compound

Ids == IdsOf(project.clips)
Tracks == DOMAIN project.tracks
NewClip(k, start, length) ==
  [id |-> <<"new">>, track |-> k, audio |-> project.tracks[k].audio, start |-> start,
   length |-> length, from |-> 1, until |-> length + 2, media |-> "new",
   group |-> NoGroup, locked |-> FALSE]

InsertOrOverwrite == \E k \in Tracks, start \in Positions, length \in Lengths,
                        mode \in {"insert", "overwrite"} :
  LET c == NewClip(k, start, length)
  IN Edit([before |-> project, kind |-> mode, clip |-> c], InsertClip(project, c, mode))
LiftClip == \E id \in Ids, linked \in BOOLEAN :
  Edit([before |-> project, kind |-> "lift", id |-> id, linked |-> linked],
       Lift(project, id, linked))
RippleDeleteClip == \E id \in Ids, linked \in BOOLEAN :
  Edit([before |-> project, kind |-> "ripple delete", id |-> id, linked |-> linked],
       RippleDelete(project, id, linked))
CloseGapOnTrack == \E k \in Tracks, start, end \in Positions :
  /\ start < end
  /\ Edit([before |-> project, kind |-> "close gap", track |-> k, start |-> start, end |-> end],
          CloseGap(project, k, start, end))
RollClips == \E l, r \in Ids, cut \in Positions :
  Edit([before |-> project, kind |-> "roll", left |-> l, right |-> r, cut |-> cut],
       Roll(project, l, r, cut))
SlipClip == \E id \in Ids, by \in Deltas :
  Edit([before |-> project, kind |-> "slip", id |-> id, by |-> by], Slip(project, id, by))
SlideClip == \E id \in Ids, by \in Deltas :
  Edit([before |-> project, kind |-> "slide", id |-> id, by |-> by], Slide(project, id, by))
Compound == \E ids \in (SUBSET Ids) \ {{}}, k \in Tracks :
  LET r == MakeCompound(project, ids, k)
  IN /\ Edits([before |-> project, kind |-> "compound", ids |-> ids, track |-> k], r)
     /\ compound' = IF r.project # project THEN Nested(project, ids) ELSE compound
BreakCompound == \E id \in Ids, k \in Tracks :
  /\ compound # {}
  /\ Edit([before |-> project, kind |-> "break", id |-> id, track |-> k],
          BreakApart(project, compound, id, k))

(* The history and the transaction. A host undoes between transactions.    *)
Call == hostCalls < MaxHostCalls /\ hostCalls' = hostCalls + 1 /\ opened' = TRUE /\ last' = None
UndoEdit ==
  /\ Call /\ (UndoInTransaction \/ base = <<>>) /\ undo # <<>>
  /\ project' = Last(undo) /\ undo' = Front(undo) /\ redo' = Append(redo, project)
  /\ UNCHANGED <<base, compound, edits>>
RedoEdit ==
  /\ Call /\ (UndoInTransaction \/ base = <<>>) /\ redo # <<>>
  /\ project' = Last(redo) /\ redo' = Front(redo) /\ undo' = Append(undo, project)
  /\ UNCHANGED <<base, compound, edits>>
BeginTransaction ==
  /\ Call /\ base = <<>> /\ base' = <<project>>
  /\ UNCHANGED <<project, undo, redo, compound, edits>>
CommitTransaction ==
  /\ Call /\ base # <<>> /\ base' = <<>>
  /\ undo' = Recent(Append(undo, base[1])) /\ redo' = <<>>
  /\ UNCHANGED <<project, compound, edits>>
RollbackTransaction ==
  /\ Call /\ base # <<>> /\ base' = <<>> /\ project' = base[1]
  /\ UNCHANGED <<undo, redo, compound, edits>>

(* The calls of MultitrackTimeline, before the project goes to an editor.  *)
Prepare(e, q) ==
  /\ ~ opened /\ edits < MaxEdits /\ hostCalls < MaxHostCalls
  /\ q # project /\ edits' = edits + 1 /\ hostCalls' = hostCalls + 1
  /\ project' = q /\ last' = e
  /\ UNCHANGED <<undo, redo, base, compound, opened>>

PrepareTracks ==
  \/ \E audio \in BOOLEAN :
       Prepare([before |-> project, kind |-> "add track"], AddTrack(project, "added", audio))
  \/ \E k \in Tracks, policy \in {"reject if not empty", "clips", "clips and linked"} :
       Prepare([before |-> project, kind |-> "remove track"], RemoveTrack(project, k, policy))
PrepareClips ==
  \/ \E k \in Tracks, start \in Positions, length \in Lengths :
       Prepare([before |-> project, kind |-> "add clip"],
               AddClip(project, NewClip(k, start, length)))
  \/ \E id \in Ids, linked \in BOOLEAN :
       Prepare([before |-> project, kind |-> "remove clip"], RemoveClip(project, id, linked))
  \/ \E id \in Ids, k \in Tracks, start \in Positions, linked \in BOOLEAN :
       Prepare([before |-> project, kind |-> "move", id |-> id, track |-> k, start |-> start],
               MoveClip(project, id, k, start, linked))
  \/ \E id \in Ids, start \in Positions, length \in Lengths, linked \in BOOLEAN :
       Prepare([before |-> project, kind |-> "trim", id |-> id, linked |-> linked,
                start |-> start, length |-> length],
               TrimClip(project, id, start, start + length, linked))
  \/ \E id \in Ids, at \in Positions, linked \in BOOLEAN :
       Prepare([before |-> project, kind |-> "split"], SplitClip(project, id, at, "second", linked))
  \/ \E id \in Ids, start \in Positions :
       Prepare([before |-> project, kind |-> "ripple move", id |-> id, start |-> start],
               RippleMove(project, id, start))
PrepareLinks ==
  \/ \E a, b \in Ids :
       Prepare([before |-> project, kind |-> "link"], LinkClips(project, a, b, "linked"))
  \/ \E c \in project.clips :
       Prepare([before |-> project, kind |-> "unlink"], UnlinkGroup(project, c.group))

EditorNext ==
  \/ PrepareTracks \/ PrepareClips \/ PrepareLinks
  \/ InsertOrOverwrite \/ LiftClip \/ RippleDeleteClip \/ CloseGapOnTrack
  \/ RollClips \/ SlipClip \/ SlideClip \/ Compound \/ BreakCompound
  \/ UndoEdit \/ RedoEdit \/ BeginTransaction \/ CommitTransaction \/ RollbackTransaction

EditorSpec == EditorInit /\ [][EditorNext]_editorVars

---------------------------------------------------------------------------
(* What a viewer sees: the instant of which medium clips show at instant t *)
(* of track k, and all that a track shows.                                 *)
Picture(c, t)  == <<c.media, c.from + t - c.start>>
At(clips, t)   == {Picture(c, t) : c \in {c \in clips : c.start <= t /\ t < EndOf(c)}}
Shown(p, k, t) == At(OnTrack(p, k), t)
Instants(p)    == 0..Max({0} \union {EndOf(c) : c \in p.clips})
Film(p, k)     == UNION {Shown(p, k, t) : t \in Instants(p)}

(* Instant t of track k falls in the part of a clip that one of the cuts   *)
(* makes too short to keep. *)
Sliver(p, k, cuts, t) ==
  \E c \in OnTrack(p, k), at \in cuts :
    /\ Inside(c, at)
    /\ \/ t \in c.start..at - 1    /\ at - c.start < Minimum
       \/ t \in at..EndOf(c) - 1   /\ EndOf(c) - at < Minimum

(* What is seen at instant t of track k after inserting or overwriting.    *)
AfterInsert(e, k, t) ==
  LET c == e.clip
      u == IF e.kind = "insert" /\ t >= EndOf(c) THEN t - c.length ELSE t
      cuts == {c.start} \union (IF e.kind = "overwrite" THEN {EndOf(c)} ELSE {})
  IN IF k # c.track THEN Shown(e.before, k, t)
     ELSE IF c.start <= t /\ t < EndOf(c) THEN {Picture(c, t)}
     ELSE IF Sliver(e.before, k, cuts, u) THEN {} ELSE Shown(e.before, k, u)

(* Instants from at on move to the front by some; on other tracks a clip   *)
(* that lies across the range keeps its place.                             *)
AfterRipple(w, at, by, own, k, t) ==
  IF t < at \/ w.tracks[k].locked THEN {Shown(w, k, t)}
  ELSE {Shown(w, k, t + by)} \union (IF k = own THEN {} ELSE {Shown(w, k, t)})

(* The cut between clips moves from one place to another.                  *)
AfterRoll(e, k, t) ==
  LET p == e.before
      l == ClipOf(p, e.left)
      r == ClipOf(p, e.right)
  IN At(OnTrack(p, k) \ {l, r}, t)
       \union (IF k = l.track /\ l.start <= t /\ t < e.cut THEN {Picture(l, t)} ELSE {})
       \union (IF k = r.track /\ e.cut <= t /\ t < EndOf(r) THEN {Picture(r, t)} ELSE {})

(* The neighbours of a clip that slides show more and less of their media  *)
(* in place, the clip itself the same as before somewhere else.            *)
AfterSlide(e, k, t) ==
  LET p == e.before
      c == ClipOf(p, e.id)
      own == OnTrack(p, k)
      l == CHOOSE d \in own : EndOf(d) = c.start
      r == CHOOSE d \in own : d.start = EndOf(c)
  IN IF k # c.track \/ t < l.start \/ t >= EndOf(r) THEN Shown(p, k, t)
     ELSE IF t < c.start + e.by THEN {Picture(l, t)}
     ELSE IF t < EndOf(c) + e.by THEN {Picture(c, t - e.by)} ELSE {Picture(r, t)}

(* Clips of one group end up with the same new edges where they had the    *)
(* same; everything keeps its place on the timeline.                       *)
AfterTrim(e, k, t) ==
  LET p == e.before
      c == ClipOf(p, e.id)
      items == Chosen(p, e.id, e.linked)
      s == e.start - c.start
      len(d) == d.length + e.length - c.length
  IN At(OnTrack(p, k) \ items, t)
       \union {Picture(d, t) : d \in {d \in items : /\ d.track = k
                                                    /\ d.start + s <= t /\ t < d.start + s + len(d)}}

AfterSlip(e, k, t) ==
  LET c == ClipOf(e.before, e.id)
  IN IF k = c.track /\ c.start <= t /\ t < EndOf(c)
     THEN {<<c.media, c.from + t - c.start + e.by>>} ELSE Shown(e.before, k, t)

AfterCompound(e, k, t) ==
  LET clips == {c \in e.before.clips : c.id \in e.ids}
      rest  == At(OnTrack(e.before, k) \ clips, t)
      first == Min({c.start : c \in clips})
  IN IF k = e.track /\ first <= t /\ t < Max({EndOf(c) : c \in clips})
     THEN {<<"compound", t - first>>} ELSE rest

(* A timeline stays valid, and an edit shows, instant by instant on every  *)
(* track, what its name promises of what was seen before and nothing else: *)
(* no edit loses, repeats or shifts a picture it is not about, whatever    *)
(* clip start, source start and duration each has to change for that       *)
(* (insert_clip, roll_edit, slide_edit, trim_clip and the others).         *)
EditsShowTheRest ==
  LET e == last
      p == e.before
      Sees(After(_, _, _)) == \A k \in Tracks : \A t \in Instants(p) \union Instants(project) :
                                Shown(project, k, t) = After(e, k, t)
      Ripples(w, at, by, own) ==
        \A k \in Tracks : /\ Film(project, k) = Film(w, k)
                          /\ \A t \in Instants(w) \union Instants(project) :
                               Shown(project, k, t) \in AfterRipple(w, at, by, own, k, t)
      WithoutLifted == Swapped(p, {c \in Chosen(p, e.id, e.linked) : c.track \in Unlocked(p)}, {})
  IN /\ Valid(project)
     /\ CASE e.kind \in {"insert", "overwrite"} -> Sees(AfterInsert)
          [] e.kind = "roll"     -> Sees(AfterRoll)
          [] e.kind = "slide"    -> Sees(AfterSlide)
          [] e.kind = "slip"     -> Sees(AfterSlip)
          [] e.kind = "trim"     -> Sees(AfterTrim)
          [] e.kind = "compound" ->
               /\ Sees(AfterCompound)
               /\ \A k \in Unlocked(p) :
                    (\A c \in p.clips : c.id \in e.ids => c.track \in Unlocked(p))
                      => BreakApart(project, compound, CompoundId, k).project = p
          [] e.kind \in {"split", "link", "unlink", "add track"} ->
               \A k \in DOMAIN p.tracks : \A t \in Instants(p) : Shown(project, k, t) = Shown(p, k, t)
          [] e.kind = "close gap" -> Ripples(p, e.start, e.end - e.start, e.track)
          [] e.kind = "ripple delete" ->
               LET c == ClipOf(p, e.id) IN Ripples(WithoutLifted, c.start, c.length, c.track)
          [] e.kind = "move" ->
               /\ ClipOf(project, e.id).start = e.start
               /\ UNION {Film(project, k) : k \in Tracks} = UNION {Film(p, k) : k \in Tracks}
          [] OTHER -> TRUE

---------------------------------------------------------------------------
(* Entries that change nothing, the traces of edits that failed and of     *)
(* empty transactions, count for nothing; in a transaction the document is *)
(* the one it began with.                                                  *)
Document == IF base = <<>> THEN project ELSE base[1]
Distinct(s) ==
  LET kept[n \in 0..Len(s)] ==
        IF n = 0 THEN <<>>
        ELSE IF n > 1 /\ s[n] = s[n - 1] THEN kept[n - 1] ELSE Append(kept[n - 1], s[n])
  IN kept[Len(s)]

History == INSTANCE EditHistory WITH
  document <- Document,
  past     <- Front(Distinct(Append(undo, Document))),
  future   <- Front(Distinct(Append(redo, Document)))

(* Refinement: whatever edits fail and whatever is committed or rolled     *)
(* back, undo and redo retrace the documents the edits made, one by one    *)
(* and none twice (undo, redo, record_history, the transactions).          *)
ImplementsEditHistory == History!Spec
=============================================================================
