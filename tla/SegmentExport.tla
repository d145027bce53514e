---------------------------- MODULE SegmentExport ----------------------------
(***************************************************************************)
(* ResumableSegmentExport (src/render/resumable_segment_export.cpp): an    *)
(* export that renders segments to files, checkpoints a manifest after     *)
(* each, joins them, and is resumed from the manifest by a later process.  *)
(*                                                                         *)
(* What a file holds is Absent, Torn, or the revision of the timeline it   *)
(* was rendered from.  Every file operation is a step, a crash may come    *)
(* between any two, and cancel_requested_ may be raised at any moment.     *)
(* The host opens a session from the manifest when that is of the revision *)
(* it wants and plans anew otherwise; revisions only grow.                 *)
(***************************************************************************)
EXTENDS Integers

CONSTANTS
  N,              \* segments of the plan
  MaxRevision,    \* bound: edits of the timeline
  MaxFaults       \* bound: crashes, failures, cleaned files and cancels

ASSUME SegmentAssumption ==
  /\ N \in Nat \ {0} /\ MaxRevision \in Nat \ {0} /\ MaxFaults \in Nat

Segments  == 1..N
Revisions == 1..MaxRevision
Absent    == 0
Torn      == -1
Contents  == {Absent, Torn} \cup Revisions

NoManifest == [revision |-> 0, done |-> {}]

VARIABLES
  segFile, segPartial,   \* files: each segment, and its .partial
  output, outPartial,    \* files: output_path and its .partial
  manifestFile,          \* file: manifest_path, NoManifest when missing
  saved,                 \* history: a checkpoint has been written
  published,             \* history: an output has been written
  wanted,                \* revision the host wants exported
  pc,                    \* where run() is; "down": no process
  revision, done,        \* manifest_: revision and completed segments
  seg,                   \* segment of run()'s loop
  cancel, state,         \* cancel_requested_, snapshot_.state
  after,                 \* where run() goes after persist()
  faults                 \* spent of MaxFaults

files == <<segFile, segPartial, output, outPartial, manifestFile, saved, published>>
session == <<revision, done, seg, cancel, state, after>>
vars == <<files, wanted, pc, session, faults>>

Fault == faults < MaxFaults /\ faults' = faults + 1

NoSession ==
  /\ pc' = "down" /\ revision' = 0 /\ done' = {} /\ seg' = 1
  /\ cancel' = FALSE /\ state' = "idle" /\ after' = "ready"

Init ==
  /\ segFile = [s \in Segments |-> Absent] /\ segPartial = [s \in Segments |-> Absent]
  /\ output = Absent /\ outPartial = Absent
  /\ manifestFile = NoManifest /\ saved = FALSE /\ published = FALSE
  /\ wanted = 1 /\ faults = 0
  /\ pc = "down" /\ revision = 0 /\ done = {} /\ seg = 1
  /\ cancel = FALSE /\ state = "idle" /\ after = "ready"

-----------------------------------------------------------------------------
(* The host: load(manifest_path) or plan(), and the constructor.           *)
Open ==
  /\ pc = "down"
  /\ pc' = "ready"
  /\ revision' = wanted
  /\ done' = IF manifestFile.revision = wanted THEN manifestFile.done ELSE {}
  /\ UNCHANGED <<files, wanted, seg, cancel, state, after, faults>>

(* A session is dropped once it has run. *)
Close ==
  /\ pc = "ready" /\ state # "idle"
  /\ NoSession
  /\ UNCHANGED <<files, wanted, faults>>

Edit ==
  /\ pc = "down" /\ wanted < MaxRevision
  /\ wanted' = wanted + 1
  /\ UNCHANGED <<files, pc, session, faults>>

RequestCancel ==
  /\ pc # "down" /\ ~ cancel
  /\ Fault
  /\ cancel' = TRUE
  /\ UNCHANGED <<files, wanted, pc, revision, done, seg, state, after>>

Crash ==
  /\ pc # "down"
  /\ Fault
  /\ NoSession
  /\ UNCHANGED <<files, wanted>>

(* Somebody cleans the working directory. *)
Clean(s) ==
  /\ segFile[s] # Absent
  /\ Fault
  /\ segFile' = [segFile EXCEPT ![s] = Absent]
  /\ UNCHANGED <<segPartial, output, outPartial, manifestFile, saved, published,
                 wanted, pc, session>>

-----------------------------------------------------------------------------
(* persist(), then on to where run() continues.                            *)
PersistThen(next) == pc' = "writeTmp" /\ after' = next

End(outcome) ==
  /\ state' = outcome
  /\ PersistThen("ready")

EndUnfinished == End(IF cancel THEN "cancelled" ELSE "failed")

WriteTmp ==
  /\ pc = "writeTmp"
  /\ \/ pc' = "removeManifest" /\ UNCHANGED faults
     \/ pc' = after /\ Fault
  /\ UNCHANGED <<files, wanted, session>>

RemoveManifest ==
  /\ pc = "removeManifest"
  /\ manifestFile' = NoManifest
  /\ pc' = "renameTmp"
  /\ UNCHANGED <<segFile, segPartial, output, outPartial, saved, published, wanted,
                 session, faults>>

RenameTmp ==
  /\ pc = "renameTmp"
  /\ \/ /\ manifestFile' = [revision |-> revision, done |-> done]
        /\ saved' = TRUE
        /\ UNCHANGED faults
     \/ Fault /\ UNCHANGED <<manifestFile, saved>>
  /\ pc' = after
  /\ UNCHANGED <<segFile, segPartial, output, outPartial, published, wanted, session>>

-----------------------------------------------------------------------------
(* run(): the loop over the segments.                                      *)
Run ==
  /\ pc = "ready"
  /\ \/ cancel /\ End("cancelled") /\ UNCHANGED seg
     \/ ~ cancel /\ pc' = "segment" /\ seg' = 1 /\ state' = "running" /\ UNCHANGED after
  /\ UNCHANGED <<files, wanted, revision, done, cancel, faults>>

CancelBetween ==
  /\ pc = "segment" /\ seg <= N /\ cancel
  /\ End("cancelled")
  /\ UNCHANGED <<files, wanted, revision, done, seg, cancel, faults>>

(* Mutant: the flag is believed and the file not looked for. *)
ReusableByFlag(s) == s \in done

Reusable(s) == s \in done /\ segFile[s] # Absent

Skip ==
  /\ pc = "segment" /\ seg <= N /\ ~ cancel
  /\ Reusable(seg)
  /\ seg' = seg + 1
  /\ UNCHANGED <<files, wanted, pc, revision, done, cancel, state, after, faults>>

(* Mutant: completed is set before the segment is rendered. *)
StartEncodeMarked ==
  /\ pc = "segment" /\ seg <= N /\ ~ cancel
  /\ ~ Reusable(seg)
  /\ segPartial' = [segPartial EXCEPT ![seg] = Torn]
  /\ done' = done \cup {seg}
  /\ pc' = "encode"
  /\ UNCHANGED <<segFile, output, outPartial, manifestFile, saved, published, wanted,
                 revision, seg, cancel, state, after, faults>>

(* render_segment: the encoder begins to write the .partial file.          *)
StartEncode ==
  /\ pc = "segment" /\ seg <= N /\ ~ cancel
  /\ ~ Reusable(seg)
  /\ segPartial' = [segPartial EXCEPT ![seg] = Torn]
  /\ pc' = "encode"
  /\ UNCHANGED <<segFile, output, outPartial, manifestFile, saved, published, wanted,
                 session, faults>>

encodeFrame == <<segFile, output, outPartial, manifestFile, saved, published, wanted,
                 revision, done, seg, cancel>>

(* The encoder has written the whole file, or the .partial file is removed.*)
EncodeEnds ==
  /\ pc = "encode"
  /\ \/ /\ ~ cancel
        /\ segPartial' = [segPartial EXCEPT ![seg] = revision]
        /\ pc' = "removeOld"
        /\ UNCHANGED <<state, after, faults>>
     \/ /\ \/ cancel /\ UNCHANGED faults
           \/ Fault
        /\ segPartial' = [segPartial EXCEPT ![seg] = Absent]
        /\ EndUnfinished
  /\ UNCHANGED encodeFrame

RemoveOld ==
  /\ pc = "removeOld"
  /\ segFile' = [segFile EXCEPT ![seg] = Absent]
  /\ pc' = "renameNew"
  /\ UNCHANGED <<segPartial, output, outPartial, manifestFile, saved, published, wanted,
                 session, faults>>

(* The segment is in place, marked and checkpointed, or the rename failed. *)
RenameNew ==
  /\ pc = "renameNew"
  /\ \/ /\ segFile' = [segFile EXCEPT ![seg] = segPartial[seg]]
        /\ segPartial' = [segPartial EXCEPT ![seg] = Absent]
        /\ done' = done \cup {seg}
        /\ seg' = seg + 1
        /\ PersistThen("segment")
        /\ UNCHANGED <<state, faults>>
     \/ /\ Fault
        /\ EndUnfinished
        /\ UNCHANGED <<segFile, segPartial, done, seg>>
  /\ UNCHANGED <<output, outPartial, manifestFile, saved, published, wanted, revision,
                 cancel>>

-----------------------------------------------------------------------------
(* concatenate_segments().                                                 *)
Missing == \E s \in Segments : s \notin done \/ segFile[s] = Absent

joinFrame == <<segFile, segPartial, output, manifestFile, saved, published, wanted,
               revision, done, seg, cancel>>

StartJoin ==
  /\ pc = "segment" /\ seg > N
  /\ \/ ~ Missing /\ outPartial' = Torn /\ pc' = "join" /\ UNCHANGED <<state, after>>
     \/ Missing /\ EndUnfinished /\ UNCHANGED outPartial
  /\ UNCHANGED <<joinFrame, faults>>

(* The segments in one file: of one revision when they are.                *)
Joined == IF \A s \in Segments : segFile[s] = revision THEN revision ELSE Torn

(* Mutant: the exit code of the join is not looked at. *)
JoinEndsAnyhow ==
  /\ pc = "join"
  /\ \/ outPartial' = Joined /\ UNCHANGED faults
     \/ Fault /\ UNCHANGED outPartial
  /\ pc' = "removeOutput" /\ UNCHANGED <<state, after>>
  /\ UNCHANGED joinFrame

JoinEnds ==
  /\ pc = "join"
  /\ \/ /\ ~ cancel /\ ~ Missing
        /\ outPartial' = Joined
        /\ pc' = "removeOutput"
        /\ UNCHANGED <<state, after, faults>>
     \/ /\ \/ (cancel \/ Missing) /\ UNCHANGED faults
           \/ Fault
        /\ outPartial' = Absent
        /\ EndUnfinished
  /\ UNCHANGED joinFrame

RemoveOutput ==
  /\ pc = "removeOutput"
  /\ output' = Absent
  /\ pc' = "renameOutput"
  /\ UNCHANGED <<segFile, segPartial, outPartial, manifestFile, saved, published, wanted,
                 session, faults>>

RenameOutput ==
  /\ pc = "renameOutput"
  /\ \/ /\ output' = outPartial /\ published' = TRUE
        /\ outPartial' = Absent
        /\ End("completed")
        /\ UNCHANGED faults
     \/ /\ Fault
        /\ EndUnfinished
        /\ UNCHANGED <<output, published, outPartial>>
  /\ UNCHANGED <<segFile, segPartial, manifestFile, saved, wanted, revision, done, seg,
                 cancel>>

-----------------------------------------------------------------------------
Step ==
  \/ WriteTmp \/ RemoveManifest \/ RenameTmp
  \/ CancelBetween \/ Skip \/ StartEncode \/ EncodeEnds \/ RemoveOld \/ RenameNew
  \/ StartJoin \/ JoinEnds \/ RemoveOutput \/ RenameOutput

Next ==
  \/ Step \/ Run \/ Open \/ Close \/ Edit
  \/ RequestCancel \/ Crash \/ \E s \in Segments : Clean(s)

Spec == Init /\ [][Next]_vars

(* run() goes on; the host opens a session and runs it, again and again,   *)
(* and drops one that it has cancelled.                                    *)
FairSpec ==
  /\ Spec
  /\ WF_vars(Step) /\ WF_vars(Open) /\ WF_vars(Run)
  /\ SF_vars(cancel /\ Close)

-----------------------------------------------------------------------------
Outcomes == {"cancelled", "failed", "completed"}
RunPCs   == {"segment", "encode", "removeOld", "renameNew", "join",
             "removeOutput", "renameOutput"}
PersistPCs == {"writeTmp", "removeManifest", "renameTmp"}

(* Every variable keeps its type.                                          *)
TypeOK ==
  /\ segFile \in [Segments -> Contents] /\ segPartial \in [Segments -> Contents]
  /\ output \in Contents /\ outPartial \in Contents
  /\ manifestFile \in [revision : 0..MaxRevision, done : SUBSET Segments]
  /\ saved \in BOOLEAN /\ published \in BOOLEAN
  /\ wanted \in Revisions
  /\ pc \in {"down", "ready"} \cup RunPCs \cup PersistPCs
  /\ revision \in 0..MaxRevision /\ done \in SUBSET Segments /\ seg \in 1..N + 1
  /\ cancel \in BOOLEAN /\ state \in {"idle", "running"} \cup Outcomes
  /\ after \in {"ready", "segment"}
  /\ faults \in 0..MaxFaults

(* What a checkpoint would have a later process reuse is whole and of that *)
(* checkpoint's revision, wherever the process that wrote it died.         *)
CheckpointIsTrue ==
  manifestFile.revision = wanted =>
    \A s \in manifestFile.done : segFile[s] \in {Absent, wanted}

(* The output file is never torn and never made of segments of different   *)
(* revisions, and a completed run has left the one it was asked for.       *)
OutputIsWhole ==
  /\ output \in {Absent} \cup Revisions
  /\ state = "completed" => output = wanted

(* When faults cease, a host that keeps running the export gets its output:*)
(* no state of the files or of the manifest stands in its way for good.    *)
ExportCompletes == []<>(state = "completed" /\ output = wanted)

(* A checkpoint, once written, is there for the next process ("completed   *)
(* segments reused").                                                      *)
CheckpointSurvives == pc = "down" /\ saved => manifestFile # NoManifest

(* "Atomic finalization": an output, once published, is replaced and never *)
(* lost.                                                                   *)
OutputSurvives == pc = "down" /\ published => output # Absent
=============================================================================
