------------------------- MODULE SegmentExportProofs -------------------------
(***************************************************************************)
(* SegmentExport for every number of segments, revisions and faults: its   *)
(* types, the truth of the checkpoint and the wholeness of the output.     *)
(***************************************************************************)
EXTENDS SegmentExport, TLAPS

(* The session is of the revision the host wants. *)
SessionIsWanted ==
  /\ pc # "down" => revision = wanted
  /\ pc = "down" => done = {}

(* No checkpoint is of a revision that is still to come. *)
CheckpointIsPast == manifestFile.revision <= wanted

(* What the running process has marked is right or gone. *)
MarksAreTrue == pc # "down" => \A s \in done : segFile[s] \in {Absent, wanted}

(* What is about to be renamed is whole. *)
RenamesWhole ==
  /\ pc \in {"removeOld", "renameNew"} => segPartial[seg] = wanted
  /\ pc = "join" => done = Segments
  /\ pc \in {"removeOutput", "renameOutput"} => outPartial = wanted
  /\ pc \in {"encode", "removeOld", "renameNew"} => seg \in Segments

(* The outcome is reported only after the run. *)
Running ==
  /\ pc \in RunPCs => state = "running"
  /\ pc \in PersistPCs /\ after = "segment" => state = "running"
  /\ pc = "down" => state = "idle" /\ after = "ready"

IInv ==
  /\ TypeOK
  /\ SessionIsWanted
  /\ CheckpointIsPast
  /\ CheckpointIsTrue
  /\ MarksAreTrue
  /\ RenamesWhole
  /\ Running
  /\ OutputIsWhole


(* A missing manifest has the type of one. *)
LEMMA NoManifestType == NoManifest \in [revision : 0..MaxRevision, done : SUBSET Segments]
BY SegmentAssumption DEF NoManifest

(* The invariant holds before the first session. *)
LEMMA Initial == Init => IInv
<1>. USE SegmentAssumption DEF Init, RunPCs, PersistPCs, Outcomes, Segments, Revisions,
       Contents, Absent, Torn
<1>. SUFFICES ASSUME Init PROVE IInv
  OBVIOUS
<1>1. TypeOK
  <2>1. manifestFile \in [revision : 0..MaxRevision, done : SUBSET (1..N)]
    BY NoManifestType
  <2>2. /\ segFile \in [1..N -> Contents] /\ segPartial \in [1..N -> Contents]
    OBVIOUS
  <2>3. saved \in BOOLEAN /\ published \in BOOLEAN /\ cancel \in BOOLEAN
    OBVIOUS
  <2>4. /\ output \in Contents /\ outPartial \in Contents
        /\ wanted \in Revisions /\ revision \in 0..MaxRevision /\ seg \in 1..N + 1
        /\ done \in SUBSET Segments /\ faults \in 0..MaxFaults
    OBVIOUS
  <2>5. /\ pc \in {"down", "ready"} \cup RunPCs \cup PersistPCs
        /\ state \in {"idle", "running"} \cup Outcomes /\ after \in {"ready", "segment"}
    OBVIOUS
  <2>. QED
    BY <2>1, <2>2, <2>3, <2>4, <2>5, Zenon DEF TypeOK
<1>2. manifestFile.revision = 0
  BY DEF NoManifest
<1>. QED
  BY <1>1, <1>2 DEF IInv, SessionIsWanted, CheckpointIsPast, CheckpointIsTrue,
    MarksAreTrue, RenamesWhole, Running, OutputIsWhole

(* Every step keeps the invariant: one lemma per action. *)
(* The .tmp file of persist() is written, or is not. *)
LEMMA KeepWriteTmp ==
  ASSUME IInv, WriteTmp
  PROVE  IInv'
<1>. USE SegmentAssumption DEF WriteTmp, files, session, Fault,
       RunPCs, PersistPCs, Outcomes, Segments, Revisions, Contents, Absent, Torn, NoManifest
<1>1. TypeOK'
  BY DEF IInv, TypeOK
<1>2. SessionIsWanted'
  BY DEF IInv, TypeOK, SessionIsWanted
<1>3. CheckpointIsPast'
  BY DEF IInv, TypeOK, CheckpointIsPast, SessionIsWanted
<1>4. CheckpointIsTrue'
  BY DEF IInv, TypeOK, CheckpointIsTrue, SessionIsWanted, CheckpointIsPast, MarksAreTrue, RenamesWhole
<1>5. MarksAreTrue'
  BY DEF IInv, TypeOK, MarksAreTrue, SessionIsWanted, CheckpointIsTrue, RenamesWhole
<1>6. RenamesWhole'
  BY DEF IInv, TypeOK, RenamesWhole, SessionIsWanted, MarksAreTrue
<1>7. Running'
  BY DEF IInv, TypeOK, Running
<1>8. OutputIsWhole'
  BY DEF IInv, TypeOK, OutputIsWhole, Running, RenamesWhole, SessionIsWanted
<1>. QED
  BY <1>1, <1>2, <1>3, <1>4, <1>5, <1>6, <1>7, <1>8 DEF IInv

(* No manifest promises nothing. *)
LEMMA KeepRemoveManifest ==
  ASSUME IInv, RemoveManifest
  PROVE  IInv'
<1>. USE SegmentAssumption DEF RemoveManifest, session,
       RunPCs, PersistPCs, Outcomes, Segments, Revisions, Contents, Absent, Torn, NoManifest
<1>1. TypeOK'
  BY DEF IInv, TypeOK
<1>2. SessionIsWanted'
  BY DEF IInv, TypeOK, SessionIsWanted
<1>3. CheckpointIsPast'
  BY DEF IInv, TypeOK, CheckpointIsPast, SessionIsWanted
<1>4. CheckpointIsTrue'
  BY DEF IInv, TypeOK, CheckpointIsTrue, SessionIsWanted, CheckpointIsPast, MarksAreTrue, RenamesWhole
<1>5. MarksAreTrue'
  BY DEF IInv, TypeOK, MarksAreTrue, SessionIsWanted, CheckpointIsTrue, RenamesWhole
<1>6. RenamesWhole'
  BY DEF IInv, TypeOK, RenamesWhole, SessionIsWanted, MarksAreTrue
<1>7. Running'
  BY DEF IInv, TypeOK, Running
<1>8. OutputIsWhole'
  BY DEF IInv, TypeOK, OutputIsWhole, Running, RenamesWhole, SessionIsWanted
<1>. QED
  BY <1>1, <1>2, <1>3, <1>4, <1>5, <1>6, <1>7, <1>8 DEF IInv

(* The marks become the checkpoint: both are true because the marks are. *)
LEMMA KeepRenameTmp ==
  ASSUME IInv, RenameTmp
  PROVE  IInv'
<1>. USE SegmentAssumption DEF RenameTmp, session, Fault,
       RunPCs, PersistPCs, Outcomes, Segments, Revisions, Contents, Absent, Torn, NoManifest
<1>1. TypeOK'
  <2>1. CASE manifestFile' = [revision |-> revision, done |-> done] /\ saved' = TRUE
             /\ UNCHANGED faults
    <3>1. revision \in 0..MaxRevision /\ done \in SUBSET Segments
      BY DEF IInv, TypeOK
    <3>2. manifestFile' \in [revision : 0..MaxRevision, done : SUBSET Segments]
      BY <2>1, <3>1
    <3>3. saved' \in BOOLEAN
      BY <2>1
    <3>4. pc' \in {"down", "ready"} \cup RunPCs \cup PersistPCs
      BY DEF IInv, TypeOK
    <3>. QED
      BY <2>1, <3>2, <3>3, <3>4 DEF IInv, TypeOK
  <2>2. CASE Fault /\ UNCHANGED <<manifestFile, saved>>
    <3>1. faults' \in 0..MaxFaults
      BY <2>2 DEF IInv, TypeOK
    <3>2. pc' \in {"down", "ready"} \cup RunPCs \cup PersistPCs
      BY DEF IInv, TypeOK
    <3>. QED
      BY <2>2, <3>1, <3>2 DEF IInv, TypeOK
  <2>. QED
    BY <2>1, <2>2
<1>2. SessionIsWanted'
  BY DEF IInv, TypeOK, SessionIsWanted
<1>3. CheckpointIsPast'
  BY DEF IInv, TypeOK, CheckpointIsPast, SessionIsWanted
<1>4. CheckpointIsTrue'
  <2>1. CASE manifestFile' = manifestFile
    BY <2>1 DEF IInv, TypeOK, CheckpointIsTrue
  <2>2. CASE manifestFile' = [revision |-> revision, done |-> done]
    <3>1. manifestFile'.done = done /\ pc # "down"
      BY <2>2
    <3>. QED
      BY <3>1 DEF IInv, CheckpointIsTrue, MarksAreTrue
  <2>. QED
    BY <2>1, <2>2
<1>5. MarksAreTrue'
  BY DEF IInv, TypeOK, MarksAreTrue, SessionIsWanted, CheckpointIsTrue, RenamesWhole
<1>6. RenamesWhole'
  BY DEF IInv, TypeOK, RenamesWhole, SessionIsWanted, MarksAreTrue
<1>7. Running'
  BY DEF IInv, TypeOK, Running
<1>8. OutputIsWhole'
  BY DEF IInv, TypeOK, OutputIsWhole, Running, RenamesWhole, SessionIsWanted
<1>. QED
  BY <1>1, <1>2, <1>3, <1>4, <1>5, <1>6, <1>7, <1>8 DEF IInv

(* Stopping between segments leaves the files alone. *)
LEMMA KeepCancelBetween ==
  ASSUME IInv, CancelBetween
  PROVE  IInv'
<1>. USE SegmentAssumption DEF CancelBetween, files, End, PersistThen,
       RunPCs, PersistPCs, Outcomes, Segments, Revisions, Contents, Absent, Torn, NoManifest
<1>1. TypeOK'
  BY DEF IInv, TypeOK
<1>2. SessionIsWanted'
  BY DEF IInv, TypeOK, SessionIsWanted
<1>3. CheckpointIsPast'
  BY DEF IInv, TypeOK, CheckpointIsPast, SessionIsWanted
<1>4. CheckpointIsTrue'
  BY DEF IInv, TypeOK, CheckpointIsTrue, SessionIsWanted, CheckpointIsPast, MarksAreTrue, RenamesWhole
<1>5. MarksAreTrue'
  BY DEF IInv, TypeOK, MarksAreTrue, SessionIsWanted, CheckpointIsTrue, RenamesWhole
<1>6. RenamesWhole'
  BY DEF IInv, TypeOK, RenamesWhole, SessionIsWanted, MarksAreTrue
<1>7. Running'
  BY DEF IInv, TypeOK, Running
<1>8. OutputIsWhole'
  BY DEF IInv, TypeOK, OutputIsWhole, Running, RenamesWhole, SessionIsWanted
<1>. QED
  BY <1>1, <1>2, <1>3, <1>4, <1>5, <1>6, <1>7, <1>8 DEF IInv

(* A segment that is marked and there is skipped. *)
LEMMA KeepSkip ==
  ASSUME IInv, Skip
  PROVE  IInv'
<1>. USE SegmentAssumption DEF Skip, files, Reusable,
       RunPCs, PersistPCs, Outcomes, Segments, Revisions, Contents, Absent, Torn, NoManifest
<1>1. TypeOK'
  BY DEF IInv, TypeOK
<1>2. SessionIsWanted'
  BY DEF IInv, TypeOK, SessionIsWanted
<1>3. CheckpointIsPast'
  BY DEF IInv, TypeOK, CheckpointIsPast, SessionIsWanted
<1>4. CheckpointIsTrue'
  BY DEF IInv, TypeOK, CheckpointIsTrue, SessionIsWanted, CheckpointIsPast, MarksAreTrue, RenamesWhole
<1>5. MarksAreTrue'
  BY DEF IInv, TypeOK, MarksAreTrue, SessionIsWanted, CheckpointIsTrue, RenamesWhole
<1>6. RenamesWhole'
  BY DEF IInv, TypeOK, RenamesWhole, SessionIsWanted, MarksAreTrue
<1>7. Running'
  BY DEF IInv, TypeOK, Running
<1>8. OutputIsWhole'
  BY DEF IInv, TypeOK, OutputIsWhole, Running, RenamesWhole, SessionIsWanted
<1>. QED
  BY <1>1, <1>2, <1>3, <1>4, <1>5, <1>6, <1>7, <1>8 DEF IInv

(* The encoder writes to the .partial file only. *)
LEMMA KeepStartEncode ==
  ASSUME IInv, StartEncode
  PROVE  IInv'
<1>. USE SegmentAssumption DEF StartEncode, session, Reusable,
       RunPCs, PersistPCs, Outcomes, Segments, Revisions, Contents, Absent, Torn, NoManifest
<1>1. TypeOK'
  BY DEF IInv, TypeOK
<1>2. SessionIsWanted'
  BY DEF IInv, TypeOK, SessionIsWanted
<1>3. CheckpointIsPast'
  BY DEF IInv, TypeOK, CheckpointIsPast, SessionIsWanted
<1>4. CheckpointIsTrue'
  BY DEF IInv, TypeOK, CheckpointIsTrue, SessionIsWanted, CheckpointIsPast, MarksAreTrue, RenamesWhole
<1>5. MarksAreTrue'
  BY DEF IInv, TypeOK, MarksAreTrue, SessionIsWanted, CheckpointIsTrue, RenamesWhole
<1>6. RenamesWhole'
  BY DEF IInv, TypeOK, RenamesWhole, SessionIsWanted, MarksAreTrue
<1>7. Running'
  BY DEF IInv, TypeOK, Running
<1>8. OutputIsWhole'
  BY DEF IInv, TypeOK, OutputIsWhole, Running, RenamesWhole, SessionIsWanted
<1>. QED
  BY <1>1, <1>2, <1>3, <1>4, <1>5, <1>6, <1>7, <1>8 DEF IInv

(* A .partial file goes on to the rename only when it is whole. *)
LEMMA KeepEncodeEnds ==
  ASSUME IInv, EncodeEnds
  PROVE  IInv'
<1>. USE SegmentAssumption DEF EncodeEnds, encodeFrame, End, EndUnfinished, PersistThen, Fault,
       RunPCs, PersistPCs, Outcomes, Segments, Revisions, Contents, Absent, Torn, NoManifest
<1>1. TypeOK'
  <2>1. /\ segPartial' \in [Segments -> Contents]
    BY DEF IInv, TypeOK
  <2>2. /\ pc' \in {"down", "ready"} \cup RunPCs \cup PersistPCs
        /\ state' \in {"idle", "running"} \cup Outcomes
        /\ after' \in {"ready", "segment"}
    BY DEF IInv, TypeOK
  <2>3. faults' \in 0..MaxFaults
    BY DEF IInv, TypeOK
  <2>. QED
    BY <2>1, <2>2, <2>3 DEF IInv, TypeOK
<1>2. SessionIsWanted'
  BY DEF IInv, TypeOK, SessionIsWanted
<1>3. CheckpointIsPast'
  BY DEF IInv, TypeOK, CheckpointIsPast, SessionIsWanted
<1>4. CheckpointIsTrue'
  BY DEF IInv, TypeOK, CheckpointIsTrue, SessionIsWanted, CheckpointIsPast, MarksAreTrue, RenamesWhole
<1>5. MarksAreTrue'
  BY DEF IInv, TypeOK, MarksAreTrue, SessionIsWanted, CheckpointIsTrue, RenamesWhole
<1>6. RenamesWhole'
  BY DEF IInv, TypeOK, RenamesWhole, SessionIsWanted, MarksAreTrue
<1>7. Running'
  BY DEF IInv, TypeOK, Running
<1>8. OutputIsWhole'
  BY DEF IInv, TypeOK, OutputIsWhole, Running, RenamesWhole, SessionIsWanted
<1>. QED
  BY <1>1, <1>2, <1>3, <1>4, <1>5, <1>6, <1>7, <1>8 DEF IInv

(* The old segment is gone: what was promised of it holds of a missing file. *)
LEMMA KeepRemoveOld ==
  ASSUME IInv, RemoveOld
  PROVE  IInv'
<1>. USE SegmentAssumption DEF RemoveOld, session,
       RunPCs, PersistPCs, Outcomes, Segments, Revisions, Contents, Absent, Torn, NoManifest
<1>1. TypeOK'
  BY DEF IInv, TypeOK
<1>2. SessionIsWanted'
  BY DEF IInv, TypeOK, SessionIsWanted
<1>3. CheckpointIsPast'
  BY DEF IInv, TypeOK, CheckpointIsPast, SessionIsWanted
<1>4. CheckpointIsTrue'
  BY DEF IInv, TypeOK, CheckpointIsTrue, SessionIsWanted, CheckpointIsPast, MarksAreTrue, RenamesWhole
<1>5. MarksAreTrue'
  BY DEF IInv, TypeOK, MarksAreTrue, SessionIsWanted, CheckpointIsTrue, RenamesWhole
<1>6. RenamesWhole'
  BY DEF IInv, TypeOK, RenamesWhole, SessionIsWanted, MarksAreTrue
<1>7. Running'
  BY DEF IInv, TypeOK, Running
<1>8. OutputIsWhole'
  BY DEF IInv, TypeOK, OutputIsWhole, Running, RenamesWhole, SessionIsWanted
<1>. QED
  BY <1>1, <1>2, <1>3, <1>4, <1>5, <1>6, <1>7, <1>8 DEF IInv

(* The segment is marked in the step that puts it in place. *)
LEMMA KeepRenameNew ==
  ASSUME IInv, RenameNew
  PROVE  IInv'
<1>. USE SegmentAssumption DEF RenameNew, End, EndUnfinished, PersistThen, Fault,
       RunPCs, PersistPCs, Outcomes, Segments, Revisions, Contents, Absent, Torn, NoManifest
<1>1. TypeOK'
  <2>. seg \in Segments
    BY DEF IInv, RenamesWhole
  <2>1. /\ segFile' \in [Segments -> Contents] /\ segPartial' \in [Segments -> Contents]
        /\ done' \in SUBSET Segments /\ seg' \in 1..N + 1
    <3>1. /\ segFile \in [Segments -> Contents] /\ segPartial \in [Segments -> Contents]
          /\ done \in SUBSET Segments
      BY DEF IInv, TypeOK
    <3>2. seg \in Nat /\ seg + 1 \in 1..N + 1
      OBVIOUS
    <3>3. segPartial[seg] \in Contents /\ Absent \in Contents
      BY <3>1
    <3>4. /\ [segFile EXCEPT ![seg] = segPartial[seg]] \in [Segments -> Contents]
          /\ [segPartial EXCEPT ![seg] = Absent] \in [Segments -> Contents]
      BY <3>1, <3>3
    <3>. QED
      BY <3>1, <3>2, <3>4 DEF IInv, TypeOK
  <2>2. /\ pc' \in {"down", "ready"} \cup RunPCs \cup PersistPCs
        /\ state' \in {"idle", "running"} \cup Outcomes
        /\ after' \in {"ready", "segment"}
    BY DEF IInv, TypeOK
  <2>3. faults' \in 0..MaxFaults
    BY DEF IInv, TypeOK
  <2>. QED
    BY <2>1, <2>2, <2>3 DEF IInv, TypeOK
<1>2. SessionIsWanted'
  BY DEF IInv, TypeOK, SessionIsWanted
<1>3. CheckpointIsPast'
  BY DEF IInv, TypeOK, CheckpointIsPast, SessionIsWanted
<1>4. CheckpointIsTrue'
  BY DEF IInv, TypeOK, CheckpointIsTrue, SessionIsWanted, CheckpointIsPast, MarksAreTrue, RenamesWhole
<1>5. MarksAreTrue'
  <2>1. CASE segFile' = segFile /\ done' = done
    BY <2>1 DEF IInv, MarksAreTrue
  <2>2. CASE segFile' = [segFile EXCEPT ![seg] = segPartial[seg]] /\ done' = done \cup {seg}
    <3>1. segPartial[seg] = wanted /\ seg \in Segments
      BY DEF IInv, RenamesWhole
    <3>2. pc # "down" /\ segFile \in [Segments -> Contents]
      BY DEF IInv, TypeOK
    <3>3. \A s \in done : segFile[s] \in {Absent, wanted}
      BY <3>2 DEF IInv, MarksAreTrue
    <3>4. ASSUME NEW s \in done' PROVE segFile'[s] \in {Absent, wanted}
      <4>1. s \in Segments
        BY <2>2, <3>1 DEF IInv, TypeOK
      <4>2. CASE s = seg
        BY <2>2, <3>1, <3>2, <4>2
      <4>3. CASE s # seg
        BY <2>2, <3>2, <3>3, <4>1, <4>3
      <4>. QED
        BY <4>2, <4>3
    <3>. QED
      BY <3>4 DEF MarksAreTrue
  <2>. QED
    BY <2>1, <2>2
<1>6. RenamesWhole'
  BY DEF IInv, TypeOK, RenamesWhole, SessionIsWanted, MarksAreTrue
<1>7. Running'
  BY DEF IInv, TypeOK, Running
<1>8. OutputIsWhole'
  BY DEF IInv, TypeOK, OutputIsWhole, Running, RenamesWhole, SessionIsWanted
<1>. QED
  BY <1>1, <1>2, <1>3, <1>4, <1>5, <1>6, <1>7, <1>8 DEF IInv

(* The join starts with every segment marked and there. *)
LEMMA KeepStartJoin ==
  ASSUME IInv, StartJoin
  PROVE  IInv'
<1>. USE SegmentAssumption DEF StartJoin, joinFrame, Missing, End, EndUnfinished, PersistThen,
       RunPCs, PersistPCs, Outcomes, Segments, Revisions, Contents, Absent, Torn, NoManifest
<1>1. TypeOK'
  BY DEF IInv, TypeOK
<1>2. SessionIsWanted'
  BY DEF IInv, TypeOK, SessionIsWanted
<1>3. CheckpointIsPast'
  BY DEF IInv, TypeOK, CheckpointIsPast, SessionIsWanted
<1>4. CheckpointIsTrue'
  BY DEF IInv, TypeOK, CheckpointIsTrue, SessionIsWanted, CheckpointIsPast, MarksAreTrue, RenamesWhole
<1>5. MarksAreTrue'
  BY DEF IInv, TypeOK, MarksAreTrue, SessionIsWanted, CheckpointIsTrue, RenamesWhole
<1>6. RenamesWhole'
  BY DEF IInv, TypeOK, RenamesWhole, SessionIsWanted, MarksAreTrue
<1>7. Running'
  BY DEF IInv, TypeOK, Running
<1>8. OutputIsWhole'
  BY DEF IInv, TypeOK, OutputIsWhole, Running, RenamesWhole, SessionIsWanted
<1>. QED
  BY <1>1, <1>2, <1>3, <1>4, <1>5, <1>6, <1>7, <1>8 DEF IInv

(* Segments that are marked and there are of the wanted revision, so their join is. *)
LEMMA KeepJoinEnds ==
  ASSUME IInv, JoinEnds
  PROVE  IInv'
<1>. USE SegmentAssumption DEF JoinEnds, joinFrame, Missing, Joined, End, EndUnfinished, PersistThen, Fault,
       RunPCs, PersistPCs, Outcomes, Segments, Revisions, Contents, Absent, Torn, NoManifest
<1>1. TypeOK'
  BY DEF IInv, TypeOK
<1>2. SessionIsWanted'
  BY DEF IInv, TypeOK, SessionIsWanted
<1>3. CheckpointIsPast'
  BY DEF IInv, TypeOK, CheckpointIsPast, SessionIsWanted
<1>4. CheckpointIsTrue'
  BY DEF IInv, TypeOK, CheckpointIsTrue, SessionIsWanted, CheckpointIsPast, MarksAreTrue, RenamesWhole
<1>5. MarksAreTrue'
  BY DEF IInv, TypeOK, MarksAreTrue, SessionIsWanted, CheckpointIsTrue, RenamesWhole
<1>6. RenamesWhole'
  BY DEF IInv, TypeOK, RenamesWhole, SessionIsWanted, MarksAreTrue
<1>7. Running'
  BY DEF IInv, TypeOK, Running
<1>8. OutputIsWhole'
  BY DEF IInv, TypeOK, OutputIsWhole, Running, RenamesWhole, SessionIsWanted
<1>. QED
  BY <1>1, <1>2, <1>3, <1>4, <1>5, <1>6, <1>7, <1>8 DEF IInv

(* The old output is gone, and the run not completed yet. *)
LEMMA KeepRemoveOutput ==
  ASSUME IInv, RemoveOutput
  PROVE  IInv'
<1>. USE SegmentAssumption DEF RemoveOutput, session,
       RunPCs, PersistPCs, Outcomes, Segments, Revisions, Contents, Absent, Torn, NoManifest
<1>1. TypeOK'
  BY DEF IInv, TypeOK
<1>2. SessionIsWanted'
  BY DEF IInv, TypeOK, SessionIsWanted
<1>3. CheckpointIsPast'
  BY DEF IInv, TypeOK, CheckpointIsPast, SessionIsWanted
<1>4. CheckpointIsTrue'
  BY DEF IInv, TypeOK, CheckpointIsTrue, SessionIsWanted, CheckpointIsPast, MarksAreTrue, RenamesWhole
<1>5. MarksAreTrue'
  BY DEF IInv, TypeOK, MarksAreTrue, SessionIsWanted, CheckpointIsTrue, RenamesWhole
<1>6. RenamesWhole'
  BY DEF IInv, TypeOK, RenamesWhole, SessionIsWanted, MarksAreTrue
<1>7. Running'
  BY DEF IInv, TypeOK, Running
<1>8. OutputIsWhole'
  BY DEF IInv, TypeOK, OutputIsWhole, Running, RenamesWhole, SessionIsWanted
<1>. QED
  BY <1>1, <1>2, <1>3, <1>4, <1>5, <1>6, <1>7, <1>8 DEF IInv

(* The run is completed in the step that puts the output in place. *)
LEMMA KeepRenameOutput ==
  ASSUME IInv, RenameOutput
  PROVE  IInv'
<1>. USE SegmentAssumption DEF RenameOutput, End, EndUnfinished, PersistThen, Fault,
       RunPCs, PersistPCs, Outcomes, Segments, Revisions, Contents, Absent, Torn, NoManifest
<1>1. TypeOK'
  <2>1. /\ output' \in Contents /\ outPartial' \in Contents /\ published' \in BOOLEAN
    BY DEF IInv, TypeOK
  <2>2. /\ pc' \in {"down", "ready"} \cup RunPCs \cup PersistPCs
        /\ state' \in {"idle", "running"} \cup Outcomes
        /\ after' \in {"ready", "segment"}
    BY DEF IInv, TypeOK
  <2>3. faults' \in 0..MaxFaults
    BY DEF IInv, TypeOK
  <2>. QED
    BY <2>1, <2>2, <2>3 DEF IInv, TypeOK
<1>2. SessionIsWanted'
  BY DEF IInv, TypeOK, SessionIsWanted
<1>3. CheckpointIsPast'
  BY DEF IInv, TypeOK, CheckpointIsPast, SessionIsWanted
<1>4. CheckpointIsTrue'
  BY DEF IInv, TypeOK, CheckpointIsTrue, SessionIsWanted, CheckpointIsPast, MarksAreTrue, RenamesWhole
<1>5. MarksAreTrue'
  BY DEF IInv, TypeOK, MarksAreTrue, SessionIsWanted, CheckpointIsTrue, RenamesWhole
<1>6. RenamesWhole'
  BY DEF IInv, TypeOK, RenamesWhole, SessionIsWanted, MarksAreTrue
<1>7. Running'
  BY DEF IInv, TypeOK, Running
<1>8. OutputIsWhole'
  BY DEF IInv, TypeOK, OutputIsWhole, Running, RenamesWhole, SessionIsWanted
<1>. QED
  BY <1>1, <1>2, <1>3, <1>4, <1>5, <1>6, <1>7, <1>8 DEF IInv

(* A run starts over at the first segment. *)
LEMMA KeepRun ==
  ASSUME IInv, Run
  PROVE  IInv'
<1>. USE SegmentAssumption DEF Run, files, End, PersistThen,
       RunPCs, PersistPCs, Outcomes, Segments, Revisions, Contents, Absent, Torn, NoManifest
<1>1. TypeOK'
  BY DEF IInv, TypeOK
<1>2. SessionIsWanted'
  BY DEF IInv, TypeOK, SessionIsWanted
<1>3. CheckpointIsPast'
  BY DEF IInv, TypeOK, CheckpointIsPast, SessionIsWanted
<1>4. CheckpointIsTrue'
  BY DEF IInv, TypeOK, CheckpointIsTrue, SessionIsWanted, CheckpointIsPast, MarksAreTrue, RenamesWhole
<1>5. MarksAreTrue'
  BY DEF IInv, TypeOK, MarksAreTrue, SessionIsWanted, CheckpointIsTrue, RenamesWhole
<1>6. RenamesWhole'
  BY DEF IInv, TypeOK, RenamesWhole, SessionIsWanted, MarksAreTrue
<1>7. Running'
  BY DEF IInv, TypeOK, Running
<1>8. OutputIsWhole'
  BY DEF IInv, TypeOK, OutputIsWhole, Running, RenamesWhole, SessionIsWanted
<1>. QED
  BY <1>1, <1>2, <1>3, <1>4, <1>5, <1>6, <1>7, <1>8 DEF IInv

(* A session believes a checkpoint of the wanted revision only. *)
LEMMA KeepOpen ==
  ASSUME IInv, Open
  PROVE  IInv'
<1>. USE SegmentAssumption DEF Open, files,
       RunPCs, PersistPCs, Outcomes, Segments, Revisions, Contents, Absent, Torn, NoManifest
<1>1. TypeOK'
  BY DEF IInv, TypeOK
<1>2. SessionIsWanted'
  BY DEF IInv, TypeOK, SessionIsWanted
<1>3. CheckpointIsPast'
  BY DEF IInv, TypeOK, CheckpointIsPast, SessionIsWanted
<1>4. CheckpointIsTrue'
  BY DEF IInv, TypeOK, CheckpointIsTrue, SessionIsWanted, CheckpointIsPast, MarksAreTrue, RenamesWhole
<1>5. MarksAreTrue'
  BY DEF IInv, TypeOK, MarksAreTrue, SessionIsWanted, CheckpointIsTrue, RenamesWhole
<1>6. RenamesWhole'
  BY DEF IInv, TypeOK, RenamesWhole, SessionIsWanted, MarksAreTrue
<1>7. Running'
  BY DEF IInv, TypeOK, Running
<1>8. OutputIsWhole'
  BY DEF IInv, TypeOK, OutputIsWhole, Running, RenamesWhole, SessionIsWanted
<1>. QED
  BY <1>1, <1>2, <1>3, <1>4, <1>5, <1>6, <1>7, <1>8 DEF IInv

(* Nothing is known of a session that is gone. *)
LEMMA KeepClose ==
  ASSUME IInv, Close
  PROVE  IInv'
<1>. USE SegmentAssumption DEF Close, files, NoSession,
       RunPCs, PersistPCs, Outcomes, Segments, Revisions, Contents, Absent, Torn, NoManifest
<1>1. TypeOK'
  <2>1. /\ revision' \in 0..MaxRevision /\ done' \in SUBSET Segments /\ seg' \in 1..N + 1
    BY DEF IInv, TypeOK
  <2>2. /\ pc' \in {"down", "ready"} \cup RunPCs \cup PersistPCs
        /\ state' \in {"idle", "running"} \cup Outcomes
        /\ after' \in {"ready", "segment"} /\ cancel' \in BOOLEAN
    BY DEF IInv, TypeOK
  <2>3. faults' \in 0..MaxFaults
    BY DEF IInv, TypeOK
  <2>. QED
    BY <2>1, <2>2, <2>3 DEF IInv, TypeOK
<1>2. SessionIsWanted'
  BY DEF IInv, TypeOK, SessionIsWanted
<1>3. CheckpointIsPast'
  BY DEF IInv, TypeOK, CheckpointIsPast, SessionIsWanted
<1>4. CheckpointIsTrue'
  BY DEF IInv, TypeOK, CheckpointIsTrue, SessionIsWanted, CheckpointIsPast, MarksAreTrue, RenamesWhole
<1>5. MarksAreTrue'
  BY DEF IInv, TypeOK, MarksAreTrue, SessionIsWanted, CheckpointIsTrue, RenamesWhole
<1>6. RenamesWhole'
  BY DEF IInv, TypeOK, RenamesWhole, SessionIsWanted, MarksAreTrue
<1>7. Running'
  BY DEF IInv, TypeOK, Running
<1>8. OutputIsWhole'
  BY DEF IInv, TypeOK, OutputIsWhole, Running, RenamesWhole, SessionIsWanted
<1>. QED
  BY <1>1, <1>2, <1>3, <1>4, <1>5, <1>6, <1>7, <1>8 DEF IInv

(* No checkpoint is of the revision that is new now. *)
LEMMA KeepEdit ==
  ASSUME IInv, Edit
  PROVE  IInv'
<1>. USE SegmentAssumption DEF Edit, files, session,
       RunPCs, PersistPCs, Outcomes, Segments, Revisions, Contents, Absent, Torn, NoManifest
<1>1. TypeOK'
  BY DEF IInv, TypeOK
<1>2. SessionIsWanted'
  BY DEF IInv, TypeOK, SessionIsWanted
<1>3. CheckpointIsPast'
  BY DEF IInv, TypeOK, CheckpointIsPast, SessionIsWanted
<1>4. CheckpointIsTrue'
  BY DEF IInv, TypeOK, CheckpointIsTrue, SessionIsWanted, CheckpointIsPast, MarksAreTrue, RenamesWhole
<1>5. MarksAreTrue'
  BY DEF IInv, TypeOK, MarksAreTrue, SessionIsWanted, CheckpointIsTrue, RenamesWhole
<1>6. RenamesWhole'
  BY DEF IInv, TypeOK, RenamesWhole, SessionIsWanted, MarksAreTrue
<1>7. Running'
  BY DEF IInv, TypeOK, Running
<1>8. OutputIsWhole'
  BY DEF IInv, TypeOK, OutputIsWhole, Running, RenamesWhole, SessionIsWanted
<1>. QED
  BY <1>1, <1>2, <1>3, <1>4, <1>5, <1>6, <1>7, <1>8 DEF IInv

(* A raised flag changes no file. *)
LEMMA KeepRequestCancel ==
  ASSUME IInv, RequestCancel
  PROVE  IInv'
<1>. USE SegmentAssumption DEF RequestCancel, files, Fault,
       RunPCs, PersistPCs, Outcomes, Segments, Revisions, Contents, Absent, Torn, NoManifest
<1>1. TypeOK'
  BY DEF IInv, TypeOK
<1>2. SessionIsWanted'
  BY DEF IInv, TypeOK, SessionIsWanted
<1>3. CheckpointIsPast'
  BY DEF IInv, TypeOK, CheckpointIsPast, SessionIsWanted
<1>4. CheckpointIsTrue'
  BY DEF IInv, TypeOK, CheckpointIsTrue, SessionIsWanted, CheckpointIsPast, MarksAreTrue, RenamesWhole
<1>5. MarksAreTrue'
  BY DEF IInv, TypeOK, MarksAreTrue, SessionIsWanted, CheckpointIsTrue, RenamesWhole
<1>6. RenamesWhole'
  BY DEF IInv, TypeOK, RenamesWhole, SessionIsWanted, MarksAreTrue
<1>7. Running'
  BY DEF IInv, TypeOK, Running
<1>8. OutputIsWhole'
  BY DEF IInv, TypeOK, OutputIsWhole, Running, RenamesWhole, SessionIsWanted
<1>. QED
  BY <1>1, <1>2, <1>3, <1>4, <1>5, <1>6, <1>7, <1>8 DEF IInv

(* A crash leaves the files alone. *)
LEMMA KeepCrash ==
  ASSUME IInv, Crash
  PROVE  IInv'
<1>. USE SegmentAssumption DEF Crash, files, NoSession, Fault,
       RunPCs, PersistPCs, Outcomes, Segments, Revisions, Contents, Absent, Torn, NoManifest
<1>1. TypeOK'
  <2>1. /\ revision' \in 0..MaxRevision /\ done' \in SUBSET Segments /\ seg' \in 1..N + 1
    BY DEF IInv, TypeOK
  <2>2. /\ pc' \in {"down", "ready"} \cup RunPCs \cup PersistPCs
        /\ state' \in {"idle", "running"} \cup Outcomes
        /\ after' \in {"ready", "segment"} /\ cancel' \in BOOLEAN
    BY DEF IInv, TypeOK
  <2>3. faults' \in 0..MaxFaults
    BY DEF IInv, TypeOK
  <2>. QED
    BY <2>1, <2>2, <2>3 DEF IInv, TypeOK
<1>2. SessionIsWanted'
  BY DEF IInv, TypeOK, SessionIsWanted
<1>3. CheckpointIsPast'
  BY DEF IInv, TypeOK, CheckpointIsPast, SessionIsWanted
<1>4. CheckpointIsTrue'
  BY DEF IInv, TypeOK, CheckpointIsTrue, SessionIsWanted, CheckpointIsPast, MarksAreTrue, RenamesWhole
<1>5. MarksAreTrue'
  BY DEF IInv, TypeOK, MarksAreTrue, SessionIsWanted, CheckpointIsTrue, RenamesWhole
<1>6. RenamesWhole'
  BY DEF IInv, TypeOK, RenamesWhole, SessionIsWanted, MarksAreTrue
<1>7. Running'
  BY DEF IInv, TypeOK, Running
<1>8. OutputIsWhole'
  BY DEF IInv, TypeOK, OutputIsWhole, Running, RenamesWhole, SessionIsWanted
<1>. QED
  BY <1>1, <1>2, <1>3, <1>4, <1>5, <1>6, <1>7, <1>8 DEF IInv

(* What a cleaned file was promised to hold may be absent. *)
LEMMA KeepClean ==
  ASSUME IInv, NEW s \in Segments, Clean(s)
  PROVE  IInv'
<1>. USE SegmentAssumption DEF Clean, session, Fault,
       RunPCs, PersistPCs, Outcomes, Segments, Revisions, Contents, Absent, Torn, NoManifest
<1>1. TypeOK'
  BY DEF IInv, TypeOK
<1>2. SessionIsWanted'
  BY DEF IInv, TypeOK, SessionIsWanted
<1>3. CheckpointIsPast'
  BY DEF IInv, TypeOK, CheckpointIsPast, SessionIsWanted
<1>4. CheckpointIsTrue'
  BY DEF IInv, TypeOK, CheckpointIsTrue, SessionIsWanted, CheckpointIsPast, MarksAreTrue, RenamesWhole
<1>5. MarksAreTrue'
  BY DEF IInv, TypeOK, MarksAreTrue, SessionIsWanted, CheckpointIsTrue, RenamesWhole
<1>6. RenamesWhole'
  BY DEF IInv, TypeOK, RenamesWhole, SessionIsWanted, MarksAreTrue
<1>7. Running'
  BY DEF IInv, TypeOK, Running
<1>8. OutputIsWhole'
  BY DEF IInv, TypeOK, OutputIsWhole, Running, RenamesWhole, SessionIsWanted
<1>. QED
  BY <1>1, <1>2, <1>3, <1>4, <1>5, <1>6, <1>7, <1>8 DEF IInv

(* Together: the invariant is inductive. *)
LEMMA KeepNext == IInv /\ [Next]_vars => IInv'
<1>. SUFFICES ASSUME IInv, [Next]_vars PROVE IInv'
  OBVIOUS
<1>1. CASE Step
  BY <1>1, KeepWriteTmp, KeepRemoveManifest, KeepRenameTmp, KeepCancelBetween, KeepSkip,
     KeepStartEncode, KeepEncodeEnds, KeepRemoveOld, KeepRenameNew, KeepStartJoin,
     KeepJoinEnds, KeepRemoveOutput, KeepRenameOutput DEF Step
<1>2. CASE Run \/ Open \/ Close \/ Edit
  BY <1>2, KeepRun, KeepOpen, KeepClose, KeepEdit
<1>3. CASE RequestCancel \/ Crash \/ \E s \in Segments : Clean(s)
  BY <1>3, KeepRequestCancel, KeepCrash, KeepClean
<1>4. CASE UNCHANGED vars
  BY <1>4 DEF vars, files, session, IInv, TypeOK, SessionIsWanted, CheckpointIsPast,
     CheckpointIsTrue, MarksAreTrue, RenamesWhole, Running, OutputIsWhole
<1>. QED
  BY <1>1, <1>2, <1>3, <1>4 DEF Next

(* The strengthened invariant holds in every state. *)
THEOREM Invariance == Spec => []IInv
BY Initial, KeepNext, PTL DEF Spec

(* The types of SegmentExport, for every N, MaxRevision and MaxFaults.     *)
THEOREM TypeCorrect == Spec => []TypeOK
<1>1. IInv => TypeOK
  BY DEF IInv
<1>. QED
  BY <1>1, Invariance, PTL

(* persist() after the rename, and the flags in it, never promise a        *)
(* segment that is torn or of another revision, whatever crashes.          *)
THEOREM CheckpointCorrect == Spec => []CheckpointIsTrue
<1>1. IInv => CheckpointIsTrue
  BY DEF IInv
<1>. QED
  BY <1>1, Invariance, PTL

(* concatenate_segments never publishes a torn or mixed output.            *)
THEOREM OutputCorrect == Spec => []OutputIsWhole
<1>1. IInv => OutputIsWhole
  BY DEF IInv
<1>. QED
  BY <1>1, Invariance, PTL
=============================================================================
