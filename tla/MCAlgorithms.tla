---------------------------- MODULE MCAlgorithms ----------------------------
(***************************************************************************)
(* What is sequential on small inputs: the cuts of CpuPartition, every     *)
(* RenderGraph its builder calls can make of one table of resources, short *)
(* sessions of the TimelineEditor, and the calls of an AudioSession with   *)
(* its feeder and exporter, each a step. A behaviour takes one of them.    *)
(***************************************************************************)
EXTENDS MCCpuPartition, RenderGraph, TimelineEditor, AudioSession

Track(audio, locked) == [audio |-> audio, locked |-> locked]
Media(id, k, audio, start, length, from, group, locked) ==
  [id |-> <<id>>, track |-> k, audio |-> audio, start |-> start, length |-> length,
   from |-> from, until |-> from + length + 1, media |-> id, group |-> group, locked |-> locked]

(* Three clips in a row, the sound of the first linked to it, and another  *)
(* sound further on; the sound track is locked or not. *)
SmallProjects ==
  {[tracks |-> ("video" :> Track(FALSE, FALSE)) @@ ("sound" :> Track(TRUE, locked)),
    clips  |-> {Media("a", "video", FALSE, 0, 3, 1, "ab", FALSE),
                Media("b", "video", FALSE, 3, 3, 1, NoGroup, FALSE),
                Media("c", "video", FALSE, 6, 2, 1, NoGroup, FALSE),
                Media("m", "sound", TRUE, 0, 4, 0, "ab", FALSE)}]
   : locked \in BOOLEAN}

SmallDeltas == {-1, 1, 2}
AnyName     == STRING

ThreePackets == <<2, 3, 2>>

CONSTANTS MaxPasses, MaxReads, MaxGraphCalls   \* bounds

(* Two transients of one type, a smaller third, and an imported resource.  *)
Table == CreateResource(CreateResource(CreateResource(CreateResource(EmptyGraph,
           TRUE, "texture", 2), TRUE, "texture", 2), TRUE, "texture", 1), FALSE, "texture", 1)

Resources == DOMAIN Table.resources
Calls(g) ==
  Cardinality(g.edges)
    + Cardinality({r \in Resources : g.resources[r].exported \/ g.resources[r].release # 0})

(* A pass observable by itself writes nothing here: one that also writes   *)
(* is kept the same way. Only the first pass repeats a use: wherever it is *)
(* repeated, nothing compiles.                                             *)
AddsPass ==
  /\ Len(graph.passes) < MaxPasses /\ Calls(graph) = 0
  /\ \E writes \in {{}} \union {{r} : r \in Resources} :
       \E reads \in {s \in SUBSET Resources : Cardinality(s) <= MaxReads} :
         \E repeats \in IF graph.passes = <<>> THEN BOOLEAN ELSE {FALSE} :
           BuildPass(reads, writes, repeats, writes = {})
AddsCall ==
  /\ Calls(graph) < MaxGraphCalls
  /\ BuildDependency \/ BuildExport \/ BuildRelease

NoGraph   == graph = Table
NoCut     == cut = <<1, 1, 0, 1, 0>>
NoEditing == hostCalls = 0 /\ project = CHOOSE p \in Projects : TRUE

InputsInit == CutInit /\ graph = Table /\ EditorInit /\ AudioInit
InputsNext ==
  \/ NoGraph /\ NoEditing /\ AudioInit /\ CutNext /\ UNCHANGED <<graph, editorVars, avars>>
  \/ NoCut /\ NoEditing /\ AudioInit /\ (AddsPass \/ AddsCall) /\ UNCHANGED <<cut, editorVars, avars>>
  \/ NoCut /\ NoGraph /\ AudioInit /\ EditorNext /\ UNCHANGED <<cut, graph, avars>>
  \/ NoCut /\ NoGraph /\ NoEditing /\ AudioNext /\ UNCHANGED <<cut, graph, editorVars>>
InputsSpec == InputsInit /\ [][InputsNext]_<<cut, graph, editorVars, avars>>
=============================================================================
