---------------------------- MODULE EditHistory ----------------------------
(***************************************************************************)
(* What a host expects of an editor with undo: the document, the documents *)
(* it can go back to, and those it can return to. Only an edit makes a new *)
(* document; undo and redo retrace the same ones in both directions.       *)
(***************************************************************************)
EXTENDS Sequences, SequencesExt

VARIABLES document, past, future
vars == <<document, past, future>>

Init == past = <<>> /\ future = <<>>

(* The oldest documents may be forgotten, at any time when what was undone *)
(* is forgotten as well. *)
Edit   == /\ document' # document /\ future' = <<>>
          /\ IsSuffix(past', Append(past, document))
Forget == document' = document /\ future' = <<>> /\ IsSuffix(past', past)
Undo   == /\ past # <<>>
          /\ document' = Last(past) /\ past' = Front(past) /\ future' = Append(future, document)
Redo   == /\ future # <<>>
          /\ document' = Last(future) /\ future' = Front(future) /\ past' = Append(past, document)

Next == Edit \/ Forget \/ Undo \/ Redo
Spec == Init /\ [][Next]_vars
=============================================================================
