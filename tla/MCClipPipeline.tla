--------------------------- MODULE MCClipPipeline ---------------------------
(***************************************************************************)
(* Small instances of ClipPipeline: one recording, one or two highlights,  *)
(* two consumers.  The recordings share nothing but the consumers and the  *)
(* queue, so that a second one only adds interleavings; a second highlight *)
(* of the same recording shares its lock, its list and its webhook.        *)
(***************************************************************************)
EXTENDS ClipPipeline, TLC

CONSTANTS r1, h1, h2, c1, c2

OneRecording == {r1}
OneHighlight == {h1}
TwoHighlights == {h1, h2}
SecondIsS3 == {h2}
TwoConsumers == {c1, c2}

OneRecOf == [h \in OneHighlight |-> r1]
TwoRecOf == [h \in TwoHighlights |-> r1]

\* The consumers are alike.  (The highlights are not: one may have an S3 clip.)
Symmetry == Permutations(TwoConsumers)
=============================================================================
