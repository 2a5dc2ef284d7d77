------------------------ MODULE MCBathymetryDetections ------------------------
(* Two pings of one or three beams, two quality flags in a word of Q0.     *)
EXTENDS BathymetryDetections

CONSTANTS p1, p2

MCBeamCounts == {1, 3}

MCSectionSets ==
  {{"H0", "R0", "G0"} \cup optional :
     optional \in {{"A0"}, {"A0", "I1", "Q0"}, {"A0", "G1"}, {"A2", "I1", "G1", "Q0"}, {"A2", "Q0"}}}

MCDetects(ping, i) ==
  CASE ping = p1 /\ i = 0 -> {"phase", "magnitude"}
    [] ping = p1 /\ i = 1 -> {"magnitude"}
    [] ping = p2 /\ i = 2 -> {"phase"}
    [] OTHER              -> {}

MCBufferSize == 40

MCInitialCells ==
  {[k \in 0..MCBufferSize - 1 |->
      [section |-> "none", index |-> 0,
       from |-> [ping |-> p1, beams |-> 1, sections |-> {"H0", "R0", "G0", "A0"}]]]}

MCOtherLengths == {0, 12}
=============================================================================
