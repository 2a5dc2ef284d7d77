---------------------------- MODULE MCAidAssembly ----------------------------
(***************************************************************************)
(* Instances of AidAssembly for TLC: ways to cut a ping into M0 sections.  *)
(***************************************************************************)
EXTENDS AidAssembly

Section(firstBin, bins, firstBeam, beams) ==
  [firstBin |-> firstBin, bins |-> bins, firstBeam |-> firstBeam, beams |-> beams]

(* Two bins of one beam, one section per bin.                              *)
ByBin == << Section(0, 1, 0, 1), Section(1, 1, 0, 1) >>

(* Three bins of two beams: a section with two bins of both, and the last  *)
(* two bins in one section per beam, so that the bin in the middle is      *)
(* written twice.                                                          *)
ByBeam == << Section(0, 2, 0, 2), Section(1, 2, 0, 1), Section(1, 2, 1, 1) >>
=============================================================================
