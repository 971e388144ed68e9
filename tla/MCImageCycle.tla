---------------------------- MODULE MCImageCycle ----------------------------
(***************************************************************************)
(* An image of three chunks sent two packets a cycle, so that it never     *)
(* fits into one cycle.                                                    *)
(***************************************************************************)
EXTENDS ImageCycle, TLC

CONSTANT imgA

OneImage == {imgA}
ThreeChunks == imgA :> 3
=============================================================================
