------------------------- MODULE MCEvidencePipeline -------------------------
(* Values for the constants of EvidencePipeline that a .cfg cannot express. *)
EXTENDS EvidencePipeline, TLC

CONSTANTS s1, s2, p, q

\* Two sources that contradict each other.
MCSays == s1 :> {p} @@ s2 :> {q}
MCDisagree == {{p, q}}
=============================================================================
