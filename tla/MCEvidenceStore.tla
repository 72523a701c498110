-------------------------- MODULE MCEvidenceStore --------------------------
(* One piece of evidence is enough for the files and the row of a digest to    *)
(* get out of step: digests share nothing but gc's transaction and the list of *)
(* a rotation.  s is a server that puts, and in one run rotates; c a command.  *)
EXTENDS EvidenceStore, TLC

CONSTANTS d, r1, r2, s, c
=============================================================================
