----------------------------- MODULE MCArtifact -----------------------------
(* Instances of ArtifactDownload for TLC. *)
EXTENDS ArtifactDownload

============================================================================
