---------------------------- MODULE MCAlbumJobs ----------------------------
(* Small instances of AlbumJobs for TLC. *)
EXTENDS AlbumJobs, TLC

\* Row ids and peers are interchangeable: nothing orders them.
RowSymmetry == Permutations(Candidates) \cup Permutations(Peers) \cup Permutations(Files)
=============================================================================
