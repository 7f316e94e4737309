------------------------------ MODULE MCThumbnail ------------------------------
(* Instances of ThumbnailWorker for TLC. *)
EXTENDS ThumbnailWorker, TLC
=============================================================================
