--------------------------- MODULE MCVideoCheckpoints ---------------------------
(* Small videos of both runners, restarts and one resumed task. *)
EXTENDS VideoCheckpoints, TLC

BothKinds == {"ecommerce", "digital_human"}
ShortVideos == {"ecommerce"}
=============================================================================
