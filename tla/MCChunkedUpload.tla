--------------------------- MODULE MCChunkedUpload ---------------------------
(***************************************************************************)
(* Small instances of ChunkedUpload: one request for each of two or three  *)
(* chunks.                                                                 *)
(***************************************************************************)
EXTENDS ChunkedUpload

CONSTANTS u1, u2, u3

EachChunkOnce ==
    [u \in Uploads |-> CASE u = u1 -> 0 [] u = u2 -> 1 [] u = u3 -> 2]
=============================================================================
