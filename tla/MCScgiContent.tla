---------------------------- MODULE MCScgiContent ----------------------------
(* Contents of up to five bytes through a buffer of two: none, one chunk,  *)
(* full chunks and a last one that is not full.                            *)
EXTENDS ScgiContent

=============================================================================
