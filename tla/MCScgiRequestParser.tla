------------------------- MODULE MCScgiRequestParser -------------------------
(* A one-digit length, up to three bytes of headers, two of a body.        *)
EXTENDS ScgiRequestParser

=============================================================================
