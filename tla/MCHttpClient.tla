--------------------------- MODULE MCHttpClient ---------------------------
(* Bodies of up to four bytes in chunks of one and two, over a buffer that *)
(* holds three and the terminator.                                         *)
EXTENDS HttpClient

CONSTANTS a, b

MCBytes == {a, b}
MCChunks == {<<a>>, <<b>>, <<a, b>>}
=============================================================================
