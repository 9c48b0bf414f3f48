----------------------------- MODULE MCBitFile -----------------------------
(* BitFile with a few keys; a key left out is one a search may ask for.    *)
EXTENDS BitFile

TwelveKeys == 1 .. 12
=============================================================================
