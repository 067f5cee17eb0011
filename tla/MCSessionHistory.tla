--------------------------- MODULE MCSessionHistory ---------------------------
(***************************************************************************)
(* An instance of SessionHistory: two addresses of one origin, one of      *)
(* another that may redirect to the first, and a page of the browser's.    *)
(***************************************************************************)
EXTENDS SessionHistory

CONSTANTS a1, a2, b1, downloads, a, b, browser

MCOrigin == [address \in {a1, a2, b1, downloads} |-> CASE address \in {a1, a2} -> a [] address = b1 -> b [] OTHER -> browser]
MCRedirects == {<<b1, a1>>}
=============================================================================
