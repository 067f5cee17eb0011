----------------------------- MODULE MCHttpCache -----------------------------
(***************************************************************************)
(* Instances of HttpCache. Loads, cookies and the names of files are       *)
(* interchangeable; addresses are not, as one of the servers says Vary.    *)
(***************************************************************************)
EXTENDS HttpCache, TLC

Symmetry == Permutations(Load) \cup Permutations(Cookie) \cup Permutations(Hash)
=============================================================================
