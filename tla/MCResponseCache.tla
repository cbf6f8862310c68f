-------------------------- MODULE MCResponseCache --------------------------
(* ResponseCache for TLC: keys and requests are interchangeable.  Share is 2,
   so that three keys can fill the cache where the code's 8 needs nine. *)
EXTENDS ResponseCache

Symmetric == Permutations(Keys) \cup Permutations(Requests)
=============================================================================
