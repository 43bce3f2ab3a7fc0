--------------------------- MODULE MCEndorsements ---------------------------
(* Vouchers between two nodes, a pool of one worker, and two processes of  *)
(* one node.                                                               *)
EXTENDS NodeServices

CONSTANTS a, b, j1, j2, j3, s1, s2, raw, word

TwoNodes   == {a, b}
AAsksB     == {<<a, b>>}
ThreeJobs  == {j1, j2, j3}
TwoPhrases == {s1, s2}
OneRawKey  == {raw}
OneWord    == {word}
=============================================================================
