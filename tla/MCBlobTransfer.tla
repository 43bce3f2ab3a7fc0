--------------------------- MODULE MCBlobTransfer ---------------------------
(* Two peers and two calls of get(); storage that serves requests at once, *)
(* and storage that does not.                                              *)
EXTENDS BlobTransfer

CONSTANTS p1, p2, c1, c2

TwoPeers == {p1, p2}
TwoCalls == {c1, c2}
Both     == {"sqlite", "indexeddb"}
=============================================================================
