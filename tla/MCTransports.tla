---------------------------- MODULE MCTransports ----------------------------
(* Transports with two nodes that share a pipe id, dialers of three builds *)
(* and two overlapping calls of establish() over two relays.               *)
EXTENDS Transports

CONSTANTS a, b, i1, c1, c2

TwoNodes == {a, b}
OneNode  == {a}
OneId    == {i1}
TwoCalls == {c1, c2}

OwnTypes == <<"chat", "sync">>

(* A dialer of the same build, one that predates the count of sub-streams, *)
(* and one that knows a type more.                                         *)
SomeBuilds == {
  [opens |-> <<"chat", "sync">>, announces |-> TRUE],
  [opens |-> <<"chat">>, announces |-> FALSE],
  [opens |-> <<"chat", "new", "sync">>, announces |-> TRUE]}
=============================================================================
