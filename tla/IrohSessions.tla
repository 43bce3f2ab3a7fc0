---------------------------- MODULE IrohSessions ----------------------------
(***************************************************************************)
(* One session over QUIC (core/src/transport/iroh-transport.ts and         *)
(* iroh-connection.ts): the dialer says hello on a control stream and      *)
(* opens one sub-stream per type of traffic it knows, the accepter finds   *)
(* them by their tag, and each end reads every sub-stream in a loop of its *)
(* own from the moment it is registered.                                   *)
(*                                                                         *)
(* The ends may be of different builds.  Sub-streams are numbered in the   *)
(* order they are opened, and may be accepted in any order.  QUIC loses    *)
(* nothing while the connection is up.                                     *)
(***************************************************************************)
EXTENDS Naturals, FiniteSets, SequencesExt

CONSTANTS
  Own,         \* the types of the accepter's build, in order
  Builds,      \* builds of dialers: [opens |-> types in order, announces |-> BOOLEAN]
  LegacyCount, \* what a dialer opens that announces nothing
  MaxFrames    \* bound on the frames each end sends

IrohSessionsAssumption ==
  /\ LegacyCount \in Nat /\ MaxFrames \in Nat
  /\ \A b \in Builds : /\ b.opens \in Seq(Range(b.opens)) /\ Len(b.opens) <= 4
                       /\ \A j, k \in DOMAIN b.opens : b.opens[j] = b.opens[k] => j = k
                       /\ b.announces \/ Len(b.opens) = LegacyCount
                       /\ \E k \in DOMAIN b.opens : b.opens[k] \in Range(Own)

Known == Range(Own)

Ends == {"dialer", "accepter"}
Far(e) == IF e = "dialer" THEN "accepter" ELSE "dialer"

VARIABLES
  build,    \* the dialer's
  up,       \* whether the QUIC connection is up
  control,  \* the control message that waits to be read
  at,       \* end -> where its handshake is
  opened,   \* sub-streams the dialer has opened and tagged
  adopted,  \* the sub-streams that the accepter has taken
  pending,  \* end -> sub-stream whose priority is being set, 0 when none
  state,    \* end -> state of its connection
  streams,  \* end -> sub-stream -> type it is registered as, if it is
  readers,  \* end -> sub-streams whose loop runs: liveReaders
  listens,  \* end -> whether the connection was handed to the client
  told,     \* end -> whether the client has heard of the close
  wire,     \* end -> sub-stream -> frames on their way to that end
  sent,     \* end -> sub-stream -> frames sent by that end
  heard,    \* end -> sub-stream -> frames that reached the client
  unheard   \* end -> frames that were emitted to nobody

link  == <<build, up, control, at, opened, adopted, pending>>
conn  == <<state, streams, readers, listens, told>>
flow  == <<wire, sent, heard, unheard>>
vars == <<link, conn, flow>>

NoType  == "none"
Numbers == 1 .. 4 \* at most four sub-streams
Settled == {"done", "over"}
Count   == Len(build.opens)

Init ==
  /\ build \in Builds /\ up = TRUE /\ control = NoType
  /\ at = [e \in Ends |-> IF e = "dialer" THEN "hello" ELSE "init"]
  /\ opened = 0 /\ adopted = {} /\ pending = [e \in Ends |-> 0]
  /\ state = [e \in Ends |-> NoType] /\ streams = [e \in Ends |-> [k \in Numbers |-> NoType]]
  /\ readers = [e \in Ends |-> {}]
  /\ listens = [e \in Ends |-> FALSE] /\ told = [e \in Ends |-> FALSE]
  /\ wire = [e \in Ends |-> [k \in Numbers |-> <<>>]]
  /\ sent = [e \in Ends |-> [k \in Numbers |-> 0]]
  /\ heard = [e \in Ends |-> [k \in Numbers |-> <<>>]] /\ unheard = [e \in Ends |-> {}]
-----------------------------------------------------------------------------
goto(e, where) == at' = [at EXCEPT ![e] = where]

(* setUpDialer(): what is read and written on the control stream.          *)
Hello ==
  /\ at["dialer"] = "hello" /\ up /\ control' = "init" /\ goto("dialer", "challenge")
  /\ UNCHANGED <<build, up, opened, adopted, pending, conn, flow>>

(* The challenge verifies, and the connection is made; or it does not, and *)
(* the dial is over.                                                       *)
Challenged ==
  /\ at["dialer"] = "challenge" /\ control = "challenge"
  /\ \/ /\ control' = "ack" /\ goto("dialer", "streams") /\ UNCHANGED up
        /\ state' = [state EXCEPT !["dialer"] = "active"]
     \/ /\ control' = NoType /\ goto("dialer", "over") /\ up' = FALSE /\ UNCHANGED state
  /\ UNCHANGED <<build, opened, adopted, pending, streams, readers, listens, told, flow>>

(* setUpAccepter(): a hello that is refused only ends the accepter's part. *)
Greeted ==
  /\ at["accepter"] = "init" /\ control = "init"
  /\ \/ control' = "challenge" /\ goto("accepter", "ack")
     \/ control' = NoType /\ goto("accepter", "over")
  /\ UNCHANGED <<build, up, opened, adopted, pending, conn, flow>>

Acknowledged ==
  /\ at["accepter"] = "ack" /\ control = "ack"
  /\ control' = NoType /\ goto("accepter", "streams")
  /\ state' = [state EXCEPT !["accepter"] = "active"]
  /\ UNCHANGED <<build, up, opened, adopted, pending, streams, readers, listens, told, flow>>
-----------------------------------------------------------------------------
(* The dialer opens the next sub-stream and writes its tag.                *)
Open ==
  /\ at["dialer"] = "streams" /\ up /\ pending["dialer"] = 0 /\ opened < Count
  /\ opened' = opened + 1 /\ pending' = [pending EXCEPT !["dialer"] = opened']
  /\ UNCHANGED <<build, up, control, at, adopted, conn, flow>>

(* How many sub-streams the accepter waits for.                            *)
expected == IF build.announces THEN Count ELSE LegacyCount

(* The accepter takes a sub-stream, whichever, and reads its tag; a type   *)
(* that it does not know is passed over.                                   *)
Adopt ==
  /\ at["accepter"] = "streams" /\ up /\ pending["accepter"] = 0
  /\ Cardinality(adopted) < expected
  /\ \E k \in (1 .. opened) \ adopted :
       /\ adopted' = adopted \cup {k}
       /\ pending' = [pending EXCEPT !["accepter"] = IF build.opens[k] \in Known THEN k ELSE 0]
  /\ UNCHANGED <<build, up, control, at, opened, conn, flow>>

(* Faulty variant: by the place it is accepted at.                         *)
tagByPlace(e, k) ==
  IF e = "dialer" THEN build.opens[k]
  ELSE LET place == Cardinality(adopted) IN IF place \in DOMAIN Own THEN Own[place] ELSE NoType

(* What a sub-stream is registered as: the tag it opens with.              *)
tag(e, k) == build.opens[k]

(* registerStream(): the priority is set, the loop starts.                 *)
Register(e) ==
  /\ pending[e] # 0
  /\ pending' = [pending EXCEPT ![e] = 0]
  /\ streams' = [streams EXCEPT ![e][pending[e]] = tag(e, pending[e])]
  /\ readers' = [readers EXCEPT ![e] = IF state[e] = "active" THEN @ \cup {pending[e]} ELSE @]
  /\ UNCHANGED <<build, up, control, at, opened, adopted, state, listens, told, flow>>

(* onClose(): who comes late is answered at once.                          *)
late(e) == state[e] = "disconnected"

(* Every sub-stream is there, and the connection goes to the client, which *)
(* asks to hear of its end.                                                *)
Hand(e) ==
  /\ at[e] = "streams" /\ pending[e] = 0
  /\ IF e = "dialer" THEN opened = Count ELSE Cardinality(adopted) = expected
  /\ goto(e, "done") /\ listens' = [listens EXCEPT ![e] = TRUE]
  /\ told' = [told EXCEPT ![e] = late(e)]
  /\ UNCHANGED <<build, up, control, opened, adopted, pending, state, streams, readers, flow>>

(* The connection fails under a handshake that waits on it.                *)
Abandon(e) ==
  /\ ~up /\ at[e] \notin Settled /\ goto(e, "over")
  /\ pending' = [pending EXCEPT ![e] = 0]
  /\ UNCHANGED <<build, up, control, opened, adopted, conn, flow>>
-----------------------------------------------------------------------------
(* Who sends under a type uses the sub-stream that is registered for it.   *)
(* An oversized payload is one that is small only while it is compressed.  *)
Send(e, k, oversized) ==
  /\ listens[e] /\ state[e] = "active" /\ up /\ streams[e][k] # NoType
  /\ FoldFunction(+, 0, sent[e]) < MaxFrames /\ sent' = [sent EXCEPT ![e][k] = @ + 1]
  /\ wire' = [wire EXCEPT ![Far(e)][k] = Append(@,
       [type |-> streams[e][k], index |-> sent'[e][k], oversized |-> oversized])]
  /\ UNCHANGED <<link, conn, heard, unheard>>

(* FrameReader.push(): what a chunk of n frames leaves.                    *)
left(frames, n) == SubSeq(frames, n + 1, Len(frames))

(* The frames of a chunk that are emitted: inflate() throws at an          *)
(* oversized one.                                                          *)
Inflated(chunk) ==
  LET bad == {i \in DOMAIN chunk : chunk[i].oversized} IN
  IF bad = {} THEN chunk ELSE SubSeq(chunk, 1, (CHOOSE i \in bad : \A j \in bad : i <= j) - 1)

(* Faulty variant: the loops that still run are not counted down.          *)
goneNever(e, running) == FALSE

(* noticePeerGone(): no loop is left on a connection that is active.       *)
gone(e, running) == running = {} /\ state[e] = "active"

(* The end of a loop, and what follows when it was the last one.           *)
stop(e, k) ==
  LET running == readers[e] \ {k} IN
  /\ readers' = [readers EXCEPT ![e] = running]
  /\ IF gone(e, running)
     THEN /\ state' = [state EXCEPT ![e] = "disconnected"] /\ up' = FALSE
          /\ told' = [told EXCEPT ![e] = listens[e]]
          /\ streams' = [streams EXCEPT ![e] = [j \in Numbers |-> NoType]]
     ELSE UNCHANGED <<state, up, told, streams>>

(* readLoop(): a chunk of n frames.                                        *)
Read(e, k, n) ==
  /\ k \in readers[e] /\ n \in 1 .. Len(wire[e][k])
  /\ LET chunk == SubSeq(wire[e][k], 1, n)
         fit   == Inflated(chunk)
     IN /\ wire' = [wire EXCEPT ![e][k] = left(@, n)]
        /\ IF listens[e] /\ state[e] = "active"
           THEN heard' = [heard EXCEPT ![e][k] = @ \o fit] /\ UNCHANGED unheard
           ELSE unheard' = [unheard EXCEPT ![e] = @ \cup Range(fit)] /\ UNCHANGED heard
        /\ IF fit = chunk /\ state[e] = "active" THEN UNCHANGED <<up, conn>>
           ELSE stop(e, k) /\ UNCHANGED listens
  /\ UNCHANGED <<build, control, at, opened, adopted, pending, sent>>

(* The read fails when the connection is down, whatever it still held.     *)
ReadFails(e, k) ==
  /\ k \in readers[e] /\ ~up /\ stop(e, k)
  /\ UNCHANGED <<build, control, at, opened, adopted, pending, listens, flow>>

(* close().                                                                *)
Close(e) ==
  /\ listens[e] /\ state[e] = "active"
  /\ state' = [state EXCEPT ![e] = "disconnected"] /\ told' = [told EXCEPT ![e] = TRUE]
  /\ streams' = [streams EXCEPT ![e] = [j \in Numbers |-> NoType]] /\ up' = FALSE
  /\ UNCHANGED <<build, control, at, opened, adopted, pending, readers, listens, flow>>

(* The network loses the connection.                                       *)
Lose ==
  /\ up /\ at["dialer"] # "hello" /\ up' = FALSE
  /\ UNCHANGED <<build, control, at, opened, adopted, pending, conn, flow>>

Handshake == Hello \/ Challenged \/ Greeted \/ Acknowledged \/ Open \/ Adopt
             \/ \E e \in Ends : Register(e) \/ Hand(e) \/ Abandon(e)
Reading   == \E e \in Ends, k \in Numbers : ReadFails(e, k) \/ \E n \in 1 .. MaxFrames : Read(e, k, n)

Next ==
  \/ Handshake \/ Reading \/ Lose
  \/ \E e \in Ends : Close(e) \/ \E k \in Numbers, oversized \in BOOLEAN : Send(e, k, oversized)

Spec == Init /\ [][Next]_vars
-----------------------------------------------------------------------------
(* The frames of a sub-stream are heard in the order they were sent, none  *)
(* twice and none left out between two that are heard, chunk by chunk      *)
(* (FrameReader, readLoop()).                                              *)
FramesInOrder ==
  \A e \in Ends, k \in Numbers : \A i \in 1 .. Len(heard[e][k]) - 1 :
    heard[e][k][i + 1].index = heard[e][k][i].index + 1

(* Builds differ and streams are accepted in any order, and yet an         *)
(* accepter never waits for a sub-stream that is not to come, and two ends *)
(* that both have the connection have the same sub-streams open, as far as *)
(* the accepter knows them: what one may send the other reads              *)
(* (setUpDialer(), setUpAccepter()).                                       *)
SameStreams ==
  /\ at["dialer"] = "done" /\ at["accepter"] = "streams" /\ Cardinality(adopted) < expected =>
       (1 .. opened) \ adopted # {}
  /\ (\A e \in Ends : listens[e] /\ state[e] = "active") =>
       \A k \in 1 .. Count : build.opens[k] \in Known => streams["accepter"][k] = streams["dialer"][k]

(* When the last sub-stream of a connection has ended, whoever has the     *)
(* connection has been told, also who came late (noticePeerGone(),         *)
(* onClose()): nobody stays present forever.                               *)
GoneIsNoticed == \A e \in Ends : listens[e] /\ readers[e] = {} => told[e]

(* iroh-connection.ts:314: "A decompression failure drops the frame rather *)
(* than tearing down the stream".                                          *)
BadFrameDropsOnlyItself == \A e \in Ends :
  up /\ state[e] = "active" /\ pending[e] = 0 => \A k \in Numbers : streams[e][k] # NoType => k \in readers[e]

(* iroh-transport.ts:367: "A tag this build does not recognise is still    *)
(* adopted", so of a dialer that knows more types every sub-stream is open *)
(* at both ends; line 373 passes it over.                                  *)
UnknownAdopted ==
  listens["accepter"] /\ state["accepter"] = "active" =>
    \A k \in 1 .. Count : streams["accepter"][k] # NoType

(* What is sent to an end that will have the connection is heard there.    *)
FirstFramesHeard == \A e \in Ends : listens[e] => unheard[e] = {}
=============================================================================
