------------------------- MODULE NearbyPositionSync -------------------------
(***************************************************************************)
(* Nearby Position Sync: a reader shares its place in a book, the others   *)
(* show it beside their own and apply it when their user confirms.  HELLO  *)
(* finds a peer, which answers with NAME; NAME and POSITION are sent until *)
(* an ACK comes.  ACK says that a POSITION was received or, later, that it *)
(* was applied.  The screen is painted by another task, on request.        *)
(* A place is meant as the book knows it: what mapPeerPosition makes of it *)
(* in the layout of the receiving reader is the same place.                *)
(***************************************************************************)
EXTENDS NearbyRadio

CONSTANTS
  Places,           \* places in the books
  NoPlace

ASSUME PlacesAssumption == NoPlace \notin Places

VARIABLES
  sync,             \* of each reader: the members of its activity
  here,             \* of each reader: progress.bin of the open book
  shown,            \* of each reader: the place the screen offers to apply
  repaint,          \* of each reader: an update was requested
  match,            \* what the readers have in common: version of the protocol, hash of the book
  heard             \* history: readers whose place a peer has received

screen == <<shown, repaint>>
vars   == <<air, sync, here, screen, match, heard>>

Packets == [type : {"HELLO", "NAME", "POSITION", "ACK"}, from : Readers, at : Places \cup {NoPlace}]
Sync    == [state : {"CLOSED", "READY", "DISCOVERING", "SYNCING", "SHOWING_RESULT", "SYNCED", "ERROR"},
            radio : BOOLEAN,                    \* espNowStarted_, activeActivity
            peer  : Readers \cup {NoReader},    \* peerSourceMac_; peerSeen_: there is one
            source : BOOLEAN,                   \* sourceMode_
            sent : BOOLEAN,                     \* localPositionSent_
            received : BOOLEAN,                 \* peerPositionReceived_
            got : Places \cup {NoPlace}]        \* peerCrossPoint_

\* What a state starts from.  Outside an exchange the flags have no reader: each exchange sets them.
At(state, radio) ==
  [state |-> state, radio |-> radio, peer |-> NoReader, source |-> FALSE, sent |-> FALSE,
   received |-> FALSE, got |-> NoPlace]

Running(s) == s.state \in {"DISCOVERING", "SYNCING"}
Listening  == {r \in Readers : sync[r].radio}
Failed(s)  == At("ERROR", s.radio)

Hello(r)    == [type |-> "HELLO", from |-> r, at |-> NoPlace]
Name(r)     == [type |-> "NAME", from |-> r, at |-> NoPlace]
Position(r) == [type |-> "POSITION", from |-> r, at |-> here[r]]
Ack(r)      == [type |-> "ACK", from |-> r, at |-> NoPlace]

\* what render() shows of a place to apply
View(s) == IF s.state = "SHOWING_RESULT" THEN s.got ELSE NoPlace

\* requestUpdate, kept for as long as it can change the place shown
RequestUpdate(r, s) == repaint' = [repaint EXCEPT ![r] = View(s) # NoPlace \/ shown[r] # NoPlace]

\* setState asks for a repaint when the state is another one
Becomes(r, s) ==
  /\ sync' = [sync EXCEPT ![r] = s]
  /\ IF s.state # sync[r].state THEN RequestUpdate(r, s) ELSE UNCHANGED repaint
  /\ UNCHANGED shown
Sends(r, queues, to, packets) == Send(queues, to, IF sync[r].radio THEN packets ELSE <<>>, Listening)

\* sendLocalPosition: esp_now_send may refuse
SendLocalPosition(r, s, queues) ==
  \/ /\ s.radio
     /\ Becomes(r, [s EXCEPT !.sent = TRUE])
     /\ Sends(r, queues, {s.peer}, <<Name(r), Position(r)>>)
  \/ /\ lossy \/ ~s.radio
     /\ Becomes(r, [s EXCEPT !.sent = FALSE])
     /\ Sends(r, queues, {s.peer}, <<Name(r)>>)

\* Leaving restarts the device, which takes longer than a packet waits in a queue.
NothingPending(r) == \A p \in Readers : \A m \in ToSet(queue[p].events) : m.from # r
-----------------------------------------------------------------------------
(* The user and the reader's main loop.                                    *)

\* onEnter: hash, radio
Open(r) ==
  /\ sync[r].state = "CLOSED"
  /\ NothingPending(r)
  /\ \E on \in BOOLEAN : Becomes(r, At(IF on THEN "READY" ELSE "ERROR", on))
  /\ UNCHANGED <<air, here, match, heard>>

Leave(r) ==
  /\ sync' = [sync EXCEPT ![r] = At("CLOSED", FALSE)]
  /\ shown' = [shown EXCEPT ![r] = NoPlace]
  /\ repaint' = [repaint EXCEPT ![r] = FALSE]

\* Back: returnToReader and onExit
Close(r) ==
  /\ sync[r].state # "CLOSED"
  /\ Leave(r) /\ Clear(r)
  /\ UNCHANGED <<here, match, heard>>

\* In between the user reads on, in the same book or another.
Read(r) ==
  /\ sync[r].state = "CLOSED"
  /\ NothingPending(r)
  /\ \E place \in Places : here' = [here EXCEPT ![r] = place]
  /\ UNCHANGED <<air, sync, screen, match, heard>>

\* Confirm as Share: startSync, whose prepareLocalPosition may fail
StartSync(r) ==
  /\ sync[r].state \in {"READY", "SYNCED", "ERROR"}
  /\ \/ ~sync[r].radio /\ Becomes(r, Failed(sync[r])) /\ UNCHANGED air
     \/ /\ Becomes(r, [At("DISCOVERING", sync[r].radio) EXCEPT !.source = TRUE])
        /\ Sends(r, queue, Readers \ {r}, <<Hello(r)>>)
  /\ UNCHANGED <<here, match, heard>>

\* Confirm as Apply, by a user who sees a place to apply: applyPeerPosition, ACK, returnToReader
Apply(r) ==
  LET s == sync[r] IN
  /\ s.state = "SHOWING_RESULT" /\ ~s.source
  /\ shown[r] # NoPlace
  /\ \/ /\ Leave(r)
        /\ here' = [here EXCEPT ![r] = s.got]
        /\ Sends(r, [queue EXCEPT ![r] = Empty], {s.peer}, <<Ack(r)>>)
     \/ Becomes(r, Failed(s)) /\ UNCHANGED <<air, here>>
  /\ UNCHANGED <<match, heard>>

\* updateSyncProgress: the time-out comes before everything else
TimeOut(r) ==
  /\ Running(sync[r])
  /\ Becomes(r, Failed(sync[r]))
  /\ UNCHANGED <<air, here, match, heard>>

ShowResult(r) ==
  /\ Running(sync[r]) /\ sync[r].received
  /\ Becomes(r, [sync[r] EXCEPT !.state = "SHOWING_RESULT"])
  /\ UNCHANGED <<air, here, match, heard>>

SendHello(r) ==
  /\ Running(sync[r]) /\ ~sync[r].received /\ sync[r].peer = NoReader
  /\ Sends(r, queue, Readers \ {r}, <<Hello(r)>>)
  /\ UNCHANGED <<sync, here, screen, match, heard>>

\* Mutant: a position that was sent once is not sent again.
ResendUnsent(r) ==
  /\ Running(sync[r]) /\ sync[r].source /\ sync[r].peer # NoReader /\ ~sync[r].sent
  /\ SendLocalPosition(r, sync[r], queue)
  /\ UNCHANGED <<here, match, heard>>

ResendPosition(r) ==
  /\ Running(sync[r]) /\ sync[r].source /\ sync[r].peer # NoReader
  /\ SendLocalPosition(r, sync[r], queue)
  /\ UNCHANGED <<here, match, heard>>

\* the render task
Paint(r) ==
  /\ repaint[r]
  /\ shown' = [shown EXCEPT ![r] = View(sync[r])]
  /\ repaint' = [repaint EXCEPT ![r] = FALSE]
  /\ UNCHANGED <<air, sync, here, match, heard>>
-----------------------------------------------------------------------------
(* Packets: processEvents and handleEvent.                                 *)

Done(s) == s.state \in {"ERROR", "SYNCED"}

\* INVALID packets, and a HELLO or POSITION about another book
Refused(m) == match = "nothing" \/ (match = "version" /\ m.type \in {"HELLO", "POSITION"})

\* The packet at the head is handled; `type' tells the handlers apart.
Handles(r, type) == HasEvent(r) /\ Event(r).type = type /\ ~Done(sync[r]) /\ ~Refused(Event(r))

\* A ready reader becomes the receiving side.
Heard(s, from) ==
  [(IF s.state = "READY" THEN At("READY", s.radio) ELSE s) EXCEPT !.peer = from]

Ignore(r) ==
  /\ HasEvent(r) /\ Done(sync[r])
  /\ TakeOnly(r)
  /\ UNCHANGED <<sync, here, screen, match, heard>>

Refuse(r) ==
  /\ HasEvent(r) /\ ~Done(sync[r]) /\ Refused(Event(r))
  /\ Becomes(r, Failed(sync[r]))
  /\ TakeOnly(r)
  /\ UNCHANGED <<here, match, heard>>

ReceiveName(r) ==
  LET s == sync[r]
      from == Event(r).from IN
  /\ Handles(r, "NAME")
  /\ IF s.peer \in {from, NoReader} /\ s.source
     THEN LET known == [s EXCEPT !.peer = from, !.state = IF @ = "DISCOVERING" THEN "SYNCING" ELSE @]
          IN IF s.sent THEN Becomes(r, known) /\ TakeOnly(r)
             ELSE SendLocalPosition(r, known, Taken(r))
     ELSE /\ IF s.peer \in {from, NoReader} THEN RequestUpdate(r, s) ELSE UNCHANGED repaint
          /\ TakeOnly(r)
          /\ UNCHANGED <<sync, shown>>
  /\ UNCHANGED <<here, match, heard>>

ReceiveHello(r) ==
  LET s == Heard(sync[r], Event(r).from) IN
  /\ Handles(r, "HELLO")
  /\ Becomes(r, IF s.source THEN s ELSE [s EXCEPT !.state = "SYNCING"])
  /\ Sends(r, Taken(r), {s.peer}, <<Name(r)>>)
  /\ UNCHANGED <<here, match, heard>>

\* Mutant: a reader that shares acknowledges before it looks at its own role.
ReceivePositionAcked(r) ==
  LET m == Event(r)
      s == Heard(sync[r], m.from) IN
  /\ Handles(r, "POSITION")
  /\ Becomes(r, IF s.source THEN s ELSE [s EXCEPT !.state = "SHOWING_RESULT", !.received = TRUE, !.got = m.at])
  /\ Sends(r, Taken(r), {s.peer}, <<Ack(r)>>)
  /\ heard' = IF s.source THEN heard ELSE heard \cup {m.from}
  /\ UNCHANGED <<here, match>>

\* a reader that shares has no use for another position, and keeps silent
ReceivePosition(r) ==
  LET m == Event(r)
      s == Heard(sync[r], m.from) IN
  /\ Handles(r, "POSITION")
  /\ IF s.source THEN Becomes(r, s) /\ TakeOnly(r) /\ UNCHANGED heard
     ELSE /\ Becomes(r, [s EXCEPT !.state = "SHOWING_RESULT", !.received = TRUE, !.got = m.at])
          /\ Sends(r, Taken(r), {s.peer}, <<Ack(r)>>)
          /\ heard' = heard \cup {m.from}
  /\ UNCHANGED <<here, match>>

\* taken from anybody, about any book
ReceiveAck(r) ==
  LET s == Heard(sync[r], Event(r).from) IN
  /\ Handles(r, "ACK")
  /\ Becomes(r, IF s.source THEN At("SYNCED", s.radio)
                 ELSE IF s.state = "READY" THEN sync[r] ELSE s)
  /\ TakeOnly(r)
  /\ UNCHANGED <<here, match, heard>>

Overflow(r) ==
  /\ queue[r].overflow
  /\ Becomes(r, Failed(sync[r]))
  /\ Clear(r)
  /\ UNCHANGED <<here, match, heard>>

-----------------------------------------------------------------------------
Init ==
  /\ queue = [r \in Readers |-> Empty] /\ lossy = TRUE
  /\ sync = [r \in Readers |-> At("CLOSED", FALSE)]
  /\ here \in [Readers -> Places]
  /\ shown = [r \in Readers |-> NoPlace]
  /\ repaint = [r \in Readers |-> FALSE]
  /\ match \in {"nothing", "version", "book"}
  /\ heard = {}

User(r) == Open(r) \/ Close(r) \/ Read(r) \/ StartSync(r) \/ Apply(r)
\* processEvents
Handle(r) ==
  \/ Ignore(r) \/ Refuse(r) \/ ReceiveName(r) \/ ReceiveHello(r) \/ ReceivePosition(r)
  \/ ReceiveAck(r) \/ Overflow(r)
\* updateSyncProgress, but for the time-out
Advance(r) == ShowResult(r) \/ SendHello(r) \/ ResendPosition(r)
Clears == AirClears /\ UNCHANGED <<sync, here, screen, match, heard>>

Next == Clears \/ \E r \in Readers : User(r) \/ Handle(r) \/ TimeOut(r) \/ Advance(r) \/ Paint(r)

\* The loops run, and the air does not stay lossy.
Fairness == WF_vars(Clears) /\ \A r \in Readers : WF_vars(Handle(r)) /\ WF_vars(Advance(r))
Spec == Init /\ [][Next]_vars /\ Fairness
-----------------------------------------------------------------------------
\* Types of the variables of all readers.
TypeOK ==
  /\ QueueOK(Packets) /\ lossy \in BOOLEAN
  /\ sync \in [Readers -> Sync]
  /\ here \in [Readers -> Places]
  /\ shown \in [Readers -> Places \cup {NoPlace}]
  /\ repaint \in [Readers -> BOOLEAN]
  /\ match \in {"nothing", "version", "book"}
  /\ heard \subseteq Readers

\* A reader reports "Position shared" only when another one has taken its place, so not because
\* somebody was there who shares too, and not for a repeated or late answer.
SharedMeansReceived ==
  [][\A r \in Readers : sync[r].state # "SYNCED" /\ sync'[r].state = "SYNCED" => r \in heard]_vars

\* Select applies the place on the screen, once no repaint is due: "The receiving reader shows the
\* incoming position and only applies it after you confirm it."
AppliedIsShown ==
  [][\A r \in Readers : Apply(r) /\ ~repaint[r] /\ sync'[r].state = "CLOSED" => here'[r] = shown[r]]_vars

\* Nobody hears itself.
PeersInv == \A r \in Readers : sync[r].peer # r /\ \A m \in ToSet(queue[r].events) : m.from # r

\* With two readers a place was received from the other one when there is one to show, and from this
\* one when an acknowledgement is on its way to it.
HeardInv ==
  TwoReaders =>
    \A r \in Readers :
      /\ sync[r].received \/ sync[r].state = "SHOWING_RESULT" => Others(r) \subseteq heard
      /\ (\E m \in ToSet(queue[r].events) : m.type = "ACK") => r \in heard

\* A place to show, or sent, is one.
PlacesInv ==
  \A r \in Readers :
    /\ sync[r].received \/ sync[r].state = "SHOWING_RESULT" => sync[r].got \in Places
    /\ \A m \in ToSet(queue[r].events) : m.type = "POSITION" => m.at \in Places

\* The inductive invariant.
IInv == TypeOK /\ PeersInv /\ HeardInv /\ PlacesInv

\* no packet of an earlier exchange is left
Fresh == \A r \in Readers : \A m \in ToSet(queue[r].events) : m.type = "HELLO"

\* A shared place arrives at the other reader, and its sharer is told, once packets arrive, unless
\* somebody leaves the screen, runs into an error or shares too.
ShareArrives ==
  \A r \in Readers : \A p \in Readers \ {r} :
    (sync[r].state = "DISCOVERING" /\ sync[r].radio /\ sync[p].state = "READY" /\ match = "book" /\ Fresh)
      ~> ((sync[r].state = "SYNCED" /\ sync[p].got = here[r]) \/ sync[p].source
            \/ \E q \in {r, p} : sync[q].state \in {"CLOSED", "ERROR"})
=============================================================================
