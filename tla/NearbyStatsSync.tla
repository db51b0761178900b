-------------------------- MODULE NearbyStatsSync --------------------------
(***************************************************************************)
(* Nearby Stats Sync: readers exchange snapshots of their global           *)
(* statistics.  HELLO finds a peer, each side sends STATS until it hears   *)
(* an ACK, and is done when it has saved the peer's and was acknowledged.  *)
(* The time-out, the user and the card may interfere at any moment.  NAME  *)
(* packets set the label of the peer and nothing else: left out.           *)
(***************************************************************************)
EXTENDS NearbyRadio

VARIABLES
  sync,             \* of each reader: the members of its activity
  stored,           \* of reader and peer: synced_stats/device_<mac>.bin
  compatible        \* the firmwares understand each other's records

vars == <<air, sync, stored, compatible>>

Packets  == [type : {"HELLO", "STATS", "ACK"}, from : Readers]

\* A snapshot of the peer's present global_stats.bin, of an earlier one, none yet, or none since
\* writing a later one failed.
Snapshots == {"current", "old", "none", "lost"}

Sync     == [state : {"CLOSED", "READY", "DISCOVERING", "SYNCING", "SYNCED", "ERROR"},
             radio : BOOLEAN,                   \* espNowStarted_, activeActivity
             peer  : Readers \cup {NoReader},   \* peerSeen_: there is one
             saved : BOOLEAN,                   \* peerStatsSaved_
             sent  : BOOLEAN, acked : BOOLEAN]  \* localStatsSent_, localStatsAcked_

\* What a state starts from.  Outside an exchange the flags have no reader: each exchange sets them.
At(state, radio) ==
  [state |-> state, radio |-> radio, peer |-> NoReader, saved |-> FALSE, sent |-> FALSE, acked |-> FALSE]

Running(s)  == s.state \in {"DISCOVERING", "SYNCING"}
Listening   == {r \in Readers : sync[r].radio}
Failed(s)   == At("ERROR", s.radio)
\* Mutant: the peer's acknowledgement is not waited for.
FinishedWhenSaved(s) == s.saved
Finished(s) == s.saved /\ s.acked

Hello(r) == [type |-> "HELLO", from |-> r]
Stats(r) == [type |-> "STATS", from |-> r]
Ack(r)   == [type |-> "ACK", from |-> r]

\* r's loop() ends in s, having sent the packets
Becomes(r, s, queues, to, packets) ==
  /\ sync' = [sync EXCEPT ![r] = s]
  /\ Send(queues, to, IF s.radio THEN packets ELSE <<>>, Listening)
Changes(r, s) == sync' = [sync EXCEPT ![r] = s] /\ UNCHANGED air

\* sendLocalStats: esp_now_send may refuse
SendLocalStats(r, s, queues, before) ==
  \/ /\ s.radio
     /\ Becomes(r, [s EXCEPT !.sent = TRUE], queues, {s.peer}, Append(before, Stats(r)))
  \/ /\ lossy \/ ~s.radio
     /\ Becomes(r, [s EXCEPT !.sent = FALSE], queues, {s.peer}, before)

-----------------------------------------------------------------------------
(* The user and the reader's main loop.                                    *)

\* onEnter: the radio starts or not
Open(r) ==
  /\ sync[r].state = "CLOSED"
  /\ \E on \in BOOLEAN : Changes(r, At(IF on THEN "READY" ELSE "ERROR", on))
  /\ UNCHANGED <<stored, compatible>>

\* Back: exitViaBack and onExit
Close(r) ==
  /\ sync[r].state # "CLOSED"
  /\ sync' = [sync EXCEPT ![r] = At("CLOSED", FALSE)]
  /\ Clear(r)
  /\ UNCHANGED <<stored, compatible>>

\* Away from the screen a session is read, for longer than a packet waits in a queue.
Read(r) ==
  /\ sync[r].state = "CLOSED"
  /\ \A p \in Readers : Stats(r) \notin ToSet(queue[p].events)
  /\ stored' = [p \in Readers |-> IF stored[p][r] = "current" THEN [stored[p] EXCEPT ![r] = "old"] ELSE stored[p]]
  /\ UNCHANGED <<air, sync, compatible>>

\* Confirm: startSync, whose prepareLocalStats may fail
StartSync(r) ==
  /\ sync[r].state \in {"READY", "SYNCED", "ERROR"}
  /\ \/ Changes(r, Failed(sync[r]))
     \/ Becomes(r, At("DISCOVERING", sync[r].radio), queue, Readers \ {r}, <<Hello(r)>>)
  /\ UNCHANGED <<stored, compatible>>

\* updateSyncProgress: the time-out comes before everything else
TimeOut(r) ==
  /\ Running(sync[r])
  /\ Changes(r, Failed(sync[r]))
  /\ UNCHANGED <<stored, compatible>>

FinishSync(r) ==
  /\ Running(sync[r]) /\ Finished(sync[r])
  /\ Changes(r, At("SYNCED", sync[r].radio))
  /\ UNCHANGED <<stored, compatible>>

SendHello(r) ==
  /\ Running(sync[r]) /\ ~Finished(sync[r]) /\ sync[r].peer = NoReader
  /\ Becomes(r, sync[r], queue, Readers \ {r}, <<Hello(r)>>)
  /\ UNCHANGED <<stored, compatible>>

\* Mutant: what was sent once is not sent again.
ResendUnsent(r) ==
  /\ Running(sync[r]) /\ sync[r].peer # NoReader /\ ~sync[r].sent
  /\ SendLocalStats(r, sync[r], queue, <<>>)
  /\ UNCHANGED <<stored, compatible>>

ResendStats(r) ==
  /\ Running(sync[r]) /\ sync[r].peer # NoReader /\ ~sync[r].acked
  /\ SendLocalStats(r, sync[r], queue, <<>>)
  /\ UNCHANGED <<stored, compatible>>
-----------------------------------------------------------------------------
(* Packets: processEvents and handleEvent.                                 *)

\* A reader that is not in an exchange is drawn into one.
Heard(s, from) ==
  [(IF Running(s) THEN s ELSE At("SYNCING", s.radio)) EXCEPT !.state = "SYNCING", !.peer = from]

\* The packet at the head is handled; `type' tells the handlers apart.
Handles(r, type) == HasEvent(r) /\ Event(r).type = type /\ sync[r].state \notin {"CLOSED", "ERROR"}

IgnoreInError(r) ==
  /\ sync[r].state = "ERROR" /\ HasEvent(r)
  /\ TakeOnly(r)
  /\ UNCHANGED <<sync, stored, compatible>>

\* prepareLocalStats of a reader drawn in
PrepareFails(r) ==
  /\ \E type \in {"HELLO", "STATS", "ACK"} : Handles(r, type)
  /\ ~Running(sync[r])
  /\ sync' = [sync EXCEPT ![r] = Failed(@)]
  /\ TakeOnly(r)
  /\ UNCHANGED <<stored, compatible>>

ReceiveHello(r) ==
  /\ Handles(r, "HELLO")
  /\ SendLocalStats(r, Heard(sync[r], Event(r).from), Taken(r), <<>>)
  /\ UNCHANGED <<stored, compatible>>

\* INVALID_STATS
RefuseStats(r) ==
  /\ Handles(r, "STATS") /\ ~compatible
  /\ sync' = [sync EXCEPT ![r] = Failed(sync[r])]
  /\ TakeOnly(r)
  /\ UNCHANGED <<stored, compatible>>

\* saved, acknowledged, and answered unless the peer has what it needs
ReceiveStats(r) ==
  LET m == Event(r)
      s == [Heard(sync[r], m.from) EXCEPT !.saved = TRUE]
      ack == <<Ack(r)>> IN
  /\ Handles(r, "STATS") /\ compatible
  /\ stored' = [stored EXCEPT ![r][m.from] = "current"]
  /\ IF s.sent /\ s.acked THEN Becomes(r, s, Taken(r), {m.from}, ack)
     ELSE SendLocalStats(r, s, Taken(r), ack)
  /\ UNCHANGED compatible

\* writeSyncedStatsFile removes the old snapshot before the new one takes its name
WriteFails(r) ==
  LET m == Event(r) IN
  /\ Handles(r, "STATS") /\ compatible
  /\ \/ UNCHANGED stored
     \/ stored' = [stored EXCEPT ![r][m.from] = "lost"]
  /\ sync' = [sync EXCEPT ![r] = Failed(sync[r])]
  /\ TakeOnly(r)
  /\ UNCHANGED compatible

ReceiveAck(r) ==
  /\ Handles(r, "ACK")
  /\ sync' = [sync EXCEPT ![r] = [Heard(sync[r], Event(r).from) EXCEPT !.acked = TRUE]]
  /\ TakeOnly(r)
  /\ UNCHANGED <<stored, compatible>>

Overflow(r) ==
  /\ queue[r].overflow
  /\ sync' = [sync EXCEPT ![r] = Failed(@)]
  /\ Clear(r)
  /\ UNCHANGED <<stored, compatible>>

-----------------------------------------------------------------------------
Init ==
  /\ queue = [r \in Readers |-> Empty] /\ lossy = TRUE
  /\ sync = [r \in Readers |-> At("CLOSED", FALSE)]
  /\ stored = [r \in Readers |-> [p \in Readers |-> "none"]]
  /\ compatible \in BOOLEAN

User(r) == Open(r) \/ Close(r) \/ Read(r) \/ StartSync(r)
\* processEvents
Handle(r) ==
  \/ IgnoreInError(r) \/ PrepareFails(r) \/ ReceiveHello(r) \/ RefuseStats(r)
  \/ ReceiveStats(r) \/ WriteFails(r) \/ ReceiveAck(r) \/ Overflow(r)
\* updateSyncProgress, but for the time-out
Advance(r) == FinishSync(r) \/ SendHello(r) \/ ResendStats(r)
Loop(r) == Handle(r) \/ TimeOut(r) \/ Advance(r)

Clears == AirClears /\ UNCHANGED <<sync, stored, compatible>>

Next == Clears \/ \E r \in Readers : User(r) \/ Loop(r)

\* The loops run, and the air does not stay lossy.
Fairness == WF_vars(Clears) /\ \A r \in Readers : WF_vars(Handle(r)) /\ WF_vars(Advance(r))
Spec == Init /\ [][Next]_vars /\ Fairness

-----------------------------------------------------------------------------
\* Types of the variables of all readers.
TypeOK ==
  /\ QueueOK(Packets) /\ lossy \in BOOLEAN
  /\ sync \in [Readers -> Sync]
  /\ stored \in [Readers -> [Readers -> Snapshots]]
  /\ compatible \in BOOLEAN

\* "Both readers synced" is true when it appears: at the step into SYNCED the reader has its peer's
\* snapshot and the peer has this reader's present one, whatever was lost or repeated before,
\* unless the card of the peer has failed since.
SyncedMeansStored ==
  [][\A r \in Readers : sync[r].state # "SYNCED" /\ sync'[r].state = "SYNCED" =>
       LET p == sync[r].peer IN
       stored[r][p] \in {"current", "old"} /\ stored[p][r] \in {"current", "lost"}]_vars

\* Nobody hears itself, and what a reader knows of an exchange names a peer.
PeersInv ==
  \A r \in Readers :
    /\ sync[r].peer # r
    /\ sync[r].saved \/ sync[r].acked => sync[r].peer # NoReader
    /\ \A m \in ToSet(queue[r].events) : m.from # r

\* Only an open radio hears.
SilenceInv ==
  \A r \in Readers :
    /\ ~sync[r].radio => queue[r].events = <<>>
    /\ sync[r].state = "CLOSED" => sync[r] = At("CLOSED", FALSE)

\* With two readers the peer is the other one.  Then what a reader has noted of an exchange, and an
\* acknowledgement on its way to it, are true of what is stored.
StoredInv ==
  TwoReaders =>
    \A r \in Readers :
      /\ sync[r].saved => \A p \in Others(r) : stored[r][p] \in {"current", "old"}
      /\ sync[r].acked => \A p \in Others(r) : stored[p][r] \in {"current", "lost"}
      /\ \A m \in ToSet(queue[r].events) : m.type = "ACK" => stored[m.from][r] \in {"current", "lost"}

\* The inductive invariant.
IInv == TypeOK /\ PeersInv /\ SilenceInv /\ StoredInv

\* no packet of an earlier exchange is left
Fresh == \A r \in Readers : \A m \in ToSet(queue[r].events) : m.type = "HELLO"

\* A reader that finds another one ready completes the exchange once packets arrive, unless somebody
\* leaves the screen, runs into an error or starts an exchange too.
ExchangeCompletes ==
  \A r \in Readers : \A p \in Readers \ {r} :
    (sync[r].state = "DISCOVERING" /\ sync[r].radio /\ sync[p].state = "READY" /\ Fresh)
      ~> (sync[r].state = "SYNCED" \/ sync[p].state = "DISCOVERING"
            \/ \E q \in {r, p} : sync[q].state \in {"CLOSED", "ERROR"})
=============================================================================
