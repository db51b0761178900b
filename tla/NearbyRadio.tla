---------------------------- MODULE NearbyRadio ----------------------------
(***************************************************************************)
(* ESP-NOW between readers, as the two nearby screens use it: packets go   *)
(* from reader to reader, each may be lost, and those that arrive wait in  *)
(* the queue of the receiving screen (events_) until its loop() takes      *)
(* them.  A packet in `events' may still be on its way, so the loop of the *)
(* receiver may find the queue empty although `events' is not.             *)
(***************************************************************************)
EXTENDS FiniteSets, Naturals, Sequences, SequencesExt

CONSTANTS
  Readers,
  NoReader,         \* no peer: the zero address
  MaxEvents         \* MAX_SYNC_EVENTS, 8 in the code

ASSUME ReadersAssumption   == IsFiniteSet(Readers) /\ NoReader \notin Readers
ASSUME MaxEventsAssumption == MaxEvents \in Nat \ {0}

Others(r) == Readers \ {r}

\* There are no more than two readers.
TwoReaders == \A r \in Readers : \A p, q \in Readers \ {r} : p = q

VARIABLES
  queue,            \* of each reader: events_ and eventOverflow_
  lossy             \* packets may get lost

air == <<queue, lossy>>

Empty == [events |-> <<>>, overflow |-> FALSE]

QueueOK(Packets) ==
  queue \in [Readers -> [events : UNION {[1 .. n -> Packets] : n \in 0 .. MaxEvents}, overflow : BOOLEAN]]

\* Mutant: the queue is taken for unbounded.
EnqueueUnbounded(q, packets) == [q EXCEPT !.events = @ \o packets]

\* enqueueEspNowPacket for each of the packets: a full queue is dropped as a whole
Enqueue(q, packets) ==
  IF Len(q.events) + Len(packets) > MaxEvents \/ (q.overflow /\ packets # <<>>)
  THEN [events |-> <<>>, overflow |-> TRUE]
  ELSE [q EXCEPT !.events = @ \o packets]

\* esp_now_send of at most two packets in turn: only readers whose radio is on hear them, and while
\* the air is lossy not all of them
Send(queues, to, packets, listening) ==
  LET hearers == to \cap listening IN
  \E got \in [hearers -> (IF lossy THEN SubSeqs(packets) ELSE {packets})] :
     /\ queue' = [p \in Readers |-> IF p \in hearers THEN Enqueue(queues[p], got[p]) ELSE queues[p]]
     /\ lossy' = lossy

\* the readers are brought closer together
AirClears == lossy /\ lossy' = FALSE /\ UNCHANGED queue

HasEvent(r)   == ~queue[r].overflow /\ queue[r].events # <<>>
Event(r)      == Head(queue[r].events)
\* processEvents: the head is taken, or an overflow is noticed and cleared
Taken(r)      == [queue EXCEPT ![r].events = Tail(@)]
TakeOnly(r)   == queue' = Taken(r) /\ UNCHANGED lossy
Clear(r)      == queue' = [queue EXCEPT ![r] = Empty] /\ UNCHANGED lossy
=============================================================================
