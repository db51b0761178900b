---------------------------- MODULE NearbyProofs ----------------------------
(***************************************************************************)
(* Theorems about NearbyStatsSync and NearbyPositionSync.  What is said of *)
(* the radio comes first, then the statistics, then the positions.         *)
(***************************************************************************)
EXTENDS NearbyStatsSync, TLAPS

\* What a queue may hold: QueueOK says it of every reader's.
Queues(P) == [events : UNION {[1 .. n -> P] : n \in 0 .. MaxEvents}, overflow : BOOLEAN]

\* A queue is a short sequence of packets.
LEMMA QueueContents ==
  ASSUME NEW P, NEW e
  PROVE  e \in UNION {[1 .. n -> P] : n \in 0 .. MaxEvents} <=> e \in Seq(P) /\ Len(e) <= MaxEvents
<1>1. ASSUME NEW n \in 0 .. MaxEvents, e \in [1 .. n -> P]
      PROVE  e \in Seq(P) /\ Len(e) <= MaxEvents
  BY <1>1
<1>2. ASSUME e \in Seq(P), Len(e) <= MaxEvents
      PROVE  e \in [1 .. Len(e) -> P] /\ Len(e) \in 0 .. MaxEvents
  BY <1>2
<1> QED
  OBVIOUS

\* Nothing waits in an empty queue.
LEMMA EmptyQueue ==
  ASSUME NEW P
  PROVE  Empty \in Queues(P) /\ Empty.events = <<>> /\ ToSet(Empty.events) = {}
<1>1. <<>> \in Seq(P) /\ Len(<<>>) <= MaxEvents
  BY MaxEventsAssumption
<1>2. <<>> \in UNION {[1 .. n -> P] : n \in 0 .. MaxEvents}
  BY <1>1
<1> QED
  BY <1>2 DEF Empty, Queues, ToSet

\* Packets that wait were waiting or have come.
LEMMA EnqueueKeeps ==
  ASSUME NEW P, NEW q \in Queues(P), NEW packets \in Seq(P)
  PROVE  /\ Enqueue(q, packets) \in Queues(P)
         /\ ToSet(Enqueue(q, packets).events) \subseteq ToSet(q.events) \cup ToSet(packets)
<1>1. q.events \in Seq(P) /\ Len(q.events) <= MaxEvents /\ q.overflow \in BOOLEAN
  BY DEF Queues
<1>2. <<>> \in Seq(P) /\ Len(<<>>) <= MaxEvents
  BY MaxEventsAssumption
<1>3. CASE Len(q.events) + Len(packets) > MaxEvents \/ (q.overflow /\ packets # <<>>)
  <2>1. Enqueue(q, packets) = [events |-> <<>>, overflow |-> TRUE]
    BY <1>3 DEF Enqueue
  <2>2. [events |-> <<>>, overflow |-> TRUE] \in Queues(P)
    BY <1>2 DEF Queues
  <2>3. ToSet(<<>>) = {}
    BY DEF ToSet
  <2> QED
    BY <2>1, <2>2, <2>3
<1>4. CASE ~(Len(q.events) + Len(packets) > MaxEvents \/ (q.overflow /\ packets # <<>>))
  <2> DEFINE e == q.events \o packets
  <2>1. Enqueue(q, packets) = [q EXCEPT !.events = e]
    BY <1>4 DEF Enqueue
  <2>2. e \in Seq(P) /\ Len(e) = Len(q.events) + Len(packets)
    BY <1>1
  <2>3. Len(e) <= MaxEvents
    BY <1>4, MaxEventsAssumption
  <2>4. e \in UNION {[1 .. n -> P] : n \in 0 .. MaxEvents}
    BY <2>2, <2>3, QueueContents
  <2>5. ToSet(e) \subseteq ToSet(q.events) \cup ToSet(packets)
    BY DEF ToSet
  <2> HIDE DEF e
  <2>6. Enqueue(q, packets) \in Queues(P) /\ Enqueue(q, packets).events = e
    BY <2>1, <2>4 DEF Queues
  <2> QED
    BY <2>5, <2>6
<1> QED
  BY <1>3, <1>4

\* Of packets sent, some arrive.
LEMMA SomeArrive ==
  ASSUME NEW P, NEW packets \in Seq(P), NEW got \in SubSeqs(packets)
  PROVE  got \in Seq(P) /\ ToSet(got) \subseteq ToSet(packets)
<1>1. PICK i \in 0 .. Len(packets), j \in 0 .. Len(packets) : got = SubSeq(packets, i + 1, j)
  BY DEF SubSeqs
<1>2. got \in Seq(P) /\ \A k \in DOMAIN got : got[k] = packets[i + k] /\ i + k \in DOMAIN packets
  BY <1>1
<1> QED
  BY <1>2 DEF ToSet

\* Only those addressed hear, and only what is sent.
LEMMA SendKeeps ==
  ASSUME NEW P, NEW queues \in [Readers -> Queues(P)], NEW to, NEW packets \in Seq(P), NEW listening,
         Send(queues, to, packets, listening)
  PROVE  /\ queue' \in [Readers -> Queues(P)] /\ lossy' = lossy
         /\ \A p \in Readers :
              /\ p \notin to \cap listening => queue'[p] = queues[p]
              /\ ToSet(queue'[p].events) \subseteq ToSet(queues[p].events) \cup ToSet(packets)
<1> DEFINE hearers == to \cap listening
<1>1. PICK got \in [hearers -> IF lossy THEN SubSeqs(packets) ELSE {packets}] :
        /\ queue' = [p \in Readers |-> IF p \in hearers THEN Enqueue(queues[p], got[p]) ELSE queues[p]]
        /\ lossy' = lossy
  BY DEF Send
<1>2. ASSUME NEW p \in Readers
      PROVE  /\ queue'[p] \in Queues(P)
             /\ p \notin hearers => queue'[p] = queues[p]
             /\ ToSet(queue'[p].events) \subseteq ToSet(queues[p].events) \cup ToSet(packets)
  <2>1. CASE p \notin hearers
    BY <1>1, <2>1
  <2>2. CASE p \in hearers
    <3>1. got[p] \in Seq(P) /\ ToSet(got[p]) \subseteq ToSet(packets)
      BY <2>2, SomeArrive
    <3>2. queue'[p] = Enqueue(queues[p], got[p]) /\ queues[p] \in Queues(P)
      BY <1>1, <2>2
    <3>3. /\ queue'[p] \in Queues(P)
          /\ ToSet(queue'[p].events) \subseteq ToSet(queues[p].events) \cup ToSet(got[p])
      BY <3>1, <3>2, EnqueueKeeps
    <3> QED
      BY <2>2, <3>1, <3>3
  <2> QED
    BY <2>1, <2>2
<1> QED
  BY <1>1, <1>2

\* The head of a queue is a packet, and the others stay.
LEMMA TakenKeeps ==
  ASSUME NEW P, queue \in [Readers -> Queues(P)], NEW r \in Readers, HasEvent(r)
  PROVE  /\ Event(r) \in P /\ Event(r) \in ToSet(queue[r].events)
         /\ Taken(r) \in [Readers -> Queues(P)]
         /\ \A p \in Readers : ToSet(Taken(r)[p].events) \subseteq ToSet(queue[p].events)
         /\ \A p \in Readers \ {r} : Taken(r)[p] = queue[p]
<1> DEFINE e == queue[r].events
<1>1. e \in Seq(P) /\ Len(e) <= MaxEvents /\ e # <<>> /\ queue[r] \in Queues(P)
  BY DEF HasEvent, Queues
<1>2. Head(e) \in P /\ Head(e) = e[1] /\ 1 \in DOMAIN e
  BY <1>1
<1>3. Tail(e) \in Seq(P) /\ Len(Tail(e)) <= MaxEvents
  BY <1>1, MaxEventsAssumption
<1>4. ToSet(Tail(e)) \subseteq ToSet(e)
  <2>1. \A k \in DOMAIN Tail(e) : Tail(e)[k] = e[k + 1] /\ k + 1 \in DOMAIN e
    BY <1>1
  <2> QED
    BY <2>1 DEF ToSet
<1>5. Taken(r) = [queue EXCEPT ![r].events = Tail(e)]
  BY DEF Taken
<1>6. [queue[r] EXCEPT !.events = Tail(e)] \in Queues(P)
  BY <1>3, QueueContents DEF Queues
<1>7. Taken(r)[r].events = Tail(e) /\ \A p \in Readers \ {r} : Taken(r)[p] = queue[p]
  BY <1>5
<1>8. Taken(r) \in [Readers -> Queues(P)]
  BY <1>5, <1>6
<1> HIDE DEF e
<1>9. Event(r) = Head(e) /\ Head(e) \in ToSet(e)
  BY <1>2 DEF Event, ToSet, e
<1> QED
  BY <1>2, <1>4, <1>7, <1>8, <1>9 DEF e

\* At the start nothing is noted and nothing is on its way.
LEMMA InitIInv == Init => IInv
<1> SUFFICES ASSUME Init
             PROVE  IInv
  OBVIOUS
<1>1. Empty \in Queues(Packets) /\ ToSet(Empty.events) = {} /\ Empty.events = <<>>
  BY EmptyQueue
<1>2. QueueOK(Packets)
  BY <1>1 DEF Init, QueueOK, Queues
<1>3. TypeOK
  BY <1>2 DEF Init, TypeOK, Sync, At, Snapshots
<1>4. PeersInv /\ SilenceInv /\ StoredInv
  BY <1>1, ReadersAssumption DEF Init, PeersInv, SilenceInv, StoredInv, At
<1> QED
  BY <1>3, <1>4 DEF IInv

\* What waits in a queue is a packet.
LEMMA PacketsWait ==
  ASSUME IInv, NEW r \in Readers
  PROVE  ToSet(queue[r].events) \subseteq Packets
<1>1. queue[r] \in Queues(Packets)
  BY DEF IInv, TypeOK, QueueOK, Queues
<1>2. queue[r].events \in Seq(Packets)
  BY <1>1 DEF Queues
<1> QED
  BY <1>2 DEF ToSet

\* What r may note of an exchange in a step.
MayNote(r, s) ==
  /\ s \in Sync /\ s.peer # r /\ s.radio = sync[r].radio /\ s.state # "CLOSED"
  /\ s.saved \/ s.acked => s.peer # NoReader
  /\ TwoReaders =>
       /\ s.saved => \A p \in Others(r) : stored'[r][p] \in {"current", "old"}
       /\ s.acked => \A p \in Others(r) : stored'[p][r] \in {"current", "lost"}

\* What a step of r may leave on the way.
MayArrive(r) ==
  /\ queue' \in [Readers -> Queues(Packets)] /\ lossy' \in BOOLEAN
  /\ \A p \in Readers :
       /\ ~sync[p].radio => queue'[p].events = <<>>
       /\ \A m \in ToSet(queue'[p].events) :
            \/ m \in ToSet(queue[p].events)
            \/ p # r /\ m.from = r /\ (m.type = "ACK" => stored'[r][p] \in {"current", "lost"})

\* What a step of r may do to the snapshots, when it notes s.
MayStore(r, s) ==
  /\ stored' \in [Readers -> [Readers -> Snapshots]]
  /\ \A x, y \in Readers :
       \/ stored'[x][y] = stored[x][y]
       \/ x = r /\ (stored'[x][y] = "current" \/ (stored'[x][y] = "lost" /\ ~s.saved))

\* Such a step keeps the invariant.
LEMMA StepIInv ==
  ASSUME IInv, NEW r \in Readers, NEW s, sync' = [sync EXCEPT ![r] = s], compatible' = compatible,
         MayNote(r, s), MayArrive(r), MayStore(r, s)
  PROVE  IInv'
<1>1. sync \in [Readers -> Sync] /\ s \in Sync
  BY DEF IInv, TypeOK, MayNote
<1>2. TypeOK'
  BY <1>1 DEF IInv, TypeOK, MayArrive, MayStore, QueueOK, Queues
<1>3. PeersInv'
  BY DEF IInv, PeersInv, MayNote, MayArrive
<1>4. SilenceInv'
  BY <1>1 DEF IInv, SilenceInv, MayNote, MayArrive
<1>5. StoredInv'
  <2> SUFFICES ASSUME TwoReaders, NEW x \in Readers
               PROVE  /\ sync'[x].saved => \A p \in Others(x) : stored'[x][p] \in {"current", "old"}
                      /\ sync'[x].acked => \A p \in Others(x) : stored'[p][x] \in {"current", "lost"}
                      /\ \A m \in ToSet(queue'[x].events) :
                           m.type = "ACK" => stored'[m.from][x] \in {"current", "lost"}
    BY DEF StoredInv
  <2>1. /\ sync[x].saved => \A p \in Others(x) : stored[x][p] \in {"current", "old"}
        /\ sync[x].acked => \A p \in Others(x) : stored[p][x] \in {"current", "lost"}
        /\ \A m \in ToSet(queue[x].events) : m.type = "ACK" => stored[m.from][x] \in {"current", "lost"}
    BY DEF IInv, StoredInv
  <2>2. sync'[x].saved => \A p \in Others(x) : stored'[x][p] \in {"current", "old"}
    BY <1>1, <2>1 DEF MayNote, MayStore, Others
  <2>3. sync'[x].acked => \A p \in Others(x) : stored'[p][x] \in {"current", "lost"}
    BY <2>1 DEF MayNote, MayStore, Others
  <2>4. ASSUME NEW m \in ToSet(queue'[x].events), m.type = "ACK"
        PROVE  stored'[m.from][x] \in {"current", "lost"}
    <3>1. CASE m \in ToSet(queue[x].events)
      <4>1. m.from \in Readers /\ stored[m.from][x] \in {"current", "lost"}
        BY <2>1, <2>4, <3>1, PacketsWait DEF Packets
      <4> QED
        BY <4>1 DEF MayStore
    <3>2. CASE m \notin ToSet(queue[x].events)
      BY <2>4, <3>2 DEF MayArrive
    <3> QED
      BY <3>1, <3>2
  <2> QED
    BY <2>2, <2>3, <2>4
<1> QED
  BY <1>2, <1>3, <1>4, <1>5 DEF IInv

\* Nothing is sent or taken.
LEMMA QuietArrives ==
  ASSUME IInv, NEW r \in Readers, UNCHANGED air
  PROVE  MayArrive(r)
BY DEF IInv, TypeOK, QueueOK, Queues, SilenceInv, MayArrive, air

\* The head of the queue is taken.
LEMMA TakenArrives ==
  ASSUME IInv, NEW r \in Readers, HasEvent(r)
  PROVE  /\ Event(r) \in Packets /\ Event(r) \in ToSet(queue[r].events) /\ Event(r).from # r
         /\ Taken(r) \in [Readers -> Queues(Packets)]
         /\ \A p \in Readers :
              /\ ~sync[p].radio => Taken(r)[p].events = <<>>
              /\ ToSet(Taken(r)[p].events) \subseteq ToSet(queue[p].events)
<1>1. queue \in [Readers -> Queues(Packets)]
  BY DEF IInv, TypeOK, QueueOK, Queues
<1>2. sync[r].radio
  BY DEF HasEvent, IInv, SilenceInv
<1>3. /\ Event(r) \in Packets /\ Event(r) \in ToSet(queue[r].events)
      /\ Taken(r) \in [Readers -> Queues(Packets)]
      /\ \A p \in Readers : ToSet(Taken(r)[p].events) \subseteq ToSet(queue[p].events)
      /\ \A p \in Readers \ {r} : Taken(r)[p] = queue[p]
  BY <1>1, TakenKeeps
<1> QED
  BY <1>2, <1>3 DEF IInv, PeersInv, SilenceInv

\* A step that does no more.
LEMMA TakeOnlyArrives ==
  ASSUME IInv, NEW r \in Readers, HasEvent(r), TakeOnly(r)
  PROVE  MayArrive(r)
BY TakenArrives DEF TakeOnly, MayArrive, IInv, TypeOK

\* Packets of r are sent to others.
LEMMA SendArrives ==
  ASSUME IInv, NEW r \in Readers, NEW queues \in [Readers -> Queues(Packets)],
         \A p \in Readers :
           /\ ~sync[p].radio => queues[p].events = <<>>
           /\ ToSet(queues[p].events) \subseteq ToSet(queue[p].events),
         NEW to, r \notin to, NEW packets \in Seq(Packets), Send(queues, to, packets, Listening),
         \A m \in ToSet(packets) :
           m.from = r /\ (m.type = "ACK" => \A p \in to : stored'[r][p] \in {"current", "lost"})
  PROVE  MayArrive(r)
<1>1. /\ queue' \in [Readers -> Queues(Packets)] /\ lossy' = lossy
      /\ \A p \in Readers :
           /\ p \notin to \cap Listening => queue'[p] = queues[p]
           /\ ToSet(queue'[p].events) \subseteq ToSet(queues[p].events) \cup ToSet(packets)
  BY SendKeeps
<1>2. ASSUME NEW p \in Readers
      PROVE  /\ ~sync[p].radio => queue'[p].events = <<>>
             /\ \A m \in ToSet(queue'[p].events) :
                  \/ m \in ToSet(queue[p].events)
                  \/ p # r /\ m.from = r /\ (m.type = "ACK" => stored'[r][p] \in {"current", "lost"})
  <2>1. CASE p \in to
    BY <1>1 DEF Listening
  <2>2. CASE p \notin to
    BY <1>1 DEF Listening
  <2> QED
    BY <2>1, <2>2
<1> QED
  BY <1>1, <1>2 DEF MayArrive, IInv, TypeOK

\* A step that stores nothing and sends nothing.
LEMMA QuietStores ==
  ASSUME IInv, NEW r \in Readers, NEW s, UNCHANGED stored
  PROVE  MayStore(r, s)
BY DEF IInv, TypeOK, MayStore

\* A failure keeps nothing, nor do the other beginnings.
LEMMA FreshNotes ==
  ASSUME IInv, NEW r \in Readers, NEW state \in {"READY", "DISCOVERING", "SYNCED", "ERROR"}
  PROVE  MayNote(r, At(state, sync[r].radio))
BY ReadersAssumption DEF IInv, TypeOK, MayNote, At, Sync

\* What was noted stays true.
LEMMA SameNotes ==
  ASSUME IInv, NEW r \in Readers, Running(sync[r]), UNCHANGED stored, NEW sent \in BOOLEAN
  PROVE  MayNote(r, [sync[r] EXCEPT !.sent = sent])
<1>1. sync[r] \in Sync
  BY DEF IInv, TypeOK
<1>2. [sync[r] EXCEPT !.sent = sent] \in Sync /\ sync[r].state # "CLOSED"
  BY <1>1 DEF Sync, Running
<1> QED
  BY <1>2 DEF IInv, PeersInv, StoredInv, MayNote

\* What is known of a peer heard stays true.
LEMMA HeardNotes ==
  ASSUME IInv, NEW r \in Readers, NEW from \in Readers, from # r,
         \A p \in Readers :
           stored'[p] = stored[p] \/ (p = r /\ stored'[r] = [stored[r] EXCEPT ![from] = "current"])
  PROVE  /\ Heard(sync[r], from) \in Sync /\ Heard(sync[r], from).peer = from
         /\ Heard(sync[r], from).radio = sync[r].radio /\ Heard(sync[r], from).state = "SYNCING"
         /\ TwoReaders =>
              /\ Heard(sync[r], from).saved => \A p \in Others(r) : stored'[r][p] \in {"current", "old"}
              /\ Heard(sync[r], from).acked => \A p \in Others(r) : stored'[p][r] \in {"current", "lost"}
<1>1. sync[r] \in Sync /\ stored \in [Readers -> [Readers -> Snapshots]]
  BY DEF IInv, TypeOK
<1>2. CASE Running(sync[r])
  <2>1. Heard(sync[r], from) = [sync[r] EXCEPT !.state = "SYNCING", !.peer = from]
    BY <1>2 DEF Heard
  <2>2. /\ Heard(sync[r], from) \in Sync /\ Heard(sync[r], from).peer = from
        /\ Heard(sync[r], from).radio = sync[r].radio /\ Heard(sync[r], from).state = "SYNCING"
        /\ Heard(sync[r], from).saved = sync[r].saved /\ Heard(sync[r], from).acked = sync[r].acked
    BY <1>1, <2>1 DEF Sync
  <2>3. ASSUME TwoReaders, NEW p \in Others(r)
        PROVE  /\ sync[r].saved => stored'[r][p] \in {"current", "old"}
               /\ sync[r].acked => stored'[p][r] \in {"current", "lost"}
    <3>1. /\ sync[r].saved => stored[r][p] \in {"current", "old"}
          /\ sync[r].acked => stored[p][r] \in {"current", "lost"}
      BY <2>3 DEF IInv, StoredInv
    <3>2. p \in Readers /\ p # r /\ stored'[p] = stored[p]
      BY DEF Others
    <3>3. stored'[r][p] \in {stored[r][p], "current"}
      BY <1>1, <3>2
    <3> QED
      BY <3>1, <3>2, <3>3
  <2> QED
    BY <2>2, <2>3
<1>3. CASE ~Running(sync[r])
  <2>1. Heard(sync[r], from) = [At("SYNCING", sync[r].radio) EXCEPT !.state = "SYNCING", !.peer = from]
    BY <1>3 DEF Heard
  <2> QED
    BY <1>1, <2>1 DEF Sync, At
<1> QED
  BY <1>2, <1>3

\* Statistics go to the peer, after an acknowledgement or alone.
LEMMA StatsSent ==
  ASSUME IInv, NEW r \in Readers, NEW s, s.peer # r, s.radio = sync[r].radio,
         NEW queues \in [Readers -> Queues(Packets)],
         \A p \in Readers :
           /\ ~sync[p].radio => queues[p].events = <<>>
           /\ ToSet(queues[p].events) \subseteq ToSet(queue[p].events),
         NEW before, before = <<>> \/ (before = <<Ack(r)>> /\ stored'[r][s.peer] \in {"current", "lost"}),
         SendLocalStats(r, s, queues, before)
  PROVE  /\ \E sent \in BOOLEAN : sync' = [sync EXCEPT ![r] = [s EXCEPT !.sent = sent]]
         /\ MayArrive(r)
<1>1. Ack(r) \in Packets /\ Stats(r) \in Packets /\ Ack(r).from = r /\ Stats(r).from = r
        /\ Stats(r).type # "ACK"
  BY DEF Ack, Stats, Packets
<1> HIDE DEF Ack, Stats
<1>2. ASSUME NEW packets, packets \in {<<>>, before, Append(before, Stats(r))}
      PROVE  /\ packets \in Seq(Packets)
             /\ \A m \in ToSet(packets) :
                  m.from = r /\ (m.type = "ACK" => \A p \in {s.peer} : stored'[r][p] \in {"current", "lost"})
  <2>1. before \in Seq(Packets) /\ \A k \in DOMAIN before : before[k] = Ack(r) /\ before # <<>>
    <3>1. CASE before = <<>>
      BY <3>1
    <3>2. CASE before = <<Ack(r)>>
      BY <1>1, <3>2
    <3> QED
      BY <3>1, <3>2
  <2>2. /\ Append(before, Stats(r)) \in Seq(Packets)
        /\ \A k \in DOMAIN Append(before, Stats(r)) :
             Append(before, Stats(r))[k] = Stats(r) \/ (Append(before, Stats(r))[k] = Ack(r) /\ before # <<>>)
    BY <1>1, <2>1
  <2>3. packets \in Seq(Packets)
    <3>1. <<>> \in Seq(Packets)
      OBVIOUS
    <3> QED
      BY <1>2, <2>1, <2>2, <3>1
  <2>4. \A m \in ToSet(packets) : m = Stats(r) \/ (m = Ack(r) /\ before # <<>>)
    BY <1>2 DEF ToSet
  <2> QED
    BY <1>1, <2>3, <2>4
<1>3. PICK packets \in {<<>>, before, Append(before, Stats(r))}, sent \in BOOLEAN :
        /\ sync' = [sync EXCEPT ![r] = [s EXCEPT !.sent = sent]]
        /\ Send(queues, {s.peer}, packets, Listening)
  <2>1. CASE Becomes(r, [s EXCEPT !.sent = TRUE], queues, {s.peer}, Append(before, Stats(r)))
    BY <2>1 DEF Becomes
  <2>2. CASE Becomes(r, [s EXCEPT !.sent = FALSE], queues, {s.peer}, before)
    BY <2>2 DEF Becomes
  <2> QED
    BY <2>1, <2>2 DEF SendLocalStats
<1>4. packets \in Seq(Packets)
  BY <1>2
<1>5. \A m \in ToSet(packets) :
        m.from = r /\ (m.type = "ACK" => \A p \in {s.peer} : stored'[r][p] \in {"current", "lost"})
  BY <1>2
<1>6. MayArrive(r)
  <2> DEFINE to == {s.peer}
  <2>1. r \notin to /\ Send(queues, to, packets, Listening)
    BY <1>3
  <2>2. \A m \in ToSet(packets) :
          m.from = r /\ (m.type = "ACK" => \A p \in to : stored'[r][p] \in {"current", "lost"})
    BY <1>5
  <2> HIDE DEF to
  <2> QED
    BY <1>4, <2>1, <2>2, SendArrives
<1> QED
  BY <1>3, <1>6

\* Opening the screen: the radio is silent, so nothing is on its way.
LEMMA OpenIInv ==
  ASSUME IInv, NEW r \in Readers, Open(r)
  PROVE  IInv'
<1>1. PICK on \in BOOLEAN : sync' = [sync EXCEPT ![r] = At(IF on THEN "READY" ELSE "ERROR", on)]
  BY DEF Open, Changes
<1>2. UNCHANGED <<queue, lossy, stored, compatible>> /\ sync \in [Readers -> Sync]
  BY DEF Open, Changes, air, IInv, TypeOK
<1>3. queue[r].events = <<>>
  BY DEF Open, IInv, SilenceInv, At
<1>4. At(IF on THEN "READY" ELSE "ERROR", on) \in Sync
  BY DEF At, Sync
<1>5. TypeOK'
  BY <1>1, <1>2, <1>4 DEF IInv, TypeOK, QueueOK
<1>6. PeersInv' /\ SilenceInv'
  BY <1>1, <1>2, <1>3, ReadersAssumption DEF IInv, PeersInv, SilenceInv, At
<1>7. StoredInv'
  BY <1>1, <1>2 DEF IInv, StoredInv, At
<1> QED
  BY <1>5, <1>6, <1>7 DEF IInv

\* Leaving it: what waits is dropped.
LEMMA CloseIInv ==
  ASSUME IInv, NEW r \in Readers, Close(r)
  PROVE  IInv'
<1>1. /\ sync' = [sync EXCEPT ![r] = At("CLOSED", FALSE)] /\ queue' = [queue EXCEPT ![r] = Empty]
      /\ UNCHANGED <<lossy, stored, compatible>> /\ sync \in [Readers -> Sync]
      /\ queue \in [Readers -> Queues(Packets)]
  BY DEF Close, Clear, IInv, TypeOK, QueueOK, Queues
<1>2. At("CLOSED", FALSE) \in Sync /\ Empty \in Queues(Packets) /\ Empty.events = <<>>
        /\ ToSet(Empty.events) = {}
  BY EmptyQueue DEF At, Sync
<1>3. TypeOK'
  BY <1>1, <1>2 DEF IInv, TypeOK, QueueOK, Queues
<1>4. PeersInv' /\ SilenceInv'
  BY <1>1, <1>2, ReadersAssumption DEF IInv, PeersInv, SilenceInv, At
<1>5. StoredInv'
  BY <1>1, <1>2 DEF IInv, StoredInv, At
<1> QED
  BY <1>3, <1>4, <1>5 DEF IInv

\* Reading: the reader has noted nothing and nobody acknowledges to it.
LEMMA ReadIInv ==
  ASSUME IInv, NEW r \in Readers, Read(r)
  PROVE  IInv'
<1>1. /\ UNCHANGED <<queue, lossy, sync, compatible>> /\ sync[r] = At("CLOSED", FALSE)
      /\ stored \in [Readers -> [Readers -> Snapshots]]
      /\ stored' = [p \in Readers |->
                      IF stored[p][r] = "current" THEN [stored[p] EXCEPT ![r] = "old"] ELSE stored[p]]
  BY DEF Read, air, IInv, TypeOK, SilenceInv
<1>2. \A x, y \in Readers : /\ stored'[x][y] \in Snapshots
                            /\ y # r => stored'[x][y] = stored[x][y]
                            /\ stored[x][y] \in {"current", "old"} => stored'[x][y] \in {"current", "old"}
  BY <1>1 DEF Snapshots
<1>3. stored' \in [Readers -> [Readers -> Snapshots]]
  BY <1>1 DEF Snapshots
<1>4. TypeOK' /\ PeersInv' /\ SilenceInv'
  BY <1>1, <1>3 DEF IInv, TypeOK, QueueOK, PeersInv, SilenceInv
<1>5. StoredInv'
  <2>1. ~sync[r].acked /\ queue[r].events = <<>>
    BY <1>1 DEF IInv, SilenceInv, At
  <2>2. ToSet(queue[r].events) = {}
    BY <2>1 DEF ToSet
  <2> SUFFICES ASSUME TwoReaders, NEW x \in Readers
               PROVE  /\ sync[x].saved => \A p \in Others(x) : stored'[x][p] \in {"current", "old"}
                      /\ sync[x].acked => \A p \in Others(x) : stored'[p][x] \in {"current", "lost"}
                      /\ \A m \in ToSet(queue[x].events) :
                           m.type = "ACK" => stored'[m.from][x] \in {"current", "lost"}
    BY <1>1 DEF StoredInv
  <2>3. /\ sync[x].saved => \A p \in Others(x) : stored[x][p] \in {"current", "old"}
        /\ sync[x].acked => \A p \in Others(x) : stored[p][x] \in {"current", "lost"}
        /\ \A m \in ToSet(queue[x].events) : m.type = "ACK" => stored[m.from][x] \in {"current", "lost"}
    BY DEF IInv, StoredInv
  <2>4. \A m \in ToSet(queue[x].events) : m.from \in Readers
    BY PacketsWait DEF Packets
  <2> QED
    BY <1>2, <2>1, <2>2, <2>3, <2>4 DEF Others
<1> QED
  BY <1>4, <1>5 DEF IInv

\* A step that ends in a state with nothing noted.
LEMMA FreshIInv ==
  ASSUME IInv, NEW r \in Readers, NEW state \in {"READY", "DISCOVERING", "SYNCED", "ERROR"},
         sync' = [sync EXCEPT ![r] = At(state, sync[r].radio)], MayArrive(r), UNCHANGED <<stored, compatible>>
  PROVE  IInv'
BY FreshNotes, QuietStores, StepIInv

\* HELLO to all the others.
LEMMA HelloArrives ==
  ASSUME IInv, NEW r \in Readers, NEW s, Becomes(r, s, queue, Readers \ {r}, <<Hello(r)>>)
  PROVE  MayArrive(r)
<1>1. Hello(r) \in Packets /\ Hello(r).from = r /\ Hello(r).type # "ACK"
  BY DEF Hello, Packets
<1>2. PICK packets \in {<<>>, <<Hello(r)>>} : Send(queue, Readers \ {r}, packets, Listening)
  BY DEF Becomes
<1>3. packets \in Seq(Packets) /\ \A m \in ToSet(packets) : m = Hello(r)
  <2>1. CASE packets = <<>>
    BY <2>1 DEF ToSet
  <2>2. CASE packets = <<Hello(r)>>
    BY <1>1, <2>2 DEF ToSet
  <2> QED
    BY <2>1, <2>2
<1>4. queue \in [Readers -> Queues(Packets)]
  BY DEF IInv, TypeOK, QueueOK, Queues
<1> QED
  BY <1>1, <1>2, <1>3, <1>4, SendArrives DEF IInv, SilenceInv

\* updateSyncProgress sends the statistics again: nothing else changes.
LEMMA ResendIInv ==
  ASSUME IInv, NEW r \in Readers, ResendStats(r)
  PROVE  IInv'
<1>1. /\ Running(sync[r]) /\ sync[r].peer # r /\ SendLocalStats(r, sync[r], queue, <<>>)
      /\ UNCHANGED <<stored, compatible>>
  BY DEF ResendStats, IInv, PeersInv
<1>2. queue \in [Readers -> Queues(Packets)]
  BY DEF IInv, TypeOK, QueueOK, Queues
<1>3. /\ \E sent \in BOOLEAN : sync' = [sync EXCEPT ![r] = [sync[r] EXCEPT !.sent = sent]]
      /\ MayArrive(r)
  BY <1>1, <1>2, StatsSent DEF IInv, SilenceInv
<1> QED
  BY <1>1, <1>3, SameNotes, QuietStores, StepIInv

\* HELLO draws a reader in, or changes its peer.
LEMMA ReceiveHelloIInv ==
  ASSUME IInv, NEW r \in Readers, ReceiveHello(r)
  PROVE  IInv'
<1> DEFINE s == Heard(sync[r], Event(r).from)
<1>1. /\ HasEvent(r) /\ SendLocalStats(r, s, Taken(r), <<>>)
      /\ UNCHANGED <<stored, compatible>>
  BY DEF ReceiveHello, Handles
<1>2. Event(r).from \in Readers /\ Event(r).from # r
  BY <1>1, TakenArrives DEF Packets
<1>3. /\ s \in Sync /\ s.peer = Event(r).from /\ s.radio = sync[r].radio /\ s.state = "SYNCING"
      /\ TwoReaders => /\ s.saved => \A p \in Others(r) : stored'[r][p] \in {"current", "old"}
                       /\ s.acked => \A p \in Others(r) : stored'[p][r] \in {"current", "lost"}
  BY <1>1, <1>2, HeardNotes
<1> HIDE DEF s
<1>4. (\E sent \in BOOLEAN : sync' = [sync EXCEPT ![r] = [s EXCEPT !.sent = sent]]) /\ MayArrive(r)
  BY <1>1, <1>3, TakenArrives, StatsSent
<1>5. PICK sent \in BOOLEAN : sync' = [sync EXCEPT ![r] = [s EXCEPT !.sent = sent]]
  BY <1>4
<1>6. MayNote(r, [s EXCEPT !.sent = sent])
  BY <1>2, <1>3, ReadersAssumption DEF MayNote, Sync
<1> QED
  BY <1>1, <1>4, <1>5, <1>6, QuietStores, StepIInv

\* STATS are stored first, then noted and acknowledged.
LEMMA ReceiveStatsIInv ==
  ASSUME IInv, NEW r \in Readers, ReceiveStats(r)
  PROVE  IInv'
<1> DEFINE from == Event(r).from
           h == Heard(sync[r], from)
           s == [h EXCEPT !.saved = TRUE]
<1>1. /\ HasEvent(r) /\ stored' = [stored EXCEPT ![r][from] = "current"] /\ compatible' = compatible
      /\ \/ Becomes(r, s, Taken(r), {from}, <<Ack(r)>>)
         \/ SendLocalStats(r, s, Taken(r), <<Ack(r)>>)
  BY DEF ReceiveStats, Handles
<1>2. from \in Readers /\ from # r /\ from # NoReader
  BY <1>1, TakenArrives, ReadersAssumption DEF Packets
<1>3. /\ stored \in [Readers -> [Readers -> Snapshots]] /\ stored' \in [Readers -> [Readers -> Snapshots]]
      /\ stored'[r] = [stored[r] EXCEPT ![from] = "current"] /\ stored'[r][from] = "current"
      /\ \A p \in Readers \ {r} : stored'[p] = stored[p]
  BY <1>1, <1>2 DEF IInv, TypeOK, Snapshots
<1>4. /\ h \in Sync /\ h.peer = from /\ h.radio = sync[r].radio /\ h.state = "SYNCING"
      /\ TwoReaders => (h.acked => \A p \in Others(r) : stored'[p][r] \in {"current", "lost"})
  BY <1>2, <1>3, HeardNotes
<1> HIDE DEF h, from
<1>5. s \in Sync /\ s.peer = from /\ s.radio = sync[r].radio /\ s.state = "SYNCING" /\ s.acked = h.acked
  BY <1>4 DEF Sync
<1>6. TwoReaders => \A p \in Others(r) : stored'[r][p] \in {"current", "old"}
  BY <1>2, <1>3 DEF TwoReaders, Others
<1> HIDE DEF s
<1>7. \E sent \in BOOLEAN : sync' = [sync EXCEPT ![r] = [s EXCEPT !.sent = sent]]
  <2>1. s.sent \in BOOLEAN /\ s = [s EXCEPT !.sent = s.sent]
    BY <1>5 DEF Sync
  <2>2. CASE Becomes(r, s, Taken(r), {from}, <<Ack(r)>>)
    BY <2>1, <2>2 DEF Becomes
  <2>3. CASE SendLocalStats(r, s, Taken(r), <<Ack(r)>>)
    BY <2>3 DEF SendLocalStats, Becomes
  <2> QED
    BY <1>1, <2>2, <2>3
<1>8. MayArrive(r)
  <2>1. CASE Becomes(r, s, Taken(r), {from}, <<Ack(r)>>)
    <3>1. Ack(r) \in Packets /\ Ack(r).from = r
      BY DEF Ack, Packets
    <3>2. PICK packets \in {<<>>, <<Ack(r)>>} : Send(Taken(r), {from}, packets, Listening)
      BY <2>1 DEF Becomes
    <3>3. packets \in Seq(Packets) /\ \A m \in ToSet(packets) : m = Ack(r)
      <4>1. CASE packets = <<>>
        BY <4>1 DEF ToSet
      <4>2. CASE packets = <<Ack(r)>>
        BY <3>1, <4>2 DEF ToSet
      <4> QED
        BY <4>1, <4>2
    <3> DEFINE to == {from}
    <3>4. r \notin to /\ \A p \in to : stored'[r][p] \in {"current", "lost"}
      BY <1>2, <1>3
    <3>5. Send(Taken(r), to, packets, Listening)
      BY <3>2
    <3> HIDE DEF to
    <3> QED
      BY <1>1, <3>1, <3>3, <3>4, <3>5, TakenArrives, SendArrives
  <2>2. CASE SendLocalStats(r, s, Taken(r), <<Ack(r)>>)
    BY <1>1, <1>2, <1>3, <1>5, <2>2, TakenArrives, StatsSent
  <2> QED
    BY <1>1, <2>1, <2>2
<1>9. PICK sent \in BOOLEAN : sync' = [sync EXCEPT ![r] = [s EXCEPT !.sent = sent]]
  BY <1>7
<1>10. MayNote(r, [s EXCEPT !.sent = sent])
  BY <1>2, <1>4, <1>5, <1>6 DEF MayNote, Sync
<1>11. MayStore(r, [s EXCEPT !.sent = sent])
  BY <1>3 DEF MayStore
<1> QED
  BY <1>1, <1>8, <1>9, <1>10, <1>11, StepIInv

\* Writing fails: the snapshot may be lost, and nothing is noted.
LEMMA WriteFailsIInv ==
  ASSUME IInv, NEW r \in Readers, WriteFails(r)
  PROVE  IInv'
<1> DEFINE s == At("ERROR", sync[r].radio)
<1>1. /\ HasEvent(r) /\ TakeOnly(r) /\ sync' = [sync EXCEPT ![r] = s] /\ compatible' = compatible
      /\ stored' = stored \/ stored' = [stored EXCEPT ![r][Event(r).from] = "lost"]
  BY DEF WriteFails, Handles, Failed
<1>2. s \in Sync /\ ~s.saved /\ ~s.acked /\ s.peer = NoReader /\ s.radio = sync[r].radio /\ s.state = "ERROR"
  BY DEF At, Sync, IInv, TypeOK
<1> HIDE DEF s
<1>3. MayNote(r, s)
  BY <1>2, ReadersAssumption DEF MayNote
<1>4. stored \in [Readers -> [Readers -> Snapshots]] /\ "lost" \in Snapshots
  BY DEF IInv, TypeOK, Snapshots
<1>5. MayStore(r, s)
  <2>1. CASE stored' = stored
    BY <2>1, QuietStores
  <2>2. CASE stored' = [stored EXCEPT ![r][Event(r).from] = "lost"]
    <3>1. \A x, y \in Readers : stored'[x][y] = stored[x][y] \/ (x = r /\ stored'[x][y] = "lost")
      BY <2>2
    <3>2. stored' \in [Readers -> [Readers -> Snapshots]]
      BY <1>4, <2>2
    <3> QED
      BY <1>2, <3>1, <3>2 DEF MayStore
  <2> QED
    BY <1>1, <2>1, <2>2
<1> QED
  BY <1>1, <1>3, <1>5, TakeOnlyArrives, StepIInv

\* ACK says that the other reader has stored.
LEMMA ReceiveAckIInv ==
  ASSUME IInv, NEW r \in Readers, ReceiveAck(r)
  PROVE  IInv'
<1> DEFINE from == Event(r).from
           h == Heard(sync[r], from)
           s == [h EXCEPT !.acked = TRUE]
<1>1. /\ HasEvent(r) /\ Event(r).type = "ACK" /\ TakeOnly(r) /\ sync' = [sync EXCEPT ![r] = s]
      /\ UNCHANGED <<stored, compatible>>
  BY DEF ReceiveAck, Handles
<1>2. from \in Readers /\ from # r /\ from # NoReader /\ Event(r) \in ToSet(queue[r].events)
  BY <1>1, TakenArrives, ReadersAssumption DEF Packets
<1>3. TwoReaders => \A p \in Others(r) : stored[p][r] \in {"current", "lost"}
  BY <1>1, <1>2 DEF IInv, StoredInv, TwoReaders, Others
<1>4. /\ h \in Sync /\ h.peer = from /\ h.radio = sync[r].radio /\ h.state = "SYNCING"
      /\ TwoReaders => (h.saved => \A p \in Others(r) : stored'[r][p] \in {"current", "old"})
  BY <1>1, <1>2, HeardNotes
<1> HIDE DEF h, from
<1>5. MayNote(r, s)
  BY <1>1, <1>2, <1>3, <1>4 DEF MayNote, Sync
<1> QED
  BY <1>1, <1>5, TakeOnlyArrives, QuietStores, StepIInv

\* A full queue is dropped.
LEMMA OverflowIInv ==
  ASSUME IInv, NEW r \in Readers, Overflow(r)
  PROVE  IInv'
<1>1. /\ sync' = [sync EXCEPT ![r] = At("ERROR", sync[r].radio)] /\ queue' = [queue EXCEPT ![r] = Empty]
      /\ UNCHANGED <<lossy, stored, compatible>> /\ queue \in [Readers -> Queues(Packets)]
  BY DEF Overflow, Clear, Failed, IInv, TypeOK, QueueOK, Queues
<1>2. MayArrive(r)
  BY <1>1, EmptyQueue DEF MayArrive, IInv, TypeOK, SilenceInv
<1> QED
  BY <1>1, <1>2, FreshIInv

\* Every step keeps the invariant.
LEMMA NextIInv == IInv /\ [Next]_vars => IInv'
<1> SUFFICES ASSUME IInv, [Next]_vars
             PROVE  IInv'
  OBVIOUS
<1>1. CASE Clears
  BY <1>1 DEF Clears, AirClears, IInv, TypeOK, QueueOK, PeersInv, SilenceInv, StoredInv
<1>2. CASE UNCHANGED vars
  BY <1>2 DEF vars, air, IInv, TypeOK, QueueOK, PeersInv, SilenceInv, StoredInv
<1>3. ASSUME NEW r \in Readers, User(r)
      PROVE  IInv'
  <2>1. CASE StartSync(r)
    <3>1. CASE Changes(r, Failed(sync[r])) /\ UNCHANGED <<stored, compatible>>
      BY <3>1, QuietArrives, FreshIInv DEF Changes, Failed
    <3>2. CASE Becomes(r, At("DISCOVERING", sync[r].radio), queue, Readers \ {r}, <<Hello(r)>>)
                /\ UNCHANGED <<stored, compatible>>
      BY <3>2, HelloArrives, FreshIInv DEF Becomes
    <3> QED
      BY <2>1, <3>1, <3>2 DEF StartSync
  <2> QED
    BY <1>3, <2>1, OpenIInv, CloseIInv, ReadIInv DEF User
<1>4. ASSUME NEW r \in Readers, Handle(r)
      PROVE  IInv'
  <2>1. CASE IgnoreInError(r)
    <3>1. /\ HasEvent(r) /\ TakeOnly(r) /\ sync[r].state = "ERROR" /\ sync' = sync
          /\ UNCHANGED <<stored, compatible>>
      BY <2>1 DEF IgnoreInError
    <3>2. MayArrive(r)
      BY <3>1, TakeOnlyArrives
    <3>3. TypeOK'
      BY <3>1, <3>2 DEF MayArrive, IInv, TypeOK, QueueOK, Queues
    <3>4. /\ \A p \in Readers : ToSet(queue'[p].events) \subseteq ToSet(queue[p].events)
          /\ \A p \in Readers : ~sync[p].radio => queue'[p].events = <<>>
      <4>1. queue' = Taken(r)
        BY <3>1 DEF TakeOnly
      <4>2. \A p \in Readers : /\ ~sync[p].radio => Taken(r)[p].events = <<>>
                               /\ ToSet(Taken(r)[p].events) \subseteq ToSet(queue[p].events)
        BY <3>1, TakenArrives
      <4> QED
        BY <4>1, <4>2
    <3>5. PeersInv' /\ SilenceInv'
      BY <3>1, <3>4 DEF IInv, PeersInv, SilenceInv
    <3>6. StoredInv'
      BY <3>1, <3>4 DEF IInv, StoredInv
    <3> QED
      BY <3>3, <3>5, <3>6 DEF IInv
  <2>2. CASE PrepareFails(r) \/ RefuseStats(r)
    BY <2>2, TakeOnlyArrives, FreshIInv DEF PrepareFails, RefuseStats, Handles, Failed
  <2> QED
    BY <1>4, <2>1, <2>2, ReceiveHelloIInv, ReceiveStatsIInv, WriteFailsIInv, ReceiveAckIInv, OverflowIInv DEF
       Handle
<1>5. ASSUME NEW r \in Readers, TimeOut(r) \/ FinishSync(r)
      PROVE  IInv'
  BY <1>5, QuietArrives, FreshIInv DEF TimeOut, FinishSync, Changes, Failed
<1>6. ASSUME NEW r \in Readers, SendHello(r)
      PROVE  IInv'
  <2>1. Becomes(r, sync[r], queue, Readers \ {r}, <<Hello(r)>>) /\ Running(sync[r])
          /\ UNCHANGED <<stored, compatible>>
    BY <1>6 DEF SendHello
  <2>2. sync[r].sent \in BOOLEAN /\ sync[r] = [sync[r] EXCEPT !.sent = sync[r].sent]
    BY DEF IInv, TypeOK, Sync
  <2>3. MayNote(r, sync[r])
    BY <2>1, <2>2, SameNotes
  <2> QED
    BY <2>1, <2>3, HelloArrives, QuietStores, StepIInv DEF Becomes
<1> QED
  BY <1>1, <1>2, <1>3, <1>4, <1>5, <1>6, ResendIInv DEF Next, Loop, Advance

\* The inductive invariant holds in every state, for any readers.
THEOREM Invariance == Spec => []IInv
BY InitIInv, NextIInv, PTL DEF Spec

\* Every variable keeps its type.
THEOREM TypeCorrect == Spec => []TypeOK
<1>1. IInv => TypeOK
  BY DEF IInv
<1> QED
  BY <1>1, Invariance, PTL

\* SYNCED is entered nowhere else.
LEMMA OnlyFinishSync ==
  ASSUME IInv, [Next]_vars, NEW r \in Readers, sync[r].state # "SYNCED", sync'[r].state = "SYNCED"
  PROVE  FinishSync(r)
<1>1. sync \in [Readers -> Sync]
  BY DEF IInv, TypeOK
<1>2. PICK x \in Readers : User(x) \/ Loop(x)
  BY DEF Next, Clears, vars
<1>3. ASSUME NEW state \in {"CLOSED", "READY", "DISCOVERING", "ERROR"}, NEW on \in BOOLEAN,
             sync' = [sync EXCEPT ![x] = At(state, on)]
      PROVE  FALSE
  BY <1>3 DEF At
<1>4. sync[x].radio \in BOOLEAN
  BY <1>1 DEF Sync
<1>5. ASSUME Running(sync[x]), NEW sent \in BOOLEAN,
             sync' = [sync EXCEPT ![x] = [sync[x] EXCEPT !.sent = sent]]
      PROVE  FALSE
  BY <1>5
<1>6. ASSUME NEW s, s.state = "SYNCING", sync' = [sync EXCEPT ![x] = s]
      PROVE  FALSE
  BY <1>6
<1>7. CASE User(x)
  <2>1. CASE Open(x)
    BY <1>3, <2>1 DEF Open, Changes
  <2>2. CASE Close(x)
    BY <1>3, <2>2 DEF Close
  <2>3. CASE StartSync(x)
    BY <1>3, <1>4, <2>3 DEF StartSync, Changes, Becomes, Failed
  <2> QED
    BY <1>7, <2>1, <2>2, <2>3 DEF User, Read
<1>8. CASE Handle(x)
  <2>1. Heard(sync[x], Event(x).from) \in [state : {"SYNCING"}, radio : BOOLEAN, peer : {Event(x).from},
                                           saved : BOOLEAN, sent : BOOLEAN, acked : BOOLEAN]
    BY <1>1 DEF Heard, At, Sync
  <2> HIDE DEF Heard
  <2>2. CASE ReceiveHello(x)
    <3>1. \E sent \in BOOLEAN : sync' =
            [sync EXCEPT ![x] = [Heard(sync[x], Event(x).from) EXCEPT !.sent = sent]]
      BY <2>2 DEF ReceiveHello, SendLocalStats, Becomes
    <3> QED
      BY <2>1, <3>1
  <2>3. CASE ReceiveStats(x)
    <3> DEFINE s == [Heard(sync[x], Event(x).from) EXCEPT !.saved = TRUE]
    <3>1. \/ Becomes(x, s, Taken(x), {Event(x).from}, <<Ack(x)>>)
          \/ SendLocalStats(x, s, Taken(x), <<Ack(x)>>)
      BY <2>3 DEF ReceiveStats
    <3>2. s.state = "SYNCING" /\ \A sent \in BOOLEAN : [s EXCEPT !.sent = sent].state = "SYNCING"
      BY <2>1
    <3> HIDE DEF s
    <3>3. \/ sync' = [sync EXCEPT ![x] = s]
          \/ \E sent \in BOOLEAN : sync' = [sync EXCEPT ![x] = [s EXCEPT !.sent = sent]]
      BY <3>1 DEF SendLocalStats, Becomes
    <3> QED
      BY <1>6, <3>2, <3>3
  <2>4. CASE ReceiveAck(x)
    <3>1. sync' = [sync EXCEPT ![x] = [Heard(sync[x], Event(x).from) EXCEPT !.acked = TRUE]]
      BY <2>4 DEF ReceiveAck
    <3> QED
      BY <2>1, <3>1
  <2>5. CASE PrepareFails(x) \/ RefuseStats(x) \/ WriteFails(x) \/ Overflow(x)
    BY <1>3, <1>4, <2>5 DEF PrepareFails, RefuseStats, WriteFails, Overflow, Failed
  <2> QED
    BY <1>8, <2>2, <2>3, <2>4, <2>5 DEF Handle, IgnoreInError
<1>9. CASE TimeOut(x)
  BY <1>3, <1>4, <1>9 DEF TimeOut, Changes, Failed
<1>10. CASE FinishSync(x)
  BY <1>1, <1>10 DEF FinishSync, Changes
<1>11. CASE SendHello(x)
  BY <1>11 DEF SendHello, Becomes
<1>12. CASE ResendStats(x)
  BY <1>5, <1>12 DEF ResendStats, SendLocalStats, Becomes
<1> QED
  BY <1>2, <1>7, <1>8, <1>9, <1>10, <1>11, <1>12 DEF Loop, Advance

\* Between two readers SYNCED is entered only when each has stored what the other keeps, or
\* its card has failed since, whatever was lost, repeated or late.
THEOREM BothStored ==
  ASSUME TwoReaders
  PROVE  Spec => SyncedMeansStored
<1>1. IInv /\ [Next]_vars =>
        [\A r \in Readers : sync[r].state # "SYNCED" /\ sync'[r].state = "SYNCED" =>
           LET p == sync[r].peer IN
           stored[r][p] \in {"current", "old"} /\ stored[p][r] \in {"current", "lost"}]_vars
  <2> SUFFICES ASSUME IInv, [Next]_vars, NEW r \in Readers, sync[r].state # "SYNCED",
                      sync'[r].state = "SYNCED"
               PROVE  /\ stored[r][sync[r].peer] \in {"current", "old"}
                      /\ stored[sync[r].peer][r] \in {"current", "lost"}
    OBVIOUS
  <2>1. FinishSync(r)
    BY OnlyFinishSync
  <2>2. sync[r].saved /\ sync[r].acked
    BY <2>1 DEF FinishSync, Finished
  <2>3. sync[r].peer \in Others(r)
    BY <2>2 DEF IInv, TypeOK, PeersInv, Sync, Others
  <2> QED
    BY <2>2, <2>3 DEF IInv, StoredInv
<1> QED
  BY <1>1, Invariance, PTL DEF Spec, SyncedMeansStored

-----------------------------------------------------------------------------
(* The positions.  They use the same radio, so what was proved of it is    *)
(* true of the instance.                                                   *)

CONSTANTS
  Places,
  NoPlace

VARIABLES
  sharing,          \* the activity of each reader: `sync' of NearbyPositionSync
  here,
  shown,
  repaint,
  match,
  heard

Share == INSTANCE NearbyPositionSync WITH sync <- sharing

\* A sequence has the same elements there, and nothing waits in an empty queue.
LEMMA ShareEmptyQueue ==
  ASSUME NEW P
  PROVE  Share!Empty \in Queues(P) /\ Share!Empty.events = <<>> /\ Share!ToSet(Share!Empty.events) = {}
BY EmptyQueue DEF Empty, ToSet, Share!Empty, Share!ToSet

\* Only those addressed hear, and only what is sent.
LEMMA ShareSendKeeps ==
  ASSUME NEW P, NEW queues \in [Readers -> Queues(P)], NEW to, NEW packets \in Seq(P), NEW listening,
         Share!Send(queues, to, packets, listening)
  PROVE  /\ queue' \in [Readers -> Queues(P)] /\ lossy' = lossy
         /\ \A p \in Readers :
              /\ p \notin to \cap listening => queue'[p] = queues[p]
              /\ Share!ToSet(queue'[p].events)
                   \subseteq Share!ToSet(queues[p].events) \cup Share!ToSet(packets)
<1>1. Send(queues, to, packets, listening)
  <2>1. /\ \A q, sent : Share!Enqueue(q, sent) = Enqueue(q, sent)
        /\ Share!SubSeqs(packets) = SubSeqs(packets)
    BY DEF Enqueue, SubSeqs, Share!Enqueue, Share!SubSeqs
  <2> QED
    BY <2>1 DEF Send, Share!Send
<1>2. \A s : Share!ToSet(s) = ToSet(s)
  BY DEF ToSet, Share!ToSet
<1>3. /\ queue' \in [Readers -> Queues(P)] /\ lossy' = lossy
      /\ \A p \in Readers :
           /\ p \notin to \cap listening => queue'[p] = queues[p]
           /\ ToSet(queue'[p].events) \subseteq ToSet(queues[p].events) \cup ToSet(packets)
  BY <1>1, SendKeeps
<1> QED
  BY <1>2, <1>3

\* The head of a queue is a packet, and the others stay.
LEMMA ShareTakenKeeps ==
  ASSUME NEW P, queue \in [Readers -> Queues(P)], NEW r \in Readers, Share!HasEvent(r)
  PROVE  /\ Share!Event(r) \in P /\ Share!Event(r) \in Share!ToSet(queue[r].events)
         /\ Share!Taken(r) \in [Readers -> Queues(P)]
         /\ \A p \in Readers : Share!ToSet(Share!Taken(r)[p].events) \subseteq Share!ToSet(queue[p].events)
         /\ \A p \in Readers \ {r} : Share!Taken(r)[p] = queue[p]
<1>1. HasEvent(r) /\ Share!Event(r) = Event(r) /\ Share!Taken(r) = Taken(r)
  BY DEF HasEvent, Event, Taken, Share!HasEvent, Share!Event, Share!Taken
<1>2. \A s : Share!ToSet(s) = ToSet(s)
  BY DEF ToSet, Share!ToSet
<1> QED
  BY <1>1, <1>2, TakenKeeps

\* At the start nothing was received and nothing is on its way.
LEMMA ShareInitIInv == Share!Init => Share!IInv
<1> SUFFICES ASSUME Share!Init
             PROVE  Share!IInv
  OBVIOUS
<1>1. Share!Empty \in Queues(Share!Packets) /\ Share!ToSet(Share!Empty.events) = {}
  BY ShareEmptyQueue
<1>2. Share!QueueOK(Share!Packets)
  BY <1>1 DEF Share!Init, Share!QueueOK, Queues
<1>3. Share!At("CLOSED", FALSE) \in Share!Sync
  BY DEF Share!At, Share!Sync
<1>4. Share!TypeOK
  BY <1>2, <1>3 DEF Share!Init, Share!TypeOK
<1>5. Share!PeersInv /\ Share!HeardInv /\ Share!PlacesInv
  BY <1>1, ReadersAssumption DEF Share!Init, Share!PeersInv, Share!HeardInv, Share!PlacesInv, Share!At
<1> QED
  BY <1>4, <1>5 DEF Share!IInv

\* What r may note of an exchange in a step.
ShareMayNote(r, s) ==
  /\ s \in Share!Sync /\ s.peer # r
  /\ s.received \/ s.state = "SHOWING_RESULT" =>
       s.got \in Places /\ (Share!TwoReaders => Share!Others(r) \subseteq heard')

\* What a step of r may leave on the way.
ShareMayArrive(r) ==
  /\ queue' \in [Readers -> Queues(Share!Packets)] /\ lossy' \in BOOLEAN
  /\ \A p \in Readers : \A m \in Share!ToSet(queue'[p].events) :
       \/ m \in Share!ToSet(queue[p].events)
       \/ /\ p # r /\ m.from = r
          /\ m.type = "ACK" => (Share!TwoReaders => p \in heard')
          /\ m.type = "POSITION" => m.at \in Places

\* What a step may do besides.
ShareMayChange ==
  /\ here' \in [Readers -> Places] /\ match' = match
  /\ shown' \in [Readers -> Places \cup {NoPlace}] /\ repaint' \in [Readers -> BOOLEAN]
  /\ heard \subseteq heard' /\ heard' \subseteq Readers

\* Such a step keeps the invariant.
LEMMA ShareStepIInv ==
  ASSUME Share!IInv, NEW r \in Readers, NEW s, sharing' = [sharing EXCEPT ![r] = s],
         ShareMayNote(r, s), ShareMayArrive(r), ShareMayChange
  PROVE  Share!IInv'
<1>1. sharing \in [Readers -> Share!Sync] /\ s \in Share!Sync
  BY DEF Share!IInv, Share!TypeOK, ShareMayNote
<1>2. Share!TypeOK'
  BY <1>1 DEF Share!IInv, Share!TypeOK, ShareMayArrive, ShareMayChange, Share!QueueOK, Queues
<1>3. Share!PeersInv'
  BY DEF Share!IInv, Share!PeersInv, ShareMayNote, ShareMayArrive
<1>4. Share!HeardInv'
  BY DEF Share!IInv, Share!HeardInv, ShareMayNote, ShareMayArrive, ShareMayChange
<1>5. Share!PlacesInv'
  BY DEF Share!IInv, Share!PlacesInv, ShareMayNote, ShareMayArrive
<1> QED
  BY <1>2, <1>3, <1>4, <1>5 DEF Share!IInv

\* Nothing is sent or taken.
LEMMA ShareQuietArrives ==
  ASSUME Share!IInv, NEW r \in Readers, UNCHANGED Share!air
  PROVE  ShareMayArrive(r)
BY DEF Share!IInv, Share!TypeOK, Share!QueueOK, Queues, ShareMayArrive, Share!air

\* The head of the queue is taken.
LEMMA ShareTakenArrives ==
  ASSUME Share!IInv, NEW r \in Readers, Share!HasEvent(r)
  PROVE  /\ Share!Event(r) \in Share!Packets /\ Share!Event(r) \in Share!ToSet(queue[r].events)
         /\ Share!Event(r).from # r
         /\ Share!Taken(r) \in [Readers -> Queues(Share!Packets)]
         /\ \A p \in Readers : Share!ToSet(Share!Taken(r)[p].events) \subseteq Share!ToSet(queue[p].events)
<1>1. queue \in [Readers -> Queues(Share!Packets)]
  BY DEF Share!IInv, Share!TypeOK, Share!QueueOK, Queues
<1>2. /\ Share!Event(r) \in Share!Packets /\ Share!Event(r) \in Share!ToSet(queue[r].events)
      /\ Share!Taken(r) \in [Readers -> Queues(Share!Packets)]
      /\ \A p \in Readers : Share!ToSet(Share!Taken(r)[p].events) \subseteq Share!ToSet(queue[p].events)
  BY <1>1, ShareTakenKeeps
<1> QED
  BY <1>2 DEF Share!IInv, Share!PeersInv

\* A step that does no more.
LEMMA ShareTakeOnlyArrives ==
  ASSUME Share!IInv, NEW r \in Readers, Share!HasEvent(r), Share!TakeOnly(r)
  PROVE  ShareMayArrive(r)
BY ShareTakenArrives DEF Share!TakeOnly, ShareMayArrive, Share!IInv, Share!TypeOK

\* Packets of r are sent to others.
LEMMA ShareSendArrives ==
  ASSUME Share!IInv, NEW r \in Readers, NEW queues \in [Readers -> Queues(Share!Packets)],
         \A p \in Readers : Share!ToSet(queues[p].events) \subseteq Share!ToSet(queue[p].events),
         NEW to, r \notin to, NEW packets \in Seq(Share!Packets),
         Share!Sends(r, queues, to, packets),
         \A m \in Share!ToSet(packets) :
           /\ m.from = r
           /\ m.type = "ACK" => (Share!TwoReaders => to \cap Readers \subseteq heard')
           /\ m.type = "POSITION" => m.at \in Places
  PROVE  ShareMayArrive(r)
<1>1. PICK some \in Seq(Share!Packets) :
        Share!Send(queues, to, some, Share!Listening) /\ Share!ToSet(some) \subseteq Share!ToSet(packets)
  <2>1. <<>> \in Seq(Share!Packets) /\ Share!ToSet(<<>>) = {}
    BY DEF Share!ToSet
  <2> QED
    BY <2>1 DEF Share!Sends
<1>2. /\ queue' \in [Readers -> Queues(Share!Packets)] /\ lossy' = lossy
      /\ \A p \in Readers :
           /\ p \notin to \cap Share!Listening => queue'[p] = queues[p]
           /\ Share!ToSet(queue'[p].events) \subseteq Share!ToSet(queues[p].events) \cup Share!ToSet(some)
  BY <1>1, ShareSendKeeps
<1>3. ASSUME NEW p \in Readers, NEW m \in Share!ToSet(queue'[p].events), m \notin Share!ToSet(queue[p].events)
      PROVE  /\ p # r /\ m.from = r
             /\ m.type = "ACK" => (Share!TwoReaders => p \in heard')
             /\ m.type = "POSITION" => m.at \in Places
  <2>1. m \in Share!ToSet(packets) /\ p \in to
    BY <1>1, <1>2, <1>3
  <2> QED
    BY <2>1
<1> QED
  BY <1>2, <1>3 DEF ShareMayArrive, Share!IInv, Share!TypeOK

\* The packets a reader sends.
LEMMA SharePacketsOf ==
  ASSUME Share!IInv, NEW r \in Readers
  PROVE  /\ Share!Hello(r) \in Share!Packets /\ Share!Hello(r).from = r
         /\ Share!Hello(r).type \notin {"ACK", "POSITION"}
         /\ Share!Name(r) \in Share!Packets /\ Share!Name(r).from = r
         /\ Share!Name(r).type \notin {"ACK", "POSITION"}
         /\ Share!Ack(r) \in Share!Packets /\ Share!Ack(r).from = r /\ Share!Ack(r).type # "POSITION"
         /\ Share!Position(r) \in Share!Packets /\ Share!Position(r).from = r
         /\ Share!Position(r).type # "ACK" /\ Share!Position(r).at \in Places
BY DEF Share!IInv, Share!TypeOK, Share!Hello, Share!Name, Share!Ack, Share!Position, Share!Packets

\* One packet that is no acknowledgement.
LEMMA ShareOneArrives ==
  ASSUME Share!IInv, NEW r \in Readers, NEW queues \in [Readers -> Queues(Share!Packets)],
         \A p \in Readers : Share!ToSet(queues[p].events) \subseteq Share!ToSet(queue[p].events),
         NEW to, r \notin to, NEW m \in {Share!Hello(r), Share!Name(r), Share!Ack(r)},
         m = Share!Ack(r) => (Share!TwoReaders => to \cap Readers \subseteq heard'),
         Share!Sends(r, queues, to, <<m>>)
  PROVE  ShareMayArrive(r)
<1>1. m \in Share!Packets /\ m.from = r /\ m.type # "POSITION" /\ (m.type = "ACK" => m = Share!Ack(r))
  BY SharePacketsOf
<1>2. <<m>> \in Seq(Share!Packets) /\ \A n \in Share!ToSet(<<m>>) : n = m
  BY <1>1 DEF Share!ToSet
<1> QED
  BY <1>1, <1>2, ShareSendArrives

\* The place of r goes to the peer, behind its name.
LEMMA SharePositionSent ==
  ASSUME Share!IInv, NEW r \in Readers, NEW s, s.peer # r, NEW queues \in [Readers -> Queues(Share!Packets)],
         \A p \in Readers : Share!ToSet(queues[p].events) \subseteq Share!ToSet(queue[p].events),
         Share!SendLocalPosition(r, s, queues)
  PROVE  (\E sent \in BOOLEAN : Share!Becomes(r, [s EXCEPT !.sent = sent])) /\ ShareMayArrive(r)
<1> DEFINE to == {s.peer}
<1>1. r \notin to
  OBVIOUS
<1> HIDE DEF to
<1>2. CASE Share!Becomes(r, [s EXCEPT !.sent = TRUE])
             /\ Share!Sends(r, queues, to, <<Share!Name(r), Share!Position(r)>>)
  <2>1. <<Share!Name(r), Share!Position(r)>> \in Seq(Share!Packets)
    BY SharePacketsOf
  <2>2. \A m \in Share!ToSet(<<Share!Name(r), Share!Position(r)>>) : m \in {Share!Name(r), Share!Position(r)}
    BY DEF Share!ToSet
  <2>3. \A m \in Share!ToSet(<<Share!Name(r), Share!Position(r)>>) :
          /\ m.from = r
          /\ m.type = "ACK" => (Share!TwoReaders => to \cap Readers \subseteq heard')
          /\ m.type = "POSITION" => m.at \in Places
    BY <2>2, SharePacketsOf
  <2>4. ShareMayArrive(r)
    BY <1>1, <1>2, <2>1, <2>3, ShareSendArrives
  <2> QED
    BY <1>2, <2>4
<1>3. CASE Share!Becomes(r, [s EXCEPT !.sent = FALSE]) /\ Share!Sends(r, queues, to, <<Share!Name(r)>>)
  <2>1. Share!Name(r) # Share!Ack(r)
    BY DEF Share!Name, Share!Ack
  <2>2. ShareMayArrive(r)
    BY <1>1, <1>3, <2>1, ShareOneArrives
  <2> QED
    BY <1>3, <2>2
<1> QED
  BY <1>2, <1>3 DEF Share!SendLocalPosition, to

\* The screen keeps its type.
LEMMA ShareBecomesChanges ==
  ASSUME Share!IInv, NEW r \in Readers, NEW s, Share!Becomes(r, s), here' \in [Readers -> Places],
         match' = match, heard \subseteq heard', heard' \subseteq Readers
  PROVE  ShareMayChange /\ sharing' = [sharing EXCEPT ![r] = s]
<1> QED
  BY DEF Share!IInv, Share!TypeOK, Share!Becomes, Share!RequestUpdate, ShareMayChange

\* A step of r that ends in s, without a word about another reader.
LEMMA ShareQuietIInv ==
  ASSUME Share!IInv, NEW r \in Readers, NEW s, Share!Becomes(r, s), ShareMayNote(r, s), ShareMayArrive(r),
         UNCHANGED <<here, match, heard>>
  PROVE  Share!IInv'
<1>1. ShareMayChange /\ sharing' = [sharing EXCEPT ![r] = s]
  BY ShareBecomesChanges DEF Share!IInv, Share!TypeOK
<1> QED
  BY <1>1, ShareStepIInv

\* Whatever a state starts from keeps nothing of an exchange.
LEMMA ShareFreshNotes ==
  ASSUME NEW r \in Readers, NEW radio \in BOOLEAN, NEW source \in BOOLEAN,
         NEW state \in {"CLOSED", "READY", "DISCOVERING", "SYNCED", "ERROR"}
  PROVE  ShareMayNote(r, [Share!At(state, radio) EXCEPT !.source = source])
BY ReadersAssumption DEF ShareMayNote, Share!At, Share!Sync

\* The same of a beginning that takes no role.
LEMMA ShareAtNotes ==
  ASSUME NEW r \in Readers, NEW radio \in BOOLEAN,
         NEW state \in {"CLOSED", "READY", "DISCOVERING", "SYNCED", "ERROR"}
  PROVE  ShareMayNote(r, Share!At(state, radio))
BY ReadersAssumption DEF ShareMayNote, Share!At, Share!Sync

\* What was noted stays true.
LEMMA ShareSameNotes ==
  ASSUME Share!IInv, NEW r \in Readers, heard \subseteq heard', NEW sent \in BOOLEAN,
         NEW peer \in Readers \cup {NoReader}, peer # r,
         NEW state \in {sharing[r].state, "SYNCING"}
  PROVE  ShareMayNote(r, [sharing[r] EXCEPT !.sent = sent, !.peer = peer, !.state = state])
<1>1. sharing[r] \in Share!Sync
  BY DEF Share!IInv, Share!TypeOK
<1> DEFINE s == [sharing[r] EXCEPT !.sent = sent, !.peer = peer, !.state = state]
<1>2. s \in Share!Sync /\ s.peer = peer /\ s.received = sharing[r].received /\ s.state = state
        /\ s.got = sharing[r].got
  BY <1>1 DEF Share!Sync
<1> HIDE DEF s
<1>3. ShareMayNote(r, s)
  BY <1>2 DEF Share!IInv, Share!HeardInv, Share!PlacesInv, ShareMayNote
<1> QED
  BY <1>3 DEF s

\* A reader that hears another one keeps what it noted, or starts afresh.
LEMMA ShareHeardNotes ==
  ASSUME Share!IInv, NEW r \in Readers, NEW from \in Readers, from # r
  PROVE  /\ Share!Heard(sharing[r], from) \in Share!Sync /\ Share!Heard(sharing[r], from).peer = from
         /\ Share!Heard(sharing[r], from).received => sharing[r].received
         /\ Share!Heard(sharing[r], from).state = sharing[r].state
         /\ Share!Heard(sharing[r], from).received => Share!Heard(sharing[r], from).got = sharing[r].got
         /\ Share!Heard(sharing[r], from).state = "SHOWING_RESULT"
              => Share!Heard(sharing[r], from).got = sharing[r].got
         /\ sharing[r] \in Share!Sync
<1>1. sharing[r] \in Share!Sync
  BY DEF Share!IInv, Share!TypeOK
<1>2. CASE sharing[r].state = "READY"
  <2>1. Share!Heard(sharing[r], from) = [Share!At("READY", sharing[r].radio) EXCEPT !.peer = from]
    BY <1>2 DEF Share!Heard
  <2> QED
    BY <1>1, <1>2, <2>1 DEF Share!At, Share!Sync
<1>3. CASE sharing[r].state # "READY"
  <2>1. Share!Heard(sharing[r], from) = [sharing[r] EXCEPT !.peer = from]
    BY <1>3 DEF Share!Heard
  <2> QED
    BY <1>1, <2>1 DEF Share!Sync
<1> QED
  BY <1>2, <1>3

\* The head of the queue is taken by a handler.
LEMMA ShareHandlesFrom ==
  ASSUME Share!IInv, NEW r \in Readers, Share!HasEvent(r)
  PROVE  Share!Event(r).from \in Readers /\ Share!Event(r).from # r /\ Share!Event(r).from # NoReader
BY ShareTakenArrives, ReadersAssumption DEF Share!Packets

\* Leaving the screen.
LEMMA ShareLeaveIInv ==
  ASSUME Share!IInv, NEW r \in Readers, Share!Leave(r), ShareMayArrive(r), here' \in [Readers -> Places],
         UNCHANGED <<match, heard>>
  PROVE  Share!IInv'
<1>1. ShareMayNote(r, Share!At("CLOSED", FALSE))
  BY ShareAtNotes
<1>2. ShareMayChange /\ sharing' = [sharing EXCEPT ![r] = Share!At("CLOSED", FALSE)]
  BY DEF Share!Leave, Share!IInv, Share!TypeOK, ShareMayChange
<1> QED
  BY <1>1, <1>2, ShareStepIInv

\* What waits is dropped.
LEMMA ShareClearArrives ==
  ASSUME Share!IInv, NEW r \in Readers, Share!Clear(r)
  PROVE  ShareMayArrive(r)
<1>1. queue \in [Readers -> Queues(Share!Packets)] /\ queue' = [queue EXCEPT ![r] = Share!Empty]
        /\ lossy' \in BOOLEAN
  BY DEF Share!Clear, Share!IInv, Share!TypeOK, Share!QueueOK, Queues
<1> QED
  BY <1>1, ShareEmptyQueue DEF ShareMayArrive

\* Apply takes the place received and acknowledges to the peer.
LEMMA ShareApplyIInv ==
  ASSUME Share!IInv, NEW r \in Readers, Share!Apply(r)
  PROVE  Share!IInv'
<1>1. sharing[r].state = "SHOWING_RESULT" /\ UNCHANGED <<match, heard>> /\ sharing[r].radio \in BOOLEAN
      /\ here \in [Readers -> Places] /\ queue \in [Readers -> Queues(Share!Packets)]
  BY DEF Share!Apply, Share!IInv, Share!TypeOK, Share!Sync, Share!QueueOK, Queues
<1>2. CASE /\ Share!Leave(r)
           /\ here' = [here EXCEPT ![r] = sharing[r].got]
           /\ Share!Sends(r, [queue EXCEPT ![r] = Share!Empty], {sharing[r].peer}, <<Share!Ack(r)>>)
  <2>1. sharing[r].got \in Places /\ sharing[r].peer # r
    BY <1>1 DEF Share!IInv, Share!PlacesInv, Share!PeersInv
  <2>2. Share!TwoReaders => Share!Others(r) \subseteq heard'
    BY <1>1 DEF Share!IInv, Share!HeardInv
  <2> DEFINE queues == [queue EXCEPT ![r] = Share!Empty]
             to == {sharing[r].peer}
  <2>3. queues \in [Readers -> Queues(Share!Packets)]
        /\ \A p \in Readers : Share!ToSet(queues[p].events) \subseteq Share!ToSet(queue[p].events)
    BY <1>1, ShareEmptyQueue
  <2>4. r \notin to /\ (Share!TwoReaders => to \cap Readers \subseteq heard')
          /\ Share!Sends(r, queues, to, <<Share!Ack(r)>>)
    BY <1>2, <2>1, <2>2 DEF Share!Others
  <2> HIDE DEF queues, to
  <2>5. ShareMayArrive(r)
    BY <2>3, <2>4, ShareOneArrives
  <2> QED
    BY <1>1, <1>2, <2>1, <2>5, ShareLeaveIInv
<1>3. CASE Share!Becomes(r, Share!Failed(sharing[r])) /\ UNCHANGED <<Share!air, here>>
  BY <1>1, <1>3, ShareAtNotes, ShareQuietArrives, ShareQuietIInv DEF Share!Failed
<1> QED
  BY <1>2, <1>3 DEF Share!Apply

\* Sharing begins, or fails at once.
LEMMA ShareStartSyncIInv ==
  ASSUME Share!IInv, NEW r \in Readers, Share!StartSync(r)
  PROVE  Share!IInv'
<1>1. sharing[r].radio \in BOOLEAN /\ queue \in [Readers -> Queues(Share!Packets)]
        /\ UNCHANGED <<here, match, heard>>
  BY DEF Share!StartSync, Share!IInv, Share!TypeOK, Share!Sync, Share!QueueOK, Queues
<1>2. CASE Share!Becomes(r, Share!Failed(sharing[r])) /\ UNCHANGED Share!air
  BY <1>1, <1>2, ShareAtNotes, ShareQuietArrives, ShareQuietIInv DEF Share!Failed
<1>3. CASE /\ Share!Becomes(r, [Share!At("DISCOVERING", sharing[r].radio) EXCEPT !.source = TRUE])
           /\ Share!Sends(r, queue, Readers \ {r}, <<Share!Hello(r)>>)
  <2>1. Share!Hello(r) # Share!Ack(r)
    BY DEF Share!Hello, Share!Ack
  <2>2. ShareMayArrive(r)
    BY <1>1, <1>3, <2>1, ShareOneArrives
  <2>3. ShareMayNote(r, [Share!At("DISCOVERING", sharing[r].radio) EXCEPT !.source = TRUE])
    BY <1>1, ShareFreshNotes
  <2> QED
    BY <1>1, <1>3, <2>2, <2>3, ShareQuietIInv
<1> QED
  BY <1>2, <1>3 DEF Share!StartSync

\* NAME makes a peer known, who is sent the place.
LEMMA ShareReceiveNameIInv ==
  ASSUME Share!IInv, NEW r \in Readers, Share!ReceiveName(r)
  PROVE  Share!IInv'
<1> DEFINE from == Share!Event(r).from
           state == IF sharing[r].state = "DISCOVERING" THEN "SYNCING" ELSE sharing[r].state
           known == [sharing[r] EXCEPT !.peer = from, !.state = state]
<1>1. Share!HasEvent(r) /\ UNCHANGED <<here, match, heard>> /\ sharing[r] \in Share!Sync
  BY DEF Share!ReceiveName, Share!Handles, Share!IInv, Share!TypeOK
<1>2. from \in Readers /\ from # r
  BY <1>1, ShareHandlesFrom
<1>3. known.peer # r /\ \A sent \in BOOLEAN : [known EXCEPT !.sent = sent] =
                                [sharing[r] EXCEPT !.sent = sent, !.peer = from, !.state = state]
  BY <1>1, <1>2 DEF Share!Sync
<1>4. known = [known EXCEPT !.sent = sharing[r].sent] /\ sharing[r].sent \in BOOLEAN
  BY <1>1 DEF Share!Sync
<1>5. \A sent \in BOOLEAN : ShareMayNote(r, [known EXCEPT !.sent = sent])
  <2>1. state \in {sharing[r].state, "SYNCING"} /\ heard \subseteq heard'
    BY <1>1
  <2>2. ASSUME NEW sent \in BOOLEAN
        PROVE  ShareMayNote(r, [sharing[r] EXCEPT !.sent = sent, !.peer = from, !.state = state])
    <3> HIDE DEF state, from
    <3> QED
      BY <1>2, <2>1, ShareSameNotes
  <2> QED
    BY <2>2
<1>6. CASE Share!Becomes(r, known) /\ Share!TakeOnly(r)
  <2> HIDE DEF known
  <2>1. ShareMayNote(r, known)
    BY <1>4, <1>5
  <2> QED
    BY <1>1, <1>6, <2>1, ShareTakeOnlyArrives, ShareQuietIInv
<1>7. CASE Share!SendLocalPosition(r, known, Share!Taken(r))
  <2> HIDE DEF known
  <2>1. (\E sent \in BOOLEAN : Share!Becomes(r, [known EXCEPT !.sent = sent])) /\ ShareMayArrive(r)
    BY <1>1, <1>3, <1>7, ShareTakenArrives, SharePositionSent
  <2> QED
    BY <1>1, <1>5, <2>1, ShareQuietIInv
<1>8. CASE /\ Share!RequestUpdate(r, sharing[r]) \/ UNCHANGED repaint
           /\ Share!TakeOnly(r)
           /\ UNCHANGED <<sharing, shown>>
  <2>1. ShareMayChange /\ sharing' = [sharing EXCEPT ![r] = sharing[r]]
    <3> QED
      BY <1>1, <1>8 DEF Share!IInv, Share!TypeOK, Share!RequestUpdate, ShareMayChange
  <2>2. ShareMayNote(r, sharing[r])
    BY <1>1 DEF Share!IInv, Share!PeersInv, Share!HeardInv, Share!PlacesInv, ShareMayNote
  <2> QED
    BY <1>1, <1>8, <2>1, <2>2, ShareTakeOnlyArrives, ShareStepIInv
<1> QED
  BY <1>6, <1>7, <1>8 DEF Share!ReceiveName

\* HELLO is answered with a name.
LEMMA ShareReceiveHelloIInv ==
  ASSUME Share!IInv, NEW r \in Readers, Share!ReceiveHello(r)
  PROVE  Share!IInv'
<1> DEFINE h == Share!Heard(sharing[r], Share!Event(r).from)
           s == IF h.source THEN h ELSE [h EXCEPT !.state = "SYNCING"]
<1>1. /\ Share!HasEvent(r) /\ Share!Becomes(r, s)
      /\ Share!Sends(r, Share!Taken(r), {h.peer}, <<Share!Name(r)>>)
      /\ UNCHANGED <<here, match, heard>>
  BY DEF Share!ReceiveHello, Share!Handles
<1>2. /\ h \in Share!Sync /\ h.peer # r /\ h.state = sharing[r].state /\ (h.received => sharing[r].received)
      /\ h.received \/ h.state = "SHOWING_RESULT" => h.got = sharing[r].got
  BY <1>1, ShareHandlesFrom, ShareHeardNotes
<1> HIDE DEF h
<1>3. s \in Share!Sync /\ s.peer = h.peer /\ s.received = h.received /\ s.got = h.got
        /\ s.state \in {h.state, "SYNCING"}
  BY <1>2 DEF Share!Sync
<1>4. ShareMayNote(r, s)
  <2> HIDE DEF s
  <2> QED
    BY <1>1, <1>2, <1>3 DEF ShareMayNote, Share!IInv, Share!HeardInv, Share!PlacesInv
<1> DEFINE to == {h.peer}
<1>5. r \notin to /\ Share!Name(r) # Share!Ack(r) /\ Share!Sends(r, Share!Taken(r), to, <<Share!Name(r)>>)
  BY <1>1, <1>2 DEF Share!Name, Share!Ack
<1> HIDE DEF s, to
<1>6. ShareMayArrive(r)
  BY <1>1, <1>5, ShareTakenArrives, ShareOneArrives
<1> QED
  BY <1>1, <1>4, <1>6, ShareQuietIInv

\* POSITION is noted as heard, then acknowledged.
LEMMA ShareReceivePositionIInv ==
  ASSUME Share!IInv, NEW r \in Readers, Share!ReceivePosition(r)
  PROVE  Share!IInv'
<1> DEFINE from == Share!Event(r).from
           h == Share!Heard(sharing[r], from)
           s == [h EXCEPT !.state = "SHOWING_RESULT", !.received = TRUE, !.got = Share!Event(r).at]
<1>1. Share!HasEvent(r) /\ Share!Event(r).type = "POSITION" /\ UNCHANGED <<here, match>>
  BY DEF Share!ReceivePosition, Share!Handles
<1>2. /\ from \in Readers /\ from # r /\ Share!Event(r).at \in Places
      /\ here \in [Readers -> Places] /\ heard \subseteq Readers
  BY <1>1, ShareHandlesFrom, ShareTakenArrives DEF Share!IInv, Share!PlacesInv, Share!TypeOK
<1>3. /\ h \in Share!Sync /\ h.peer = from /\ h.state = sharing[r].state
      /\ (h.received => sharing[r].received)
      /\ h.received \/ h.state = "SHOWING_RESULT" => h.got = sharing[r].got
  BY <1>2, ShareHeardNotes
<1> HIDE DEF h, from
<1>4. CASE Share!Becomes(r, h) /\ Share!TakeOnly(r) /\ UNCHANGED heard
  <2>1. ShareMayNote(r, h)
    BY <1>2, <1>3, <1>4 DEF ShareMayNote, Share!IInv, Share!HeardInv, Share!PlacesInv
  <2> QED
    BY <1>1, <1>4, <2>1, ShareTakeOnlyArrives, ShareQuietIInv
<1>5. CASE /\ Share!Becomes(r, s) /\ Share!Sends(r, Share!Taken(r), {h.peer}, <<Share!Ack(r)>>)
           /\ heard' = heard \cup {from}
  <2>1. s \in Share!Sync /\ s.peer = from /\ s.got = Share!Event(r).at
    BY <1>2, <1>3 DEF Share!Sync
  <2>2. Share!TwoReaders => Share!Others(r) \subseteq heard'
    BY <1>2, <1>5 DEF Share!TwoReaders, Share!Others
  <2> HIDE DEF s
  <2>3. ShareMayNote(r, s)
    BY <1>2, <2>1, <2>2 DEF ShareMayNote
  <2> DEFINE to == {h.peer}
  <2>4. r \notin to /\ to \cap Readers \subseteq heard'
          /\ Share!Sends(r, Share!Taken(r), to, <<Share!Ack(r)>>)
    BY <1>2, <1>3, <1>5
  <2> HIDE DEF to
  <2>5. ShareMayArrive(r)
    BY <1>1, <2>4, ShareTakenArrives, ShareOneArrives
  <2>6. heard \subseteq heard' /\ heard' \subseteq Readers /\ here' \in [Readers -> Places] /\ match' = match
    BY <1>1, <1>2, <1>5
  <2>7. ShareMayChange /\ sharing' = [sharing EXCEPT ![r] = s]
    BY <1>5, <2>6, ShareBecomesChanges
  <2> QED
    BY <2>3, <2>5, <2>7, ShareStepIInv
<1> QED
  BY <1>4, <1>5 DEF Share!ReceivePosition, h, from

\* ACK ends the sharing.
LEMMA ShareReceiveAckIInv ==
  ASSUME Share!IInv, NEW r \in Readers, Share!ReceiveAck(r)
  PROVE  Share!IInv'
<1> DEFINE h == Share!Heard(sharing[r], Share!Event(r).from)
<1>1. /\ Share!HasEvent(r) /\ Share!TakeOnly(r) /\ UNCHANGED <<here, match, heard>>
      /\ Share!Becomes(r, Share!At("SYNCED", h.radio)) \/ Share!Becomes(r, sharing[r]) \/ Share!Becomes(r, h)
  BY DEF Share!ReceiveAck, Share!Handles
<1>2. /\ h \in Share!Sync /\ h.peer # r /\ h.state = sharing[r].state /\ (h.received => sharing[r].received)
      /\ h.received \/ h.state = "SHOWING_RESULT" => h.got = sharing[r].got
      /\ sharing[r] \in Share!Sync /\ sharing[r].peer # r
  BY <1>1, ShareHandlesFrom, ShareHeardNotes DEF Share!IInv, Share!PeersInv
<1> HIDE DEF h
<1>3. h.radio \in BOOLEAN
  BY <1>2 DEF Share!Sync
<1>4. ShareMayNote(r, Share!At("SYNCED", h.radio))
  BY <1>3, ShareAtNotes
<1>5. ShareMayNote(r, h) /\ ShareMayNote(r, sharing[r])
  BY <1>1, <1>2 DEF ShareMayNote, Share!IInv, Share!HeardInv, Share!PlacesInv
<1> QED
  BY <1>1, <1>4, <1>5, ShareTakeOnlyArrives, ShareQuietIInv

\* The steps of updateSyncProgress.
LEMMA ShareAdvanceIInv ==
  ASSUME Share!IInv, NEW r \in Readers, Share!TimeOut(r) \/ Share!Advance(r)
  PROVE  Share!IInv'
<1>1. sharing[r] \in Share!Sync /\ sharing[r].radio \in BOOLEAN /\ sharing[r].peer # r
        /\ queue \in [Readers -> Queues(Share!Packets)]
  BY DEF Share!IInv, Share!TypeOK, Share!Sync, Share!PeersInv, Share!QueueOK, Queues
<1>2. CASE Share!TimeOut(r)
  BY <1>1, <1>2, ShareAtNotes, ShareQuietArrives, ShareQuietIInv DEF Share!TimeOut, Share!Failed
<1>3. CASE Share!ShowResult(r)
  <2> DEFINE s == [sharing[r] EXCEPT !.state = "SHOWING_RESULT"]
  <2>1. sharing[r].received /\ Share!Becomes(r, s) /\ UNCHANGED <<Share!air, here, match, heard>>
    BY <1>3 DEF Share!ShowResult
  <2>2. s \in Share!Sync /\ s.peer = sharing[r].peer /\ s.got = sharing[r].got
    BY <1>1 DEF Share!Sync
  <2> HIDE DEF s
  <2>3. ShareMayNote(r, s)
    BY <1>1, <2>1, <2>2 DEF ShareMayNote, Share!IInv, Share!HeardInv, Share!PlacesInv
  <2> QED
    BY <2>1, <2>3, ShareQuietArrives, ShareQuietIInv
<1>4. CASE Share!SendHello(r)
  <2>1. Share!Sends(r, queue, Readers \ {r}, <<Share!Hello(r)>>)
          /\ UNCHANGED <<sharing, here, Share!screen, match, heard>>
    BY <1>4 DEF Share!SendHello
  <2>2. Share!Hello(r) # Share!Ack(r)
    BY DEF Share!Hello, Share!Ack
  <2>3. ShareMayArrive(r)
    BY <1>1, <2>1, <2>2, ShareOneArrives
  <2>4. ShareMayChange /\ sharing' = [sharing EXCEPT ![r] = sharing[r]]
    BY <2>1 DEF Share!IInv, Share!TypeOK, ShareMayChange, Share!screen
  <2>5. ShareMayNote(r, sharing[r])
    BY <1>1, <2>1 DEF Share!IInv, Share!HeardInv, Share!PlacesInv, ShareMayNote
  <2> QED
    BY <2>3, <2>4, <2>5, ShareStepIInv
<1>5. CASE Share!ResendPosition(r)
  <2>1. Share!SendLocalPosition(r, sharing[r], queue) /\ UNCHANGED <<here, match, heard>>
    BY <1>5 DEF Share!ResendPosition
  <2>2. (\E sent \in BOOLEAN : Share!Becomes(r, [sharing[r] EXCEPT !.sent = sent])) /\ ShareMayArrive(r)
    BY <1>1, <2>1, SharePositionSent
  <2>3. PICK sent \in BOOLEAN : Share!Becomes(r, [sharing[r] EXCEPT !.sent = sent])
    BY <2>2
  <2> DEFINE s == [sharing[r] EXCEPT !.sent = sent]
  <2>4. s \in Share!Sync /\ s.peer = sharing[r].peer /\ s.got = sharing[r].got
          /\ s.received = sharing[r].received /\ s.state = sharing[r].state
    BY <1>1 DEF Share!Sync
  <2>5. Share!Becomes(r, s)
    BY <2>3
  <2> HIDE DEF s
  <2>6. ShareMayNote(r, s)
    BY <1>1, <2>1, <2>4 DEF Share!IInv, Share!HeardInv, Share!PlacesInv, ShareMayNote
  <2> QED
    BY <2>1, <2>2, <2>5, <2>6, ShareQuietIInv
<1> QED
  BY <1>2, <1>3, <1>4, <1>5 DEF Share!Advance

\* A step that leaves the exchange and the air alone, but for packets that get lost no more.
LEMMA ShareOutsideIInv ==
  ASSUME Share!IInv, UNCHANGED <<queue, sharing, match, heard>>, lossy' \in BOOLEAN,
         here' \in [Readers -> Places],
         shown' \in [Readers -> Places \cup {NoPlace}], repaint' \in [Readers -> BOOLEAN]
  PROVE  Share!IInv'
BY DEF Share!IInv, Share!TypeOK, Share!QueueOK, Share!PeersInv, Share!HeardInv, Share!PlacesInv

\* Every step keeps the invariant.
LEMMA ShareNextIInv == Share!IInv /\ [Share!Next]_(Share!vars) => Share!IInv'
<1> SUFFICES ASSUME Share!IInv, [Share!Next]_(Share!vars)
             PROVE  Share!IInv'
  OBVIOUS
<1>1. /\ here \in [Readers -> Places] /\ shown \in [Readers -> Places \cup {NoPlace}]
      /\ repaint \in [Readers -> BOOLEAN] /\ lossy \in BOOLEAN /\ sharing \in [Readers -> Share!Sync]
  BY DEF Share!IInv, Share!TypeOK
<1>2. CASE Share!Clears \/ UNCHANGED Share!vars
  BY <1>1, <1>2, ShareOutsideIInv DEF Share!Clears, Share!AirClears, Share!vars, Share!air, Share!screen
<1>3. ASSUME NEW r \in Readers, Share!User(r)
      PROVE  Share!IInv'
  <2>1. CASE Share!Open(r)
    BY <2>1, ShareAtNotes, ShareQuietArrives, ShareQuietIInv DEF Share!Open
  <2>2. CASE Share!Close(r)
    BY <1>1, <2>2, ShareClearArrives, ShareLeaveIInv DEF Share!Close
  <2>3. CASE Share!Read(r)
    <3> QED
      BY <1>1, <2>3, ShareOutsideIInv DEF Share!Read, Share!air, Share!screen
  <2> QED
    BY <1>3, <2>1, <2>2, <2>3, ShareStartSyncIInv, ShareApplyIInv DEF Share!User
<1>4. ASSUME NEW r \in Readers, Share!Handle(r)
      PROVE  Share!IInv'
  <2>1. sharing[r].radio \in BOOLEAN
    BY <1>1 DEF Share!Sync
  <2>2. CASE Share!Ignore(r)
    <3>1. Share!HasEvent(r) /\ Share!TakeOnly(r) /\ UNCHANGED <<sharing, here, Share!screen, match, heard>>
      BY <2>2 DEF Share!Ignore
    <3>2. ShareMayChange /\ sharing' = [sharing EXCEPT ![r] = sharing[r]]
      BY <3>1 DEF Share!IInv, Share!TypeOK, ShareMayChange, Share!screen
    <3>3. ShareMayNote(r, sharing[r])
      BY <1>1, <3>1 DEF Share!IInv, Share!PeersInv, Share!HeardInv, Share!PlacesInv, ShareMayNote
    <3> QED
      BY <3>1, <3>2, <3>3, ShareTakeOnlyArrives, ShareStepIInv
  <2>3. CASE Share!Refuse(r)
    BY <2>1, <2>3, ShareAtNotes, ShareTakeOnlyArrives, ShareQuietIInv DEF Share!Refuse, Share!Failed
  <2>4. CASE Share!Overflow(r)
    BY <2>1, <2>4, ShareAtNotes, ShareClearArrives, ShareQuietIInv DEF Share!Overflow, Share!Failed
  <2> QED
    BY <1>4, <2>2, <2>3, <2>4, ShareReceiveNameIInv, ShareReceiveHelloIInv, ShareReceivePositionIInv,
       ShareReceiveAckIInv DEF Share!Handle
<1>5. ASSUME NEW r \in Readers, Share!Paint(r)
      PROVE  Share!IInv'
  <2>1. Share!View(sharing[r]) \in Places \cup {NoPlace}
    BY <1>1 DEF Share!View, Share!Sync
  <2> QED
    BY <1>1, <1>5, <2>1, ShareOutsideIInv DEF Share!Paint, Share!air
<1> QED
  BY <1>2, <1>3, <1>4, <1>5, ShareAdvanceIInv DEF Share!Next

\* The inductive invariant holds in every state, for any readers.
THEOREM ShareInvariance == Share!Spec => []Share!IInv
BY ShareInitIInv, ShareNextIInv, PTL DEF Share!Spec

\* Every variable keeps its type.
THEOREM ShareTypeCorrect == Share!Spec => []Share!TypeOK
<1>1. Share!IInv => Share!TypeOK
  BY DEF Share!IInv
<1> QED
  BY <1>1, ShareInvariance, PTL

\* SYNCED is entered nowhere else.
LEMMA ShareOnlyReceiveAck ==
  ASSUME Share!IInv, [Share!Next]_(Share!vars), NEW r \in Readers, sharing[r].state # "SYNCED",
         sharing'[r].state = "SYNCED"
  PROVE  Share!ReceiveAck(r)
<1>1. sharing \in [Readers -> Share!Sync] /\ sharing' # sharing
  BY DEF Share!IInv, Share!TypeOK
<1>2. PICK x \in Readers : Share!User(x) \/ Share!Handle(x) \/ Share!TimeOut(x) \/ Share!Advance(x)
  BY DEF Share!Next, Share!Clears, Share!vars, Share!Paint
<1>3. ASSUME NEW s, s.state # "SYNCED" \/ s.state = sharing[x].state, sharing' = [sharing EXCEPT ![x] = s]
      PROVE  FALSE
  BY <1>3
<1>4. \A state, radio : Share!At(state, radio).state = state
  BY DEF Share!At
<1>5. sharing[x] \in Share!Sync
  BY <1>1
<1>6. ASSUME Share!SendLocalPosition(x,
               [sharing[x] EXCEPT !.peer = Share!Event(x).from,
                                  !.state = IF @ = "DISCOVERING" THEN "SYNCING" ELSE @],
               Share!Taken(x))
             \/ Share!SendLocalPosition(x, sharing[x], queue)
      PROVE  FALSE
  <2>1. \E s, sent : s.state \in {"SYNCING", sharing[x].state} /\ sharing' = [sharing EXCEPT ![x] = s]
    BY <1>5, <1>6 DEF Share!SendLocalPosition, Share!Becomes, Share!Sync
  <2> QED
    BY <2>1
<1>7. CASE Share!User(x)
  BY <1>3, <1>7 DEF Share!User, Share!Open, Share!Close, Share!Leave, Share!Read, Share!StartSync,
     Share!Apply, Share!Becomes, Share!Failed, Share!At
<1>8. CASE Share!TimeOut(x) \/ Share!ShowResult(x)
  BY <1>3, <1>4, <1>5, <1>8 DEF Share!TimeOut, Share!ShowResult, Share!Becomes, Share!Failed, Share!Sync
<1>9. CASE Share!SendHello(x) \/ Share!ResendPosition(x)
  BY <1>6, <1>9 DEF Share!SendHello, Share!ResendPosition
<1>10. CASE Share!Ignore(x) \/ Share!Refuse(x) \/ Share!Overflow(x)
  BY <1>3, <1>4, <1>10 DEF Share!Ignore, Share!Refuse, Share!Overflow, Share!Becomes, Share!Failed
<1>11. CASE Share!ReceiveName(x)
  <2> DEFINE known == [sharing[x] EXCEPT !.peer = Share!Event(x).from,
                                         !.state = IF @ = "DISCOVERING" THEN "SYNCING" ELSE @]
  <2>1. known.state \in {"SYNCING", sharing[x].state}
    OBVIOUS
  <2> HIDE DEF known
  <2>2. Share!Becomes(x, known) \/ Share!SendLocalPosition(x, known, Share!Taken(x))
    BY <1>11 DEF Share!ReceiveName, known
  <2> QED
    BY <1>3, <1>6, <2>1, <2>2 DEF Share!Becomes, known
<1>12. ASSUME Share!HasEvent(x)
       PROVE  Share!Heard(sharing[x], Share!Event(x).from).state = sharing[x].state
                /\ Share!Heard(sharing[x], Share!Event(x).from) \in Share!Sync
  BY <1>12, ShareHandlesFrom, ShareHeardNotes
<1>13. CASE Share!ReceiveHello(x)
  <2> DEFINE h == Share!Heard(sharing[x], Share!Event(x).from)
  <2>1. h.state = sharing[x].state /\ h \in Share!Sync
    BY <1>12, <1>13 DEF Share!ReceiveHello, Share!Handles
  <2>2. Share!Becomes(x, IF h.source THEN h ELSE [h EXCEPT !.state = "SYNCING"])
    BY <1>13 DEF Share!ReceiveHello
  <2> HIDE DEF h
  <2> QED
    BY <2>1, <2>2 DEF Share!Becomes
<1>14. CASE Share!ReceivePosition(x)
  <2> DEFINE h == Share!Heard(sharing[x], Share!Event(x).from)
             s == [h EXCEPT !.state = "SHOWING_RESULT", !.received = TRUE, !.got = Share!Event(x).at]
  <2>1. h.state = sharing[x].state /\ h \in Share!Sync
    BY <1>12, <1>14 DEF Share!ReceivePosition, Share!Handles
  <2>2. Share!Becomes(x, h) \/ Share!Becomes(x, s)
    BY <1>14 DEF Share!ReceivePosition
  <2> HIDE DEF h
  <2>3. s.state = "SHOWING_RESULT"
    OBVIOUS
  <2> HIDE DEF s
  <2> QED
    BY <1>3, <2>1, <2>2, <2>3 DEF Share!Becomes
<1>15. CASE Share!ReceiveAck(x)
  BY <1>1, <1>15 DEF Share!ReceiveAck, Share!Becomes
<1> QED
  BY <1>2, <1>7, <1>8, <1>9, <1>10, <1>11, <1>13, <1>14, <1>15 DEF Share!Handle, Share!Advance

\* Between two readers "Position shared" appears only on the one whose place the other has
\* received, whatever was lost, repeated or late.
THEOREM ShareReceived ==
  ASSUME Share!TwoReaders
  PROVE  Share!Spec => Share!SharedMeansReceived
<1>1. Share!IInv /\ [Share!Next]_(Share!vars) =>
        [\A r \in Readers : sharing[r].state # "SYNCED" /\ sharing'[r].state = "SYNCED"
          => r \in heard]_(Share!vars)
  <2> SUFFICES ASSUME Share!IInv, [Share!Next]_(Share!vars), NEW r \in Readers,
                      sharing[r].state # "SYNCED", sharing'[r].state = "SYNCED"
               PROVE  r \in heard
    OBVIOUS
  <2>1. Share!HasEvent(r) /\ Share!Event(r).type = "ACK"
    BY ShareOnlyReceiveAck DEF Share!ReceiveAck, Share!Handles
  <2>2. Share!Event(r) \in Share!ToSet(queue[r].events)
    BY <2>1, ShareTakenArrives
  <2> QED
    BY <2>1, <2>2 DEF Share!IInv, Share!HeardInv
<1> QED
  BY <1>1, ShareInvariance, PTL DEF Share!Spec, Share!SharedMeansReceived
=============================================================================
