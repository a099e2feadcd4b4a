------------------------- MODULE EventStream_proofs -------------------------
(***************************************************************************)
(* Proofs about the stream of a session, for any number of subscriptions,  *)
(* buffers of any size and any number of changes, losses and failures:     *)
(* what the client shows is what the projection held at that cursor, and   *)
(* it never goes back.                                                     *)
(*                                                                         *)
(* The argument follows the entries of the history.  A cursor names one    *)
(* content, a new entry lies beyond those of its epoch, and a delta leads  *)
(* from the entry before it to its own.  So every delta and snapshot that  *)
(* is under way stays right, wherever it is and whatever is lost.          *)
(*                                                                         *)
(* The order of the frames rests on one fact: the client asks for a        *)
(* subscription only when it has read the last frame of the one before it, *)
(* so the frames of two subscriptions are never under way together.        *)
(***************************************************************************)
EXTENDS EventStream, SequenceTheorems, TLAPS

Rows      == {"active", "ended", "lost"}
Logs      == Seq(Nat)
Cursors   == [epoch : Nat, seq : Nat]
Entries   == [epoch : Nat, seq : Nat, log : Logs]
Deltas    == [type : {"delta"}, epoch : Nat, seq : Nat, id : Nat, fresh : BOOLEAN]
Snapshots == [type : {"snapshot"}, epoch : Nat, seq : Nat, log : Logs, run : {"live"} \cup Rows]

\* A delta leads from the entry before it to its own.
Fits(d) ==
  /\ \E h \in hist : Cursor(h) = Cursor(d)
  /\ \A h \in hist :
       h.epoch = d.epoch /\ d.seq = h.seq + 1
         => [epoch |-> d.epoch, seq |-> d.seq, log |-> Apply(h.log, d)] \in hist

GoodDeltas    == {d \in Deltas : Fits(d)}
GoodSnapshots == {s \in Snapshots : Entry(s) \in hist}
GoodEvents    == GoodDeltas \cup {Marker}
GoodFrames    == GoodDeltas \cup GoodSnapshots \cup {Dropped}

StreamsOver(events, frames) ==
  [at : {"free", "joined", "ready", "on"}, live : BOOLEAN, buf : Seq(events), last : Cursors,
   out : Seq(frames)]

SourceTypes ==
  /\ proj \in [epoch : Nat, seq : Nat, log : Logs, live : BOOLEAN]
  /\ row \in Rows
  /\ epochs \in Nat /\ made \in Nat
  /\ hist \subseteq Entries

\* The history: one content for each cursor, none beyond the projection's.
HistoryInvariant ==
  /\ \A g, h \in hist : Cursor(g) = Cursor(h) => g = h
  /\ \A h \in hist : h.epoch \in 1..epochs /\ (h.epoch = proj.epoch => h.seq <= proj.seq)
  /\ proj.epoch # 0 => proj.epoch = epochs /\ Entry(proj) \in hist

\* What is under way agrees with the history.
WireInvariant ==
  /\ unpublished \subseteq GoodDeltas
  /\ stream \in [Forwarders -> StreamsOver(GoodEvents, GoodFrames)]
  /\ active \in Forwarders \cup {NoForwarder}

ViewTypes == view \in [epoch : Nat, seq : Nat, log : Logs, run : {"none", "live"} \cup Rows]

\* The inductive invariant of the content.
StreamInvariant ==
  SourceTypes /\ HistoryInvariant /\ WireInvariant /\ ViewTypes /\ ViewIsAuthentic
-----------------------------------------------------------------------------
(* Sequences and streams                                                   *)

\* A larger set of events and frames makes a larger set of streams.
LEMMA StreamsMonotonic ==
  ASSUME NEW E1, NEW E2, NEW F1, NEW F2, E1 \subseteq E2, F1 \subseteq F2
  PROVE  StreamsOver(E1, F1) \subseteq StreamsOver(E2, F2)
<1>1. Seq(E1) \subseteq Seq(E2) /\ Seq(F1) \subseteq Seq(F2)
  BY SeqMonotonic
<1> QED BY <1>1 DEF StreamsOver

\* A full buffer has room for the marker.
LEMMA EnqueueKeeps ==
  ASSUME NEW E, Marker \in E, NEW buf \in Seq(E), NEW e \in E
  PROVE  Enqueue(buf, e) \in Seq(E)
<1>1. CASE Len(buf) < BufferSize
  BY <1>1 DEF Enqueue
<1>2. CASE ~(Len(buf) < BufferSize)
  <2>1. buf # <<>>
    BY <1>2, StreamAssumption
  <2>2. Tail(buf) \in Seq(E)
    BY <2>1
  <2> QED BY <1>2, <2>2 DEF Enqueue
<1> QED BY <1>1, <1>2

\* Sending a frame keeps what a stream is made of.
LEMMA SendKeeps ==
  ASSUME NEW E, NEW F, stream \in [Forwarders -> StreamsOver(E, F)],
         NEW f \in Forwarders, NEW rest \in Seq(E), NEW frame \in F, Cursor(frame) \in Cursors,
         Send(f, rest, frame)
  PROVE  stream' \in [Forwarders -> StreamsOver(E, F)]
<1>1. Append(stream[f].out, frame) \in Seq(F)
  BY DEF StreamsOver
<1> QED BY <1>1 DEF Send, StreamsOver

\* So does ending it.
LEMMA EndKeeps ==
  ASSUME NEW E, NEW F, stream \in [Forwarders -> StreamsOver(E, F)],
         NEW f \in Forwarders, Dropped \in F, EndStream(f)
  PROVE  stream' \in [Forwarders -> StreamsOver(E, F)]
<1>1. Append(stream[f].out, Dropped) \in Seq(F) /\ <<>> \in Seq(E)
  BY DEF StreamsOver
<1> QED BY <1>1 DEF EndStream, StreamsOver

\* A subscription that is not there is made of nothing.
LEMMA NoStreamIsStream == \A E, F : NoStream \in StreamsOver(E, F)
<1>1. \A E : <<>> \in Seq(E)
  OBVIOUS
<1> QED BY <1>1 DEF NoStream, StreamsOver, Cursors
-----------------------------------------------------------------------------
(* The history                                                             *)

\* New entries lie beyond those of their epoch.
Grows ==
  /\ hist \subseteq hist'
  /\ \A h \in hist' : h \in hist \/ \A g \in hist : g.epoch = h.epoch => g.seq < h.seq

\* What agrees with the history goes on to agree with it.
LEMMA GoodStaysGood ==
  ASSUME SourceTypes, SourceTypes', Grows
  PROVE  /\ GoodDeltas \subseteq GoodDeltas'
         /\ GoodSnapshots \subseteq GoodSnapshots'
         /\ GoodEvents \subseteq GoodEvents'
         /\ GoodFrames \subseteq GoodFrames'
<1>1. ASSUME NEW d \in GoodDeltas
      PROVE  d \in GoodDeltas'
  <2>1. d \in Deltas /\ Fits(d)
    BY <1>1 DEF GoodDeltas
  <2>2. \E h \in hist' : Cursor(h) = Cursor(d)
    BY <2>1 DEF Fits, Grows
  <2>3. ASSUME NEW h \in hist', h.epoch = d.epoch, d.seq = h.seq + 1
        PROVE  [epoch |-> d.epoch, seq |-> d.seq, log |-> Apply(h.log, d)] \in hist'
    <3>1. PICK g \in hist : Cursor(g) = Cursor(d)
      BY <2>1 DEF Fits
    <3>2. g.epoch = d.epoch /\ g.seq = d.seq /\ h.seq \in Nat
      BY <3>1 DEF Cursor, SourceTypes, Entries
    <3>3. h \in hist
      BY <2>3, <3>2 DEF Grows
    <3> QED BY <2>1, <2>3, <3>3 DEF Fits, Grows
  <2> QED BY <2>1, <2>2, <2>3 DEF GoodDeltas, Fits
<1>2. GoodSnapshots \subseteq GoodSnapshots'
  BY DEF GoodSnapshots, Grows
<1> QED BY <1>1, <1>2 DEF GoodEvents, GoodFrames

\* Hence a step that leaves the stream alone keeps what is under way.
LEMMA WireStays ==
  ASSUME StreamInvariant, SourceTypes', Grows
  PROVE  /\ stream \in [Forwarders -> StreamsOver(GoodEvents', GoodFrames')]
         /\ unpublished \subseteq GoodDeltas'
         /\ ViewIsAuthentic => (view.epoch # 0 => Entry(view) \in hist')
<1>1. StreamsOver(GoodEvents, GoodFrames) \subseteq StreamsOver(GoodEvents', GoodFrames')
  BY GoodStaysGood, StreamsMonotonic DEF StreamInvariant
<1>2. stream \in [Forwarders -> StreamsOver(GoodEvents', GoodFrames')]
  BY <1>1 DEF StreamInvariant, WireInvariant
<1>3. unpublished \subseteq GoodDeltas'
  BY GoodStaysGood DEF StreamInvariant, WireInvariant
<1> QED BY <1>2, <1>3 DEF ViewIsAuthentic, Grows
-----------------------------------------------------------------------------
(* The steps of the source                                                 *)

\* A change is a new entry, to which its delta leads from the entry before it.
LEMMA ChangeKeeps ==
  ASSUME StreamInvariant, NEW fresh \in BOOLEAN, Change(fresh), row' \in Rows
  PROVE  SourceTypes' /\ HistoryInvariant' /\ Grows /\ unpublished' \subseteq GoodDeltas'
<1> USE DEF StreamInvariant, SourceTypes
<1> DEFINE e == IF proj.epoch = 0 THEN epochs + 1 ELSE proj.epoch
           d == [type |-> "delta", epoch |-> e, seq |-> proj.seq + 1, id |-> made + 1,
                 fresh |-> fresh]
           p == [epoch |-> e, seq |-> proj.seq + 1, log |-> Apply(proj.log, d), live |-> TRUE]
<1>1. /\ proj' = p
      /\ hist' = {h \in hist : Cursor(h) # Cursor(p)} \cup {Entry(p)}
      /\ unpublished' = unpublished \cup {d}
      /\ epochs' = IF proj.epoch = 0 THEN epochs + 1 ELSE epochs
      /\ made' = made + 1
  BY DEF Change, Record
<1>2. d \in Deltas
  BY DEF Deltas
<1>3. Apply(proj.log, d) \in Logs
  BY <1>2 DEF Apply, Logs, Deltas
<1>4. Entry(p) \in Entries /\ p \in [epoch : Nat, seq : Nat, log : Logs, live : BOOLEAN]
  BY <1>3 DEF Entries, Entry
<1>5. SourceTypes'
  <2>1. hist' \subseteq Entries
    BY <1>1, <1>4
  <2> HIDE DEF p
  <2> QED BY <1>1, <1>4, <2>1
<1>6. \A g \in hist : g.epoch = e => g.seq < proj.seq + 1
  BY DEF HistoryInvariant, Entries
<1>7. \A g \in hist : Cursor(g) # Cursor(p)
  BY <1>6 DEF Cursor, Entries
<1>8. hist' = hist \cup {Entry(p)}
  BY <1>1, <1>7
<1>9. Entry(p).epoch = e /\ Entry(p).seq = proj.seq + 1 /\ Entry(p).log = Apply(proj.log, d)
  BY DEF Entry
<1>10. Grows
  <2> HIDE DEF p, d, e
  <2> QED BY <1>6, <1>8, <1>9 DEF Grows
<1>11. HistoryInvariant'
  <2>1. \A g, h \in hist' : Cursor(g) = Cursor(h) => g = h
    <3>1. Cursor(Entry(p)) = Cursor(p)
      BY DEF Cursor, Entry
    <3> HIDE DEF p
    <3> QED BY <1>7, <1>8, <3>1 DEF HistoryInvariant
  <2>2. e \in 1..epochs' /\ e = epochs' /\ epochs <= epochs'
    BY <1>1, <1>8 DEF HistoryInvariant, Entry, Cursor, Entries
  <2>3. \A h \in hist' : h.epoch \in 1..epochs' /\ (h.epoch = proj'.epoch => h.seq <= proj'.seq)
    <3>1. \A h \in hist : h.epoch \in 1..epochs' /\ (h.epoch = e => h.seq <= proj.seq + 1)
      BY <1>5, <1>6, <2>2 DEF HistoryInvariant, Entries
    <3>2. proj'.epoch = e /\ proj'.seq = proj.seq + 1
      BY <1>1
    <3> HIDE DEF p, d, e
    <3> QED BY <1>8, <1>9, <2>2, <3>1, <3>2
  <2>4. proj'.epoch # 0 => proj'.epoch = epochs' /\ Entry(proj') \in hist'
    BY <1>1, <1>8, <2>2
  <2> QED BY <2>1, <2>3, <2>4 DEF HistoryInvariant
<1>12. d \in GoodDeltas'
  <2>1. Cursor(Entry(p)) = Cursor(d) /\ Entry(p) \in hist'
    BY <1>8 DEF Cursor, Entry
  <2>2. ASSUME NEW h \in hist', h.epoch = e, proj.seq + 1 = h.seq + 1
        PROVE  [epoch |-> e, seq |-> proj.seq + 1, log |-> Apply(h.log, d)] \in hist'
    <3>1. h \in hist /\ h.seq = proj.seq
      BY <1>5, <1>8, <1>9, <2>2 DEF Entries
    <3>2. proj.epoch # 0 /\ e = proj.epoch
      BY <2>2, <3>1 DEF HistoryInvariant
    <3>3. Cursor(h) = Cursor(Entry(proj)) /\ Entry(proj) \in hist
      BY <2>2, <3>1, <3>2 DEF HistoryInvariant, Cursor, Entry
    <3>4. h = Entry(proj)
      BY <3>1, <3>3 DEF HistoryInvariant
    <3>5. h.log = proj.log
      BY <3>4 DEF Entry
    <3>6. Entry(p) = [epoch |-> e, seq |-> proj.seq + 1, log |-> Apply(proj.log, d)]
      BY DEF Entry
    <3> QED BY <2>1, <3>5, <3>6
  <2>3. d.epoch = e /\ d.seq = proj.seq + 1
    OBVIOUS
  <2> HIDE DEF p, d, e
  <2> QED BY <1>2, <2>1, <2>2, <2>3 DEF GoodDeltas, Fits
<1>13. unpublished \subseteq GoodDeltas'
  BY <1>5, <1>10, WireStays
<1> QED BY <1>1, <1>5, <1>10, <1>11, <1>12, <1>13

\* A read that opens an epoch is a new entry too; what it shows is in the history.
LEMMA LoadKeeps ==
  ASSUME StreamInvariant, Load
  PROVE  /\ SourceTypes' /\ HistoryInvariant' /\ Grows /\ unpublished' \subseteq GoodDeltas'
         /\ SnapshotFrame(Loaded) \in GoodSnapshots'
         /\ Cursor(Loaded) \in Cursors
<1> USE DEF StreamInvariant, SourceTypes
<1>1. /\ proj' = Loaded
      /\ hist' = {h \in hist : Cursor(h) # Cursor(Loaded)} \cup {Entry(Loaded)}
      /\ epochs' = IF Loaded.epoch > epochs THEN Loaded.epoch ELSE epochs
      /\ UNCHANGED <<row, made, unpublished>>
  BY DEF Load, Record
<1>2. /\ Loaded \in [epoch : Nat, seq : Nat, log : Logs, live : BOOLEAN]
      /\ Entry(Loaded) \in Entries /\ Cursor(Loaded) \in Cursors
  BY DEF Loaded, Entries, Entry, Cursor, Cursors
<1>3. SourceTypes'
  <2>1. hist' \subseteq Entries
    BY <1>1, <1>2
  <2> QED BY <1>1, <1>2, <2>1
<1>4. Entry(Loaded).epoch = Loaded.epoch /\ Entry(Loaded).seq = Loaded.seq
  BY DEF Entry
<1>5. Grows /\ HistoryInvariant'
  <2>1. CASE proj.epoch # 0
    <3>1. Loaded = proj /\ Entry(proj) \in hist /\ epochs' = epochs
      BY <1>1, <2>1 DEF Loaded, HistoryInvariant
    <3>2. Cursor(Entry(proj)) = Cursor(proj)
      BY DEF Cursor, Entry
    <3>3. hist' = hist
      BY <1>1, <3>1, <3>2 DEF HistoryInvariant
    <3> QED BY <1>1, <3>1, <3>3 DEF Grows, HistoryInvariant
  <2>2. CASE proj.epoch = 0
    <3>1. Loaded.epoch = epochs + 1 /\ epochs' = epochs + 1
      BY <1>1, <2>2 DEF Loaded
    <3>2. \A g \in hist : g.epoch # Loaded.epoch
      BY <3>1 DEF HistoryInvariant, Entries
    <3>3. hist' = hist \cup {Entry(Loaded)}
      BY <1>1, <3>2 DEF Cursor
    <3>4. Grows
      BY <1>4, <3>2, <3>3 DEF Grows
    <3>5. \A g, h \in hist' : Cursor(g) = Cursor(h) => g = h
      BY <1>4, <3>2, <3>3 DEF HistoryInvariant, Cursor
    <3>6. \A h \in hist' :
            h.epoch \in 1..epochs' /\ (h.epoch = proj'.epoch => h.seq <= proj'.seq)
      BY <1>1, <1>2, <1>4, <3>1, <3>2, <3>3 DEF HistoryInvariant, Entries
    <3>7. proj'.epoch = epochs' /\ Entry(proj') \in hist'
      BY <1>1, <3>1, <3>3
    <3> QED BY <3>4, <3>5, <3>6, <3>7 DEF HistoryInvariant
  <2> QED BY <2>1, <2>2
<1>6. SnapshotFrame(Loaded) \in GoodSnapshots'
  <2>1. SnapshotFrame(Loaded) \in Snapshots
    BY <1>2 DEF SnapshotFrame, Snapshots
  <2>2. Entry(SnapshotFrame(Loaded)) = Entry(Loaded)
    BY DEF SnapshotFrame, Entry
  <2>3. Entry(Loaded) \in hist'
    BY <1>1
  <2> QED BY <2>1, <2>2, <2>3 DEF GoodSnapshots, Entry
<1>7. unpublished' \subseteq GoodDeltas'
  BY <1>1, <1>3, <1>5, WireStays
<1> QED BY <1>2, <1>3, <1>5, <1>6, <1>7

\* A step that leaves the source alone leaves its history as it is.
LEMMA SourceStays ==
  ASSUME StreamInvariant, UNCHANGED <<proj, row, epochs, made, hist>>
  PROVE  SourceTypes' /\ HistoryInvariant' /\ Grows
<1>1. SourceTypes' /\ HistoryInvariant'
  BY DEF StreamInvariant, SourceTypes, HistoryInvariant
<1> QED BY <1>1 DEF Grows
-----------------------------------------------------------------------------
(* The steps of the stream                                                 *)

\* What the projection is when the client subscribes first.
LEMMA InitEstablishes == StreamInit => StreamInvariant
<1> SUFFICES ASSUME StreamInit PROVE StreamInvariant
  OBVIOUS
<1> USE DEF StreamInit
<1>1. <<>> \in Logs
  BY DEF Logs
<1>2. SourceTypes
  BY <1>1 DEF SourceTypes, Entries, Entry, Rows
<1>3. HistoryInvariant
  BY DEF HistoryInvariant, Entry
<1>4. WireInvariant
  BY NoStreamIsStream DEF WireInvariant
<1>5. ViewTypes /\ ViewIsAuthentic
  BY <1>1 DEF ViewTypes, ViewIsAuthentic, NoView
<1> QED BY <1>2, <1>3, <1>4, <1>5 DEF StreamInvariant

\* What is under way is of the new history as well.
StreamsAgree == stream' \in [Forwarders -> StreamsOver(GoodEvents', GoodFrames')]

\* A step that leaves the view alone keeps the invariant when the source, the stream and
\* the deltas to publish agree with the new history.
LEMMA KeepsView ==
  ASSUME StreamInvariant, SourceTypes', HistoryInvariant', Grows, UNCHANGED view,
         StreamsAgree, unpublished' \subseteq GoodDeltas',
         active' \in Forwarders \cup {NoForwarder}
  PROVE  StreamInvariant'
<1>1. ViewTypes' /\ ViewIsAuthentic'
  <2>1. Entry(view)' = Entry(view)
    BY DEF Entry
  <2> QED BY <2>1, WireStays DEF StreamInvariant, ViewTypes, ViewIsAuthentic
<1>2. WireInvariant'
  BY DEF WireInvariant, StreamsAgree
<1> QED BY <1>1, <1>2 DEF StreamInvariant

\* The steps of the source: a change, a loss, a sweep.
LEMMA SourceSteps ==
  ASSUME StreamInvariant, UpdateRun \/ StartRun \/ LoseProjection \/ MarkLost
  PROVE  StreamInvariant'
<1>1. UNCHANGED <<stream, active, view>>
  BY DEF UpdateRun, StartRun, LoseProjection, MarkLost, client
<1>2. ASSUME SourceTypes', HistoryInvariant', Grows, unpublished' \subseteq GoodDeltas'
      PROVE  StreamInvariant'
  <2>1. StreamsAgree
    BY <1>1, <1>2, WireStays DEF StreamsAgree
  <2> QED BY <1>1, <1>2, <2>1, KeepsView DEF StreamInvariant, WireInvariant
<1>3. CASE UpdateRun \/ StartRun
  <2>1. PICK fresh \in BOOLEAN : Change(fresh)
    BY <1>3 DEF UpdateRun, StartRun
  <2>2. row' \in Rows
    BY <1>3 DEF UpdateRun, StartRun, Rows
  <2> QED BY <1>2, <2>1, <2>2, ChangeKeeps
<1>4. CASE LoseProjection
  <2>1. <<>> \in Logs
    BY DEF Logs
  <2>2. SourceTypes'
    BY <1>4, <2>1 DEF LoseProjection, NoProj, StreamInvariant, SourceTypes
  <2>3. HistoryInvariant'
    BY <1>4 DEF LoseProjection, NoProj, StreamInvariant, HistoryInvariant
  <2>4. Grows /\ UNCHANGED unpublished
    BY <1>4 DEF LoseProjection, Grows
  <2> QED BY <1>2, <2>2, <2>3, <2>4, WireStays
<1>5. CASE MarkLost
  <2>1. SourceTypes'
    BY <1>5 DEF MarkLost, Rows, StreamInvariant, SourceTypes
  <2>2. HistoryInvariant'
    BY <1>5 DEF MarkLost, StreamInvariant, HistoryInvariant
  <2>3. Grows /\ UNCHANGED unpublished
    BY <1>5 DEF MarkLost, Grows
  <2> QED BY <1>2, <2>1, <2>2, <2>3, WireStays
<1> QED BY <1>3, <1>4, <1>5

\* A published delta, or the marker in its place, goes to the subscriptions that listen.
LEMMA PublishSteps ==
  ASSUME StreamInvariant, NEW d \in unpublished,
         Publish(d) \/ ReceiveInterrupted(d) \/ PublishFails(d)
  PROVE  StreamInvariant'
<1>1. UNCHANGED <<proj, row, epochs, made, hist, active, view>> /\ unpublished' \subseteq unpublished
  BY DEF Publish, ReceiveInterrupted, PublishFails, PublishTo, client
<1>2. SourceTypes' /\ HistoryInvariant' /\ Grows
  BY <1>1, SourceStays
<1>3. GoodEvents \subseteq GoodEvents' /\ GoodDeltas \subseteq GoodDeltas'
  BY <1>2, GoodStaysGood DEF StreamInvariant
<1>4. StreamsAgree
  <2>1. stream \in [Forwarders -> StreamsOver(GoodEvents', GoodFrames')]
    BY <1>2, WireStays
  <2>2. CASE PublishFails(d)
    BY <2>1, <2>2 DEF PublishFails, StreamsAgree
  <2>3. ASSUME NEW cut, PublishTo(d, cut)
        PROVE  StreamsAgree
    <3>1. Marker \in GoodEvents' /\ d \in GoodEvents'
      BY <1>3 DEF StreamInvariant, WireInvariant, GoodEvents
    <3>2. ASSUME NEW f \in Forwarders
          PROVE  Enqueue(stream[f].buf, IF f \in cut THEN Marker ELSE d) \in Seq(GoodEvents')
      <4>1. stream[f].buf \in Seq(GoodEvents')
        BY <2>1 DEF StreamsOver
      <4>2. (IF f \in cut THEN Marker ELSE d) \in GoodEvents'
        BY <3>1
      <4> QED BY <3>1, <4>1, <4>2, EnqueueKeeps
    <3> QED BY <2>1, <2>3, <3>2 DEF PublishTo, StreamsAgree, StreamsOver
  <2> QED BY <2>2, <2>3 DEF Publish, ReceiveInterrupted
<1> QED BY <1>1, <1>2, <1>3, <1>4, KeepsView DEF StreamInvariant, WireInvariant

\* A reconciliation sends what is in the history, or ends the subscription.
LEMMA ReconcileKeeps ==
  ASSUME StreamInvariant, NEW f \in Forwarders, NEW rest, rest \in Seq(GoodEvents),
         Reconcile(f, rest), UNCHANGED <<active, view>>
  PROVE  StreamInvariant'
<1>1. /\ SourceTypes' /\ HistoryInvariant' /\ Grows /\ unpublished' \subseteq GoodDeltas'
      /\ SnapshotFrame(Loaded) \in GoodSnapshots'
      /\ Cursor(Loaded) \in Cursors
  BY LoadKeeps DEF Reconcile
<1>2. stream \in [Forwarders -> StreamsOver(GoodEvents', GoodFrames')]
  BY <1>1, WireStays
<1>3. rest \in Seq(GoodEvents')
  BY <1>1, GoodStaysGood, SeqMonotonic DEF StreamInvariant
<1>4. StreamsAgree
  <2>1. CASE EndStream(f)
    <3>1. Dropped \in GoodFrames'
      BY DEF GoodFrames
    <3> QED BY <1>2, <2>1, <3>1, EndKeeps DEF StreamsAgree
  <2>2. CASE stream' = [stream EXCEPT ![f].buf = rest]
    BY <1>2, <1>3, <2>2 DEF StreamsAgree, StreamsOver
  <2>3. CASE Send(f, rest, SnapshotFrame(Loaded))
    <3>1. SnapshotFrame(Loaded) \in GoodFrames'
      BY <1>1 DEF GoodFrames
    <3>2. Cursor(SnapshotFrame(Loaded)) = Cursor(Loaded)
      BY DEF SnapshotFrame, Cursor
    <3> QED BY <1>1, <1>2, <1>3, <2>3, <3>1, <3>2, SendKeeps DEF StreamsAgree
  <2> QED BY <2>1, <2>2, <2>3 DEF Reconcile
<1> QED BY <1>1, <1>4, KeepsView DEF StreamInvariant, WireInvariant

\* The forwarder passes on what comes next and reconciles the rest.
LEMMA ForwarderSteps ==
  ASSUME StreamInvariant, NEW f \in Forwarders, TakeEvent(f) \/ Tick(f) \/ StreamBreaks(f)
  PROVE  StreamInvariant'
<1>1. stream[f] \in StreamsOver(GoodEvents, GoodFrames) /\ UNCHANGED <<active, view>>
  BY DEF StreamInvariant, WireInvariant, TakeEvent, Tick, StreamBreaks, client
<1>2. stream[f].buf \in Seq(GoodEvents)
  BY <1>1 DEF StreamsOver
<1>3. ASSUME UNCHANGED source, stream' \in [Forwarders -> StreamsOver(GoodEvents, GoodFrames)]
      PROVE  StreamInvariant'
  <2>1. SourceTypes' /\ HistoryInvariant' /\ Grows /\ UNCHANGED unpublished
    BY <1>3, SourceStays DEF source
  <2>2. StreamsOver(GoodEvents, GoodFrames) \subseteq StreamsOver(GoodEvents', GoodFrames')
    BY <2>1, GoodStaysGood, StreamsMonotonic DEF StreamInvariant
  <2> QED BY <1>1, <1>3, <2>1, <2>2, WireStays, KeepsView
          DEF StreamsAgree, StreamInvariant, WireInvariant
<1>4. CASE TakeEvent(f)
  <2> DEFINE e == Head(stream[f].buf)
             rest == Tail(stream[f].buf)
  <2>1. e \in GoodEvents /\ rest \in Seq(GoodEvents)
    BY <1>2, <1>4 DEF TakeEvent
  <2>2. CASE Reconcile(f, rest)
    BY <1>1, <2>1, <2>2, ReconcileKeeps
  <2>3. CASE stream' = [stream EXCEPT ![f].buf = rest] /\ UNCHANGED source
    BY <1>3, <2>1, <2>3 DEF StreamInvariant, WireInvariant, StreamsOver
  <2>4. CASE e # Marker /\ Send(f, rest, e) /\ UNCHANGED source
    <3>1. e \in GoodDeltas
      BY <2>1, <2>4 DEF GoodEvents
    <3>2. e \in GoodFrames /\ Cursor(e) \in Cursors
      BY <3>1 DEF GoodFrames, GoodDeltas, Deltas, Cursor, Cursors
    <3> QED BY <1>3, <2>1, <2>4, <3>2, SendKeeps DEF StreamInvariant, WireInvariant
  <2> QED BY <1>4, <2>2, <2>3, <2>4 DEF TakeEvent
<1>5. CASE Tick(f)
  BY <1>1, <1>2, <1>5, ReconcileKeeps DEF Tick
<1>6. CASE StreamBreaks(f)
  <2>1. Dropped \in GoodFrames
    BY DEF GoodFrames
  <2> QED BY <1>3, <1>6, <2>1, EndKeeps DEF StreamBreaks, StreamInvariant, WireInvariant
<1> QED BY <1>4, <1>5, <1>6

\* A subscription is joined, given its baseline, and put in the place of its predecessor.
LEMMA ConnectionSteps ==
  ASSUME StreamInvariant,
         \/ \E f \in Forwarders : Join(f) \/ ReadBaseline(f) \/ Activate(f) \/ SubscribeFails(f)
         \/ Disconnect \/ Connect
  PROVE  StreamInvariant'
<1> USE DEF StreamInvariant, WireInvariant
<1>1. ASSUME UNCHANGED source, stream' \in [Forwarders -> StreamsOver(GoodEvents, GoodFrames)],
             UNCHANGED view, active' \in Forwarders \cup {NoForwarder}
      PROVE  StreamInvariant'
  <2>1. SourceTypes' /\ HistoryInvariant' /\ Grows /\ UNCHANGED unpublished
    BY <1>1, SourceStays DEF source
  <2>2. StreamsOver(GoodEvents, GoodFrames) \subseteq StreamsOver(GoodEvents', GoodFrames')
    BY <2>1, GoodStaysGood, StreamsMonotonic
  <2>3. StreamsAgree /\ unpublished' \subseteq GoodDeltas'
    BY <1>1, <2>1, <2>2, WireStays DEF StreamsAgree
  <2> QED BY <1>1, <2>1, <2>3, KeepsView
<1>2. ASSUME NEW f \in Forwarders, Join(f)
      PROVE  StreamInvariant'
  <2>1. [NoStream EXCEPT !.at = "joined", !.live = TRUE] \in StreamsOver(GoodEvents, GoodFrames)
    BY NoStreamIsStream DEF StreamsOver
  <2>2. stream' \in [Forwarders -> StreamsOver(GoodEvents, GoodFrames)]
    BY <1>2, <2>1 DEF Join
  <2> QED BY <1>1, <1>2, <2>2 DEF Join, client
<1>3. ASSUME NEW f \in Forwarders, ReadBaseline(f)
      PROVE  StreamInvariant'
  <2>1. /\ SourceTypes' /\ HistoryInvariant' /\ Grows /\ unpublished' \subseteq GoodDeltas'
        /\ SnapshotFrame(Loaded) \in GoodSnapshots'
        /\ Cursor(Loaded) \in Cursors
    BY <1>3, LoadKeeps DEF ReadBaseline
  <2>2. stream \in [Forwarders -> StreamsOver(GoodEvents', GoodFrames')]
    BY <2>1, WireStays
  <2>3. <<SnapshotFrame(Loaded)>> \in Seq(GoodFrames')
    <3>1. SnapshotFrame(Loaded) \in GoodFrames'
      BY <2>1 DEF GoodFrames
    <3> QED BY <3>1
  <2>4. StreamsAgree
    BY <1>3, <2>1, <2>2, <2>3 DEF ReadBaseline, StreamsAgree, StreamsOver
  <2> QED BY <1>3, <2>1, <2>4, KeepsView DEF ReadBaseline, client
<1>4. ASSUME NEW f \in Forwarders, Activate(f)
      PROVE  StreamInvariant'
  <2> DEFINE frames == IF active = NoForwarder THEN stream[f].out
                       ELSE stream[active].out \o stream[f].out
  <2>1. frames \in Seq(GoodFrames)
    <3>1. \A g \in Forwarders : stream[g].out \in Seq(GoodFrames)
      BY DEF StreamsOver
    <3> QED BY <3>1, ConcatProperties
  <2>2. stream' = [g \in Forwarders |-> IF g = f THEN [stream[f] EXCEPT !.at = "on", !.out = frames]
                                        ELSE NoStream]
    BY <1>4 DEF Activate
  <2>3. [stream[f] EXCEPT !.at = "on", !.out = frames] \in StreamsOver(GoodEvents, GoodFrames)
    BY <2>1 DEF StreamsOver
  <2>4. stream' \in [Forwarders -> StreamsOver(GoodEvents, GoodFrames)]
    BY <2>2, <2>3, NoStreamIsStream
  <2> QED BY <1>1, <1>4, <2>4 DEF Activate, client
<1>5. ASSUME NEW f \in Forwarders, SubscribeFails(f)
      PROVE  StreamInvariant'
  BY <1>1, <1>5, NoStreamIsStream DEF SubscribeFails, client
<1>6. CASE Disconnect
  BY <1>1, <1>6, NoStreamIsStream DEF Disconnect
<1>7. CASE Connect
  BY <1>1, <1>7 DEF Connect
<1> QED BY <1>2, <1>3, <1>4, <1>5, <1>6, <1>7

\* The client puts together what the projection held.
LEMMA ClientStep == ASSUME StreamInvariant, HandleFrame PROVE StreamInvariant'
<1> USE DEF StreamInvariant, WireInvariant
<1> DEFINE frame == Head(stream[active].out)
<1>1. /\ UNCHANGED source /\ UNCHANGED active /\ active \in Forwarders
      /\ stream[active] \in StreamsOver(GoodEvents, GoodFrames)
      /\ stream[active].out # <<>>
      /\ stream' = [stream EXCEPT ![active].out = Tail(@)]
  BY DEF HandleFrame
<1>2. stream[active].out \in Seq(GoodFrames)
  BY <1>1 DEF StreamsOver
<1>3. frame \in GoodFrames /\ Tail(stream[active].out) \in Seq(GoodFrames)
  BY <1>1, <1>2
<1>4. SourceTypes' /\ HistoryInvariant' /\ Grows /\ UNCHANGED <<unpublished, hist>>
  BY <1>1, SourceStays DEF source
<1>5. WireInvariant'
  <2>1. stream' \in [Forwarders -> StreamsOver(GoodEvents, GoodFrames)]
    BY <1>1, <1>3 DEF StreamsOver
  <2>2. StreamsOver(GoodEvents, GoodFrames) \subseteq StreamsOver(GoodEvents', GoodFrames')
    BY <1>4, GoodStaysGood, StreamsMonotonic
  <2> QED BY <1>1, <1>4, <2>1, <2>2, WireStays
<1> SUFFICES ViewTypes' /\ ViewIsAuthentic'
  BY <1>4, <1>5
<1>6. ASSUME UNCHANGED view
      PROVE  ViewTypes' /\ ViewIsAuthentic'
  BY <1>4, <1>6 DEF ViewTypes, ViewIsAuthentic, Entry
<1>7. CASE frame.type = "dropped" /\ Recover
  BY <1>6, <1>7 DEF Recover
<1>8. CASE frame.type = "snapshot" /\ HandleSnapshot(frame)
  <2>1. frame \in Snapshots /\ Entry(frame) \in hist
    BY <1>3, <1>8 DEF GoodFrames, GoodSnapshots, GoodDeltas, Deltas, Dropped
  <2>2. CASE view' = [epoch |-> frame.epoch, seq |-> frame.seq, log |-> frame.log,
                      run |-> frame.run]
    <3> HIDE DEF frame
    <3>1. ViewTypes'
      BY <2>1, <2>2 DEF ViewTypes, Snapshots
    <3>2. Entry(view)' = Entry(frame)
      BY <2>2 DEF Entry
    <3> QED BY <1>4, <2>1, <3>1, <3>2 DEF ViewIsAuthentic
  <2> QED BY <1>6, <1>8, <2>2 DEF HandleSnapshot
<1>9. CASE frame.type = "delta" /\ HandleDelta(frame)
  <2>1. frame \in Deltas /\ Fits(frame)
    BY <1>3, <1>9 DEF GoodFrames, GoodSnapshots, GoodDeltas, Snapshots, Dropped
  <2>2. CASE UNCHANGED view
    BY <1>6, <2>2
  <2>3. CASE /\ frame.epoch = view.epoch /\ frame.seq = view.seq + 1
             /\ view' = [epoch |-> frame.epoch, seq |-> frame.seq, log |-> Apply(view.log, frame),
                         run |-> "live"]
    <3> HIDE DEF frame
    <3>1. Apply(view.log, frame) \in Logs
      BY <2>1 DEF Apply, Logs, Deltas, ViewTypes
    <3>2. ViewTypes'
      BY <2>1, <2>3, <3>1 DEF ViewTypes, Deltas
    <3>3. frame.epoch # 0
      BY <2>1 DEF Fits, HistoryInvariant, Cursor
    <3>4. Entry(view) \in hist
      BY <2>3, <3>3 DEF ViewIsAuthentic
    <3>5. Entry(view).epoch = view.epoch /\ Entry(view).seq = view.seq /\ Entry(view).log = view.log
      BY DEF Entry
    <3>6. [epoch |-> frame.epoch, seq |-> frame.seq, log |-> Apply(view.log, frame)] \in hist
      BY <2>1, <2>3, <3>4, <3>5 DEF Fits
    <3>7. Entry(view)' = [epoch |-> frame.epoch, seq |-> frame.seq,
                          log |-> Apply(view.log, frame)]
      BY <2>3 DEF Entry
    <3> QED BY <1>4, <3>2, <3>6, <3>7 DEF ViewIsAuthentic
  <2> QED BY <1>9, <2>2, <2>3 DEF HandleDelta, Recover
<1> QED BY <1>7, <1>8, <1>9 DEF HandleFrame

LEMMA StepKeeps == StreamInvariant /\ [StreamNext]_streamVars => StreamInvariant'
<1> SUFFICES ASSUME StreamInvariant, [StreamNext]_streamVars PROVE StreamInvariant'
  OBVIOUS
<1>1. CASE UpdateRun \/ StartRun \/ LoseProjection \/ MarkLost
  BY <1>1, SourceSteps
<1>2. CASE \E d \in unpublished : Publish(d) \/ ReceiveInterrupted(d) \/ PublishFails(d)
  BY <1>2, PublishSteps
<1>3. CASE \E f \in Forwarders : TakeEvent(f) \/ Tick(f) \/ StreamBreaks(f)
  BY <1>3, ForwarderSteps
<1>4. CASE \/ \E f \in Forwarders : Join(f) \/ ReadBaseline(f) \/ Activate(f) \/ SubscribeFails(f)
           \/ Disconnect \/ Connect
  BY <1>4, ConnectionSteps
<1>5. CASE HandleFrame
  BY <1>5, ClientStep
<1>6. CASE UNCHANGED streamVars
  <2>1. SourceTypes' /\ HistoryInvariant' /\ Grows /\ UNCHANGED <<unpublished, stream, active, view>>
    BY <1>6, SourceStays DEF streamVars, source, client
  <2> QED BY <2>1, WireStays, KeepsView DEF StreamsAgree, StreamInvariant, WireInvariant
<1> QED BY <1>1, <1>2, <1>3, <1>4, <1>5, <1>6 DEF StreamNext, ServerStep

\* Every delta and snapshot under way agrees with the history of the projection, for any
\* number of subscriptions and failures.
THEOREM StreamIsInvariant == StreamSpec => []StreamInvariant
BY InitEstablishes, StepKeeps, PTL DEF StreamSpec

\* Whatever is lost, repeated or overtaken between the projection and a client, the client
\* shows what the projection held at the client's cursor.
THEOREM ViewStaysAuthentic == StreamSpec => []ViewIsAuthentic
BY StreamIsInvariant, PTL DEF StreamInvariant
-----------------------------------------------------------------------------
(* The order of frames                                                     *)

AtMost(a, b) == a.epoch < b.epoch \/ (a.epoch = b.epoch /\ a.seq <= b.seq)

\* What may come after a frame, or after the view.
Follows(a, b) ==
  \/ b.type = "dropped"
  \/ b.type = "snapshot" /\ AtMost(a, b)
  \/ b.type = "delta" /\ b.epoch = a.epoch /\ b.seq = a.seq + 1

\* The frames of a subscription follow each other up to its place in the stream, and
\* the last word of one that ends itself is that it did.
InOrder(s) ==
  /\ \A i \in 1..Len(s.out) :
       /\ s.out[i].type = "dropped" => i = Len(s.out) /\ ~s.live
       /\ i < Len(s.out) => Follows(s.out[i], s.out[i + 1])
  /\ s.live /\ s.out # <<>> => Cursor(s.out[Len(s.out)]) = s.last

\* The first frame is a snapshot that is not older than the view ...
StartsOver(v, s) == s.out # <<>> /\ s.out[1].type = "snapshot" /\ AtMost(v, s.out[1])

\* ... or the frames go on where the view is.
GoesOn(v, s) ==
  IF s.out = <<>> THEN s.live => Cursor(v) = s.last ELSE Follows(v, s.out[1])

Entering(f) == stream[f].at \in {"joined", "ready"}
Drained     == active # NoForwarder => ~stream[active].live /\ stream[active].out = <<>>

\* A connection that is down has no subscription, one at most is on, and the client asks
\* for another one only when it awaits a snapshot and has read the last frame.
AskInvariant ==
  /\ ~connected => ~asked /\ \A f \in Forwarders : stream[f].at = "free"
  /\ \A f \in Forwarders : stream[f].at = "on" <=> f = active
  /\ asked => \A f \in Forwarders : ~Entering(f)
  /\ (asked \/ \E f \in Forwarders : Entering(f)) => awaiting /\ Drained

\* What a subscription still has to deliver.
FramesInvariant ==
  /\ \A f \in Forwarders :
       /\ stream[f].at \in {"free", "joined"} => stream[f].out = <<>>
       /\ stream[f].at \in {"ready", "on"} => \E h \in hist : Cursor(h) = stream[f].last
       /\ stream[f].at = "ready" => StartsOver(view, stream[f])
       /\ InOrder(stream[f])
  /\ active # NoForwarder =>
       IF awaiting THEN Drained \/ StartsOver(view, stream[active]) ELSE GoesOn(view, stream[active])

\* The inductive invariant of the order.
OrderInvariant == AskInvariant /\ FramesInvariant

\* Frames that do not move keep their order.
LEMMA SameFrames ==
  ASSUME NEW s, NEW t, t.out = s.out, t.last = s.last, t.live = s.live, NEW v
  PROVE  /\ InOrder(s) => InOrder(t)
         /\ StartsOver(v, s) => StartsOver(v, t)
         /\ GoesOn(v, s) => GoesOn(v, t)
BY DEF InOrder, StartsOver, GoesOn

\* A frame that follows the place of the subscription is put last.
LEMMA AppendKeepsOrder ==
  ASSUME NEW E, NEW F, NEW s \in StreamsOver(E, F), NEW t, NEW frame, NEW v,
         InOrder(s), s.live, Follows(s.last, frame),
         t.out = Append(s.out, frame),
         frame.type = "dropped" => ~t.live,
         t.live => Cursor(frame) = t.last
  PROVE  /\ InOrder(t)
         /\ StartsOver(v, s) => StartsOver(v, t)
         /\ GoesOn(v, s) => GoesOn(v, t)
<1>1. /\ s.out \in Seq(F) /\ Len(s.out) \in Nat
      /\ Len(t.out) = Len(s.out) + 1 /\ t.out # <<>>
      /\ t.out[Len(t.out)] = frame
      /\ \A i \in 1..Len(s.out) : t.out[i] = s.out[i]
  BY DEF StreamsOver
<1>2. s.out # <<>> => Len(s.out) \in 1..Len(s.out)
  BY <1>1
<1>3. s.out # <<>> => Follows(s.out[Len(s.out)], frame)
  BY DEF InOrder, Follows, AtMost, Cursor
<1>4. ASSUME NEW i \in 1..Len(t.out)
      PROVE  /\ t.out[i].type = "dropped" => i = Len(t.out) /\ ~t.live
             /\ i < Len(t.out) => Follows(t.out[i], t.out[i + 1])
  <2>1. CASE i = Len(t.out)
    BY <1>1, <2>1
  <2>2. CASE i \in 1..Len(s.out)
    <3>1. t.out[i] = s.out[i] /\ s.out[i].type # "dropped"
      BY <1>1, <2>2 DEF InOrder
    <3>2. CASE i = Len(s.out)
      <4>1. s.out # <<>>
        BY <2>2
      <4> QED BY <1>1, <1>3, <3>1, <3>2, <4>1
    <3>3. CASE i < Len(s.out)
      <4>1. i + 1 \in 1..Len(s.out)
        BY <1>1, <2>2, <3>3
      <4>2. t.out[i + 1] = s.out[i + 1]
        BY <1>1, <4>1
      <4> QED BY <2>2, <3>1, <3>3, <4>2 DEF InOrder
    <3> QED BY <1>1, <2>2, <3>2, <3>3
  <2> QED BY <1>1, <2>1, <2>2
<1>5. InOrder(t)
  BY <1>1, <1>4 DEF InOrder
<1>6. StartsOver(v, s) => StartsOver(v, t)
  <2>1. s.out # <<>> => t.out[1] = s.out[1]
    BY <1>1, <1>2
  <2> QED BY <1>1, <2>1 DEF StartsOver
<1>7. GoesOn(v, s) => GoesOn(v, t)
  <2>1. CASE s.out = <<>>
    <3>1. t.out[1] = frame
      BY <1>1, <2>1
    <3> QED BY <1>1, <2>1, <3>1 DEF GoesOn, Follows, AtMost, Cursor
  <2>2. CASE s.out # <<>>
    <3>1. t.out[1] = s.out[1]
      BY <1>1, <1>2, <2>2
    <3> QED BY <1>1, <2>2, <3>1 DEF GoesOn
  <2> QED BY <2>1, <2>2
<1> QED BY <1>5, <1>6, <1>7

\* The rest of the frames is in order, and goes on where the first one is.
LEMMA TailKeepsOrder ==
  ASSUME NEW E, NEW F, NEW s \in StreamsOver(E, F), NEW t, NEW v,
         InOrder(s), s.out # <<>>, t.out = Tail(s.out), t.last = s.last, t.live = s.live
  PROVE  /\ InOrder(t)
         /\ s.out[1].type = "dropped" => t.out = <<>> /\ ~t.live
         /\ s.out[1].type # "dropped" /\ Cursor(v) = Cursor(s.out[1]) => GoesOn(v, t)
<1>1. /\ s.out \in Seq(F) /\ Len(s.out) \in Nat \ {0}
      /\ Len(t.out) = Len(s.out) - 1
      /\ \A i \in 1..Len(t.out) : t.out[i] = s.out[i + 1]
      /\ t.out = <<>> <=> Len(s.out) = 1
  <2>1. s.out \in Seq(F)
    BY DEF StreamsOver
  <2>2. t.out \in Seq(F) /\ Len(t.out) = Len(s.out) - 1
        /\ \A i \in 1..Len(t.out) : t.out[i] = s.out[i + 1]
    BY <2>1, HeadTailProperties
  <2>3. Len(s.out) \in Nat \ {0} /\ (t.out = <<>> <=> Len(t.out) = 0)
    BY <2>1, <2>2, EmptySeq
  <2> QED BY <2>1, <2>2, <2>3
<1>2. ASSUME NEW i \in 1..Len(t.out)
      PROVE  /\ t.out[i].type = "dropped" => i = Len(t.out) /\ ~t.live
             /\ i < Len(t.out) => Follows(t.out[i], t.out[i + 1])
  <2>1. i + 1 \in 1..Len(s.out) /\ t.out[i] = s.out[i + 1]
    BY <1>1
  <2>2. i < Len(t.out) => t.out[i + 1] = s.out[i + 2] /\ i + 1 < Len(s.out)
    BY <1>1
  <2> QED BY <1>1, <2>1, <2>2 DEF InOrder
<1>3. t.live /\ t.out # <<>> => Cursor(t.out[Len(t.out)]) = t.last
  <2>1. t.out # <<>> => t.out[Len(t.out)] = s.out[Len(s.out)]
    BY <1>1
  <2> QED BY <2>1 DEF InOrder
<1>4. InOrder(t)
  BY <1>2, <1>3 DEF InOrder
<1>5. s.out[1].type = "dropped" => t.out = <<>> /\ ~t.live
  BY <1>1 DEF InOrder
<1>6. ASSUME s.out[1].type # "dropped", Cursor(v) = Cursor(s.out[1])
      PROVE  GoesOn(v, t)
  <2>1. CASE t.out = <<>>
    BY <1>1, <1>6, <2>1 DEF GoesOn, InOrder
  <2>2. CASE t.out # <<>>
    <3>1. t.out[1] = s.out[2] /\ Follows(s.out[1], s.out[2])
      BY <1>1, <2>2 DEF InOrder
    <3> QED BY <1>6, <2>2, <3>1 DEF GoesOn, Follows, AtMost, Cursor
  <2> QED BY <2>1, <2>2
<1> QED BY <1>4, <1>5, <1>6
-----------------------------------------------------------------------------
(* The steps and the order                                                 *)

\* The asks of the client are unchanged.
SameAsk == UNCHANGED <<active, asked, connected, awaiting, view>>

\* A subscription that is on the way to its client sends, ends or goes on.
LEMMA OneStreamMoves ==
  ASSUME StreamInvariant, OrderInvariant, Grows, SameAsk,
         NEW f \in Forwarders, stream[f].at \in {"ready", "on"}, stream[f].live,
         \A g \in Forwarders \ {f} : stream'[g] = stream[g],
         stream'[f].at = stream[f].at,
         \E h \in hist' : Cursor(h) = stream'[f].last,
         InOrder(stream[f]) => InOrder(stream'[f]),
         StartsOver(view, stream[f]) => StartsOver(view, stream'[f]),
         GoesOn(view, stream[f]) => GoesOn(view, stream'[f])
  PROVE  OrderInvariant'
<1> USE DEF OrderInvariant, SameAsk
<1>1. \A g \in Forwarders : stream'[g].at = stream[g].at
  OBVIOUS
<1>2. \A g \in Forwarders : Entering(g)' <=> Entering(g)
  BY <1>1 DEF Entering
<1>3. Drained => Drained'
  BY DEF Drained, AskInvariant, StreamInvariant, WireInvariant
<1>4. AskInvariant'
  BY <1>1, <1>2, <1>3 DEF AskInvariant
<1>5. ASSUME NEW g \in Forwarders
      PROVE  /\ stream'[g].at \in {"free", "joined"} => stream'[g].out = <<>>
             /\ stream'[g].at \in {"ready", "on"} => \E h \in hist' : Cursor(h) = stream'[g].last
             /\ stream'[g].at = "ready" => StartsOver(view, stream'[g])
             /\ InOrder(stream'[g])
  <2>1. CASE g = f
    BY <2>1 DEF FramesInvariant
  <2>2. CASE g # f
    BY <2>2 DEF FramesInvariant, Grows
  <2> QED BY <2>1, <2>2
<1>6. active # NoForwarder =>
        IF awaiting THEN Drained' \/ StartsOver(view, stream'[active])
                    ELSE GoesOn(view, stream'[active])
  BY <1>3 DEF FramesInvariant, StreamInvariant, WireInvariant
<1> QED BY <1>4, <1>5, <1>6 DEF FramesInvariant

\* Nor does the order depend on what a buffer holds, or on a history that grows.
LEMMA BuffersMove ==
  ASSUME StreamInvariant, OrderInvariant, Grows, SameAsk,
         \A g \in Forwarders : /\ stream'[g].at = stream[g].at
                               /\ stream'[g].live = stream[g].live
                               /\ stream'[g].last = stream[g].last
                               /\ stream'[g].out = stream[g].out
  PROVE  OrderInvariant'
<1> USE DEF OrderInvariant, SameAsk
<1>1. Drained' <=> Drained
  BY DEF Drained, StreamInvariant, WireInvariant
<1>2. \A g \in Forwarders : Entering(g)' <=> Entering(g)
  BY DEF Entering
<1>3. AskInvariant'
  BY <1>1, <1>2 DEF AskInvariant
<1>4. \A g \in Forwarders :
        /\ InOrder(stream[g]) => InOrder(stream'[g])
        /\ StartsOver(view, stream[g]) => StartsOver(view, stream'[g])
        /\ GoesOn(view, stream[g]) => GoesOn(view, stream'[g])
  BY SameFrames
<1>5. ASSUME NEW g \in Forwarders
      PROVE  /\ stream'[g].at \in {"free", "joined"} => stream'[g].out = <<>>
             /\ stream'[g].at \in {"ready", "on"} => \E h \in hist' : Cursor(h) = stream'[g].last
             /\ stream'[g].at = "ready" => StartsOver(view, stream'[g])
             /\ InOrder(stream'[g])
  BY <1>4 DEF FramesInvariant, Grows
<1>6. active # NoForwarder =>
        IF awaiting THEN Drained' \/ StartsOver(view, stream'[active])
                    ELSE GoesOn(view, stream'[active])
  BY <1>1, <1>4 DEF FramesInvariant, StreamInvariant, WireInvariant
<1> QED BY <1>3, <1>5, <1>6 DEF FramesInvariant

\* The changes of the source, and publishing them, touch buffers only.
LEMMA SourceKeepsOrder ==
  ASSUME StreamInvariant, OrderInvariant, StreamInvariant',
         \/ UpdateRun \/ StartRun \/ LoseProjection \/ MarkLost
         \/ \E d \in unpublished : Publish(d) \/ ReceiveInterrupted(d) \/ PublishFails(d)
  PROVE  OrderInvariant'
<1>1. ASSUME UpdateRun \/ StartRun \/ LoseProjection \/ MarkLost
      PROVE  OrderInvariant'
  <2>1. UNCHANGED stream /\ SameAsk
    BY <1>1 DEF UpdateRun, StartRun, LoseProjection, MarkLost, client, SameAsk
  <2>2. CASE UpdateRun \/ StartRun
    <3>1. PICK fresh \in BOOLEAN : Change(fresh)
      BY <2>2 DEF UpdateRun, StartRun
    <3>2. row' \in Rows
      BY <2>2 DEF UpdateRun, StartRun, Rows
    <3> QED BY <2>1, <3>1, <3>2, ChangeKeeps, BuffersMove
  <2>3. CASE LoseProjection \/ MarkLost
    <3>1. Grows
      BY <2>3 DEF LoseProjection, MarkLost, Grows
    <3> QED BY <2>1, <3>1, BuffersMove
  <2> QED BY <1>1, <2>2, <2>3
<1>2. ASSUME NEW d \in unpublished, Publish(d) \/ ReceiveInterrupted(d) \/ PublishFails(d)
      PROVE  OrderInvariant'
  <2>1. Grows /\ SameAsk
    BY <1>2 DEF Publish, ReceiveInterrupted, PublishFails, PublishTo, Grows, SameAsk, client
  <2>2. \A g \in Forwarders : /\ stream'[g].at = stream[g].at
                              /\ stream'[g].live = stream[g].live
                              /\ stream'[g].last = stream[g].last
                              /\ stream'[g].out = stream[g].out
    <3>1. CASE UNCHANGED stream
      BY <3>1
    <3>2. ASSUME NEW cut, PublishTo(d, cut)
          PROVE  \A g \in Forwarders : /\ stream'[g].at = stream[g].at
                                       /\ stream'[g].live = stream[g].live
                                       /\ stream'[g].last = stream[g].last
                                       /\ stream'[g].out = stream[g].out
      BY <3>2 DEF PublishTo, StreamInvariant, WireInvariant, StreamsOver
    <3> QED BY <1>2, <3>1, <3>2 DEF Publish, ReceiveInterrupted, PublishFails
  <2> QED BY <2>1, <2>2, BuffersMove
<1> QED BY <1>1, <1>2

\* No entry of the history is newer than what is read.
LEMMA LoadedIsNewest ==
  ASSUME StreamInvariant
  PROVE  \A h \in hist : AtMost(h, Loaded)
BY DEF StreamInvariant, SourceTypes, HistoryInvariant, Entries, Loaded, AtMost

\* A subscription that can send is where the history was.
LEMMA SenderKnown ==
  ASSUME StreamInvariant, OrderInvariant, NEW f \in Forwarders, CanSend(f)
  PROVE  /\ stream[f].at \in {"ready", "on"} /\ stream[f].live /\ InOrder(stream[f])
         /\ \E h \in hist : Cursor(h) = stream[f].last
         /\ stream[f] \in StreamsOver(GoodEvents, GoodFrames)
BY DEF CanSend, OrderInvariant, FramesInvariant, StreamInvariant, WireInvariant

\* A subscription that ends says so last.
LEMMA EndKeepsOrder ==
  ASSUME StreamInvariant, OrderInvariant, Grows, SameAsk,
         NEW f \in Forwarders, CanSend(f), EndStream(f)
  PROVE  OrderInvariant'
<1>1. /\ stream'[f].at = stream[f].at /\ stream'[f].last = stream[f].last /\ ~stream'[f].live
      /\ stream'[f].out = Append(stream[f].out, Dropped)
      /\ \A g \in Forwarders \ {f} : stream'[g] = stream[g]
  BY SenderKnown DEF EndStream, StreamInvariant, WireInvariant, StreamsOver
<1>2. Dropped.type = "dropped" /\ Follows(stream[f].last, Dropped)
  BY DEF Dropped, Follows
<1>3. /\ InOrder(stream'[f])
      /\ StartsOver(view, stream[f]) => StartsOver(view, stream'[f])
      /\ GoesOn(view, stream[f]) => GoesOn(view, stream'[f])
  BY <1>1, <1>2, SenderKnown, AppendKeepsOrder
<1>4. \E h \in hist' : Cursor(h) = stream'[f].last
  BY <1>1, SenderKnown DEF Grows
<1> QED BY <1>1, <1>3, <1>4, SenderKnown, OneStreamMoves

\* A frame that is sent follows the last one.
LEMMA SendKeepsOrder ==
  ASSUME StreamInvariant, OrderInvariant, Grows, SameAsk,
         NEW f \in Forwarders, CanSend(f), NEW rest, NEW frame, Send(f, rest, frame),
         Follows(stream[f].last, frame), frame.type # "dropped",
         \E h \in hist' : Cursor(h) = Cursor(frame)
  PROVE  OrderInvariant'
<1>1. /\ stream'[f].at = stream[f].at /\ stream'[f].last = Cursor(frame) /\ stream'[f].live
      /\ stream'[f].out = Append(stream[f].out, frame)
      /\ \A g \in Forwarders \ {f} : stream'[g] = stream[g]
  BY SenderKnown DEF Send, StreamInvariant, WireInvariant, StreamsOver
<1>2. /\ InOrder(stream'[f])
      /\ StartsOver(view, stream[f]) => StartsOver(view, stream'[f])
      /\ GoesOn(view, stream[f]) => GoesOn(view, stream'[f])
  BY <1>1, SenderKnown, AppendKeepsOrder
<1> QED BY <1>1, <1>2, SenderKnown, OneStreamMoves

\* An event that is dropped, and a snapshot that says nothing new, send nothing.
LEMMA SkipKeepsOrder ==
  ASSUME StreamInvariant, OrderInvariant, Grows, SameAsk,
         NEW f \in Forwarders, NEW rest, stream' = [stream EXCEPT ![f].buf = rest]
  PROVE  OrderInvariant'
<1>1. \A g \in Forwarders : /\ stream'[g].at = stream[g].at
                            /\ stream'[g].live = stream[g].live
                            /\ stream'[g].last = stream[g].last
                            /\ stream'[g].out = stream[g].out
  BY DEF StreamInvariant, WireInvariant, StreamsOver
<1> QED BY <1>1, BuffersMove

LEMMA ReconcileKeepsOrder ==
  ASSUME StreamInvariant, OrderInvariant, SameAsk,
         NEW f \in Forwarders, CanSend(f), NEW rest, Reconcile(f, rest)
  PROVE  OrderInvariant'
<1>1. Grows /\ SnapshotFrame(Loaded) \in GoodSnapshots' /\ Cursor(Loaded) \in Cursors
  BY LoadKeeps DEF Reconcile
<1>2. CASE EndStream(f)
  BY <1>1, <1>2, EndKeepsOrder
<1>3. CASE stream' = [stream EXCEPT ![f].buf = rest]
  BY <1>1, <1>3, SkipKeepsOrder
<1>4. CASE Send(f, rest, SnapshotFrame(Loaded))
  <2> DEFINE s == SnapshotFrame(Loaded)
  <2>1. s.type = "snapshot" /\ s.epoch = Loaded.epoch /\ s.seq = Loaded.seq
    BY DEF SnapshotFrame
  <2>2. PICK h \in hist : Cursor(h) = stream[f].last
    BY SenderKnown
  <2>3. AtMost(h, Loaded)
    BY LoadedIsNewest
  <2>4. Follows(stream[f].last, s)
    <3>1. stream[f].last.epoch = h.epoch /\ stream[f].last.seq = h.seq
      BY <2>2 DEF Cursor
    <3> HIDE DEF s
    <3> QED BY <2>1, <2>3, <3>1 DEF Follows, AtMost
  <2>5. Entry(s) \in hist' /\ Cursor(Entry(s)) = Cursor(s)
    BY <1>1 DEF GoodSnapshots, Entry, Cursor
  <2> HIDE DEF s
  <2> QED BY <1>1, <1>4, <2>1, <2>4, <2>5, SendKeepsOrder DEF s
<1> QED BY <1>2, <1>3, <1>4 DEF Reconcile

\* What the forwarder does.
LEMMA ForwarderKeepsOrder ==
  ASSUME StreamInvariant, OrderInvariant, NEW f \in Forwarders,
         TakeEvent(f) \/ Tick(f) \/ StreamBreaks(f)
  PROVE  OrderInvariant'
<1>1. SameAsk /\ CanSend(f)
  BY DEF TakeEvent, Tick, StreamBreaks, SameAsk, client
<1>2. UNCHANGED source => Grows
  BY DEF Grows, source
<1>3. CASE TakeEvent(f)
  <2> DEFINE e == Head(stream[f].buf)
             rest == Tail(stream[f].buf)
  <2>1. e \in GoodEvents
    BY <1>3 DEF TakeEvent, StreamInvariant, WireInvariant, StreamsOver
  <2>2. CASE Reconcile(f, rest)
    BY <1>1, <2>2, ReconcileKeepsOrder
  <2>3. CASE stream' = [stream EXCEPT ![f].buf = rest] /\ UNCHANGED source
    BY <1>1, <1>2, <2>3, SkipKeepsOrder
  <2>4. CASE /\ e # Marker /\ e.epoch = stream[f].last.epoch /\ e.seq = stream[f].last.seq + 1
             /\ Send(f, rest, e) /\ UNCHANGED source
    <3>1. e \in Deltas /\ Fits(e) /\ UNCHANGED hist
      BY <2>1, <2>4 DEF GoodEvents, GoodDeltas, source
    <3>2. e.type = "delta" /\ Follows(stream[f].last, e)
      BY <2>4, <3>1 DEF Deltas, Follows
    <3>3. \E h \in hist' : Cursor(h) = Cursor(e)
      BY <3>1 DEF Fits
    <3> HIDE DEF e, rest
    <3> QED BY <1>1, <1>2, <2>4, <3>2, <3>3, SendKeepsOrder
  <2> QED BY <1>3, <2>2, <2>3, <2>4 DEF TakeEvent
<1>4. CASE Tick(f)
  BY <1>1, <1>4, ReconcileKeepsOrder DEF Tick
<1>5. CASE StreamBreaks(f)
  BY <1>1, <1>2, <1>5, EndKeepsOrder DEF StreamBreaks
<1> QED BY <1>3, <1>4, <1>5

\* Nothing is in order.
LEMMA NothingInOrder == \A s : s.out = <<>> => InOrder(s)
BY DEF InOrder

\* What the client asks for, and what becomes of it.
LEMMA ConnectionKeepsOrder ==
  ASSUME StreamInvariant, OrderInvariant,
         \/ \E f \in Forwarders : Join(f) \/ ReadBaseline(f) \/ Activate(f) \/ SubscribeFails(f)
         \/ Disconnect \/ Connect
  PROVE  OrderInvariant'
<1> USE DEF OrderInvariant
<1>1. stream \in [Forwarders -> StreamsOver(GoodEvents, GoodFrames)]
      /\ active \in Forwarders \cup {NoForwarder}
  BY DEF StreamInvariant, WireInvariant
<1>2. ASSUME NEW f \in Forwarders, Join(f)
      PROVE  OrderInvariant'
  <2>1. /\ asked /\ awaiting /\ Drained /\ connected /\ active # f /\ asked' = FALSE
        /\ UNCHANGED <<active, connected, awaiting, view, hist>>
        /\ \A g \in Forwarders : stream[g].at \in {"free", "on"}
    BY <1>2 DEF Join, AskInvariant, client, source
  <2>2. /\ stream'[f].at = "joined" /\ stream'[f].out = <<>>
        /\ \A g \in Forwarders \ {f} : stream'[g] = stream[g]
    BY <1>1, <1>2 DEF Join, NoStream
  <2>3. Drained'
    BY <1>1, <2>1, <2>2 DEF Drained
  <2>4. AskInvariant'
    BY <1>1, <2>1, <2>2, <2>3 DEF AskInvariant
  <2>5. FramesInvariant'
    BY <1>1, <2>1, <2>2, <2>3, NothingInOrder DEF FramesInvariant
  <2> QED BY <2>4, <2>5
<1>3. ASSUME NEW f \in Forwarders, ReadBaseline(f)
      PROVE  OrderInvariant'
  <2> DEFINE s == SnapshotFrame(Loaded)
  <2>1. Grows /\ s \in GoodSnapshots'
    BY <1>3, LoadKeeps DEF ReadBaseline
  <2>2. /\ stream[f].at = "joined" /\ awaiting /\ Drained /\ connected /\ ~asked /\ active # f
        /\ UNCHANGED <<active, asked, connected, awaiting, view>>
    BY <1>3 DEF ReadBaseline, AskInvariant, Entering, client
  <2>3. /\ stream'[f].at = "ready" /\ stream'[f].out = <<s>> /\ stream'[f].last = Cursor(Loaded)
        /\ \A g \in Forwarders \ {f} : stream'[g] = stream[g]
    BY <1>1, <1>3 DEF ReadBaseline, StreamsOver
  <2>4. s.type = "snapshot" /\ s.epoch = Loaded.epoch /\ s.seq = Loaded.seq
        /\ Cursor(s) = Cursor(Loaded)
    BY DEF SnapshotFrame, Cursor
  <2>5. AtMost(view, s)
    <3>1. CASE view.epoch = 0
      <4>1. Loaded.epoch \in Nat \ {0}
        BY DEF Loaded, StreamInvariant, SourceTypes
      <4> HIDE DEF s
      <4> QED BY <2>4, <3>1, <4>1 DEF AtMost
    <3>2. CASE view.epoch # 0
      <4>1. AtMost(Entry(view), Loaded)
        BY <3>2, LoadedIsNewest DEF StreamInvariant, ViewIsAuthentic
      <4> HIDE DEF s
      <4> QED BY <2>4, <4>1 DEF AtMost, Entry
    <3> QED BY <3>1, <3>2
  <2>6. \E h \in hist' : Cursor(h) = stream'[f].last
    <3>1. Entry(s) \in hist' /\ Cursor(Entry(s)) = Cursor(s)
      BY <2>1 DEF GoodSnapshots, Entry, Cursor
    <3> HIDE DEF s
    <3> QED BY <2>3, <2>4, <3>1
  <2> HIDE DEF s
  <2>7. InOrder(stream'[f]) /\ StartsOver(view, stream'[f])
    BY <2>3, <2>4, <2>5 DEF InOrder, StartsOver
  <2>8. Drained'
    BY <1>1, <2>2, <2>3 DEF Drained
  <2>9. AskInvariant'
    BY <1>1, <2>2, <2>3, <2>8 DEF AskInvariant, Entering
  <2>10. FramesInvariant'
    <3>1. ASSUME NEW g \in Forwarders
          PROVE  /\ stream'[g].at \in {"free", "joined"} => stream'[g].out = <<>>
                 /\ stream'[g].at \in {"ready", "on"} =>
                      \E h \in hist' : Cursor(h) = stream'[g].last
                 /\ stream'[g].at = "ready" => StartsOver(view, stream'[g])
                 /\ InOrder(stream'[g])
      <4>1. CASE g = f
        BY <2>3, <2>6, <2>7, <4>1
      <4>2. CASE g # f
        BY <2>1, <2>3, <4>2 DEF FramesInvariant, Grows
      <4> QED BY <4>1, <4>2
    <3> QED BY <2>2, <2>8, <3>1 DEF FramesInvariant
  <2> QED BY <2>9, <2>10
<1>4. ASSUME NEW f \in Forwarders, Activate(f)
      PROVE  OrderInvariant'
  <2>1. /\ stream[f].at = "ready" /\ awaiting /\ Drained /\ connected /\ ~asked /\ active # f
        /\ active' = f
        /\ UNCHANGED <<asked, connected, awaiting, view, hist>>
    BY <1>4 DEF Activate, AskInvariant, Entering, client, source
  <2>2. stream[f].out \in Seq(GoodFrames)
    BY <1>1 DEF StreamsOver
  <2>3. stream'[f].out = IF active = NoForwarder THEN stream[f].out
                         ELSE stream[active].out \o stream[f].out
    BY <1>1, <1>4 DEF Activate, StreamsOver
  <2>4. stream'[f].out = stream[f].out
    BY <2>1, <2>2, <2>3, ConcatEmptySeq DEF Drained
  <2>5. /\ stream'[f].at = "on" /\ stream'[f].live = stream[f].live
        /\ stream'[f].last = stream[f].last
        /\ \A g \in Forwarders \ {f} : stream'[g] = NoStream
    BY <1>1, <1>4 DEF Activate, StreamsOver
  <2>6. NoStream.at = "free" /\ NoStream.out = <<>>
    BY DEF NoStream
  <2>7. InOrder(stream'[f]) /\ StartsOver(view, stream'[f])
    BY <2>1, <2>4, <2>5, SameFrames DEF FramesInvariant
  <2>8. AskInvariant'
    BY <2>1, <2>5, <2>6, StreamAssumption DEF AskInvariant, Entering
  <2>9. FramesInvariant'
    BY <2>1, <2>5, <2>6, <2>7, NothingInOrder DEF FramesInvariant
  <2> QED BY <2>8, <2>9
<1>5. ASSUME NEW f \in Forwarders, SubscribeFails(f)
      PROVE  OrderInvariant'
  <2>1. /\ stream[f].at = "joined" /\ awaiting /\ Drained /\ connected /\ ~asked /\ active # f
        /\ UNCHANGED <<active, asked, connected, awaiting, view, hist>>
    BY <1>5 DEF SubscribeFails, AskInvariant, Entering, client, source
  <2>2. /\ stream'[f].at = "free" /\ stream'[f].out = <<>>
        /\ \A g \in Forwarders \ {f} : stream'[g] = stream[g]
    BY <1>1, <1>5 DEF SubscribeFails, NoStream
  <2>3. Drained'
    BY <1>1, <2>1, <2>2 DEF Drained
  <2>4. AskInvariant'
    BY <1>1, <2>1, <2>2, <2>3 DEF AskInvariant, Entering
  <2>5. FramesInvariant'
    BY <1>1, <2>1, <2>2, <2>3, NothingInOrder DEF FramesInvariant
  <2> QED BY <2>4, <2>5
<1>6. CASE Disconnect
  <2>1. /\ active' = NoForwarder /\ asked' = FALSE
        /\ \A g \in Forwarders : stream'[g].at = "free" /\ stream'[g].out = <<>>
    BY <1>6 DEF Disconnect, NoStream
  <2>2. AskInvariant'
    BY <2>1, StreamAssumption DEF AskInvariant, Entering
  <2>3. FramesInvariant'
    BY <2>1, NothingInOrder DEF FramesInvariant
  <2> QED BY <2>2, <2>3
<1>7. CASE Connect
  <2>1. /\ active = NoForwarder /\ active' = active /\ stream' = stream /\ hist' = hist
        /\ view' = view /\ connected' = TRUE /\ awaiting' = TRUE
        /\ \A f \in Forwarders : stream[f].at = "free"
    BY <1>1, <1>7 DEF Connect, AskInvariant, source
  <2>2. AskInvariant'
    BY <2>1, StreamAssumption DEF AskInvariant, Entering, Drained
  <2>3. FramesInvariant'
    BY <2>1 DEF FramesInvariant
  <2> QED BY <2>2, <2>3
<1> QED BY <1>2, <1>3, <1>4, <1>5, <1>6, <1>7

Forward == \/ view'.epoch > view.epoch
           \/ view'.epoch = view.epoch /\ view'.seq >= view.seq

\* A frame takes the view to its place, which is not behind it; the last one makes the
\* client ask.
LEMMA ClientKeepsOrder ==
  ASSUME StreamInvariant, OrderInvariant, HandleFrame
  PROVE  OrderInvariant' /\ Forward
<1> USE DEF OrderInvariant
<1> DEFINE frame == Head(stream[active].out)
<1>1. /\ active \in Forwarders /\ active # NoForwarder /\ connected
      /\ stream \in [Forwarders -> StreamsOver(GoodEvents, GoodFrames)]
      /\ stream[active].out # <<>> /\ stream[active].out \in Seq(GoodFrames)
      /\ stream' = [stream EXCEPT ![active].out = Tail(@)]
      /\ UNCHANGED <<active, connected, hist>>
  BY StreamAssumption DEF HandleFrame, StreamInvariant, WireInvariant, StreamsOver, source
<1>2. frame = stream[active].out[1] /\ frame \in GoodFrames
  BY <1>1
<1>3. /\ stream'[active].out = Tail(stream[active].out)
      /\ stream'[active].last = stream[active].last
      /\ stream'[active].live = stream[active].live
      /\ stream'[active].at = stream[active].at
      /\ \A g \in Forwarders \ {active} : stream'[g] = stream[g]
  BY <1>1 DEF StreamsOver
<1>4. ~asked /\ \A g \in Forwarders : ~Entering(g)
  BY <1>1 DEF AskInvariant, Drained
<1>5. /\ InOrder(stream'[active])
      /\ frame.type = "dropped" => stream'[active].out = <<>> /\ ~stream'[active].live
      /\ \A v : frame.type # "dropped" /\ Cursor(v) = Cursor(frame) => GoesOn(v, stream'[active])
  <2> DEFINE s == stream[active]
             t == stream'[active]
  <2>1. /\ s \in StreamsOver(GoodEvents, GoodFrames) /\ InOrder(s) /\ s.out # <<>>
        /\ t.out = Tail(s.out) /\ t.last = s.last /\ t.live = s.live
        /\ frame = s.out[1]
    BY <1>1, <1>2, <1>3 DEF FramesInvariant
  <2> HIDE DEF frame, s, t
  <2>2. ASSUME NEW v
        PROVE  /\ InOrder(t)
               /\ s.out[1].type = "dropped" => t.out = <<>> /\ ~t.live
               /\ s.out[1].type # "dropped" /\ Cursor(v) = Cursor(s.out[1]) => GoesOn(v, t)
    BY ONLY <2>1, TailKeepsOrder
  <2> QED BY <2>1, <2>2 DEF t
<1>6. view.epoch \in Nat /\ view.seq \in Nat
  BY DEF StreamInvariant, ViewTypes
<1>7. ASSUME NEW g \in Forwarders
      PROVE  /\ stream'[g].at \in {"free", "joined"} => stream'[g].out = <<>>
             /\ stream'[g].at \in {"ready", "on"} => \E h \in hist' : Cursor(h) = stream'[g].last
             /\ stream'[g].at # "ready"
             /\ InOrder(stream'[g])
  <2>1. stream[g].at \notin {"ready", "joined"}
    BY <1>4 DEF Entering
  <2>2. CASE g = active
    BY <1>1, <1>3, <1>5, <2>1, <2>2 DEF FramesInvariant, AskInvariant
  <2>3. CASE g # active
    BY <1>1, <1>3, <2>1, <2>3 DEF FramesInvariant
  <2> QED BY <2>2, <2>3
<1>8. AskInvariant' <=> (asked' => awaiting' /\ Drained')
  BY <1>1, <1>3, <1>4 DEF AskInvariant, Entering
<1> HIDE DEF frame
<1>9. ASSUME frame.type # "dropped", Cursor(view') = Cursor(frame), ~awaiting', UNCHANGED asked,
             AtMost(view, frame)
      PROVE  OrderInvariant' /\ Forward
  <2>1. GoesOn(view', stream'[active])
    BY <1>5, <1>9
  <2>2. FramesInvariant' /\ AskInvariant'
    BY <1>1, <1>4, <1>7, <1>8, <1>9, <2>1 DEF FramesInvariant
  <2>3. Forward
    BY <1>6, <1>9 DEF Forward, AtMost, Cursor
  <2> QED BY <2>2, <2>3
<1>10. CASE awaiting
  <2>1. frame.type = "snapshot" /\ AtMost(view, frame)
    BY <1>1, <1>2, <1>10 DEF FramesInvariant, Drained, StartsOver
  <2>2. HandleSnapshot(frame)
    BY <2>1 DEF HandleFrame, frame
  <2> QED BY <1>9, <1>10, <2>1, <2>2 DEF HandleSnapshot, Cursor
<1>11. CASE ~awaiting
  <2>1. Follows(view, frame)
    BY <1>1, <1>2, <1>11 DEF FramesInvariant, GoesOn
  <2>2. CASE frame.type = "dropped"
    <3>1. Recover
      BY <2>2 DEF HandleFrame, frame
    <3>2. awaiting' /\ view' = view
      BY <3>1 DEF Recover
    <3>3. Drained'
      BY <1>1, <1>5, <2>2 DEF Drained
    <3>4. FramesInvariant' /\ AskInvariant'
      BY <1>1, <1>7, <1>8, <3>2, <3>3 DEF FramesInvariant
    <3> QED BY <1>6, <3>2, <3>4 DEF Forward
  <2>3. CASE frame.type = "snapshot"
    <3>1. HandleSnapshot(frame) /\ AtMost(view, frame)
      BY <2>1, <2>3 DEF HandleFrame, Follows, frame
    <3>2. Cursor(view') = Cursor(frame)
      <4>1. frame.epoch \in Nat /\ frame.seq \in Nat
        BY <1>2, <2>3 DEF GoodFrames, GoodSnapshots, Snapshots, GoodDeltas, Deltas, Dropped
      <4> QED BY <1>6, <1>11, <3>1, <4>1 DEF HandleSnapshot, AtMost, Cursor
    <3> QED BY <1>9, <2>3, <3>1, <3>2 DEF HandleSnapshot
  <2>4. CASE frame.type = "delta"
    <3>1. HandleDelta(frame) /\ frame.epoch = view.epoch /\ frame.seq = view.seq + 1
      BY <2>1, <2>4 DEF HandleFrame, Follows, frame
    <3>2. /\ view' = [epoch |-> frame.epoch, seq |-> frame.seq, log |-> Apply(view.log, frame),
                      run |-> "live"]
          /\ UNCHANGED <<awaiting, asked>>
      BY <1>6, <1>11, <3>1 DEF HandleDelta
    <3>3. Cursor(view') = Cursor(frame) /\ AtMost(view, frame)
      BY <1>6, <3>1, <3>2 DEF Cursor, AtMost
    <3> QED BY <1>9, <1>11, <2>4, <3>2, <3>3
  <2> QED BY <2>1, <2>2, <2>3, <2>4 DEF Follows
<1> QED BY <1>10, <1>11

LEMMA InitInOrder == StreamInit => OrderInvariant
<1> SUFFICES ASSUME StreamInit PROVE OrderInvariant
  OBVIOUS
<1>1. /\ active = NoForwarder /\ connected /\ awaiting
      /\ \A f \in Forwarders : stream[f].at = "free" /\ stream[f].out = <<>>
  BY DEF StreamInit, NoStream
<1>2. AskInvariant
  BY <1>1, StreamAssumption DEF AskInvariant, Entering, Drained
<1>3. FramesInvariant
  BY <1>1, NothingInOrder DEF FramesInvariant
<1> QED BY <1>2, <1>3 DEF OrderInvariant

LEMMA OrderStep ==
  StreamInvariant /\ StreamInvariant' /\ OrderInvariant /\ [StreamNext]_streamVars
    => OrderInvariant' /\ Forward
<1> SUFFICES ASSUME StreamInvariant, StreamInvariant', OrderInvariant, [StreamNext]_streamVars
             PROVE  OrderInvariant' /\ Forward
  OBVIOUS
<1>1. UNCHANGED view => Forward
  BY DEF Forward, StreamInvariant, ViewTypes
<1>2. CASE \/ UpdateRun \/ StartRun \/ LoseProjection \/ MarkLost
           \/ \E d \in unpublished : Publish(d) \/ ReceiveInterrupted(d) \/ PublishFails(d)
  <2>1. UNCHANGED view
    BY <1>2 DEF UpdateRun, StartRun, LoseProjection, MarkLost, Publish, ReceiveInterrupted,
                PublishFails, PublishTo, client
  <2> QED BY <1>1, <1>2, <2>1, SourceKeepsOrder
<1>3. CASE \E f \in Forwarders : TakeEvent(f) \/ Tick(f) \/ StreamBreaks(f)
  <2>1. UNCHANGED view
    BY <1>3 DEF TakeEvent, Tick, StreamBreaks, client
  <2> QED BY <1>1, <1>3, <2>1, ForwarderKeepsOrder
<1>4. CASE \/ \E f \in Forwarders : Join(f) \/ ReadBaseline(f) \/ Activate(f) \/ SubscribeFails(f)
           \/ Disconnect \/ Connect
  <2>1. UNCHANGED view
    BY <1>4 DEF Join, ReadBaseline, Activate, SubscribeFails, Disconnect, Connect, client
  <2> QED BY <1>1, <1>4, <2>1, ConnectionKeepsOrder
<1>5. CASE HandleFrame
  BY <1>5, ClientKeepsOrder
<1>6. CASE UNCHANGED streamVars
  <2>1. Grows /\ SameAsk /\ UNCHANGED <<stream, view>>
    BY <1>6 DEF streamVars, source, client, Grows, SameAsk
  <2> QED BY <1>1, <2>1, BuffersMove
<1> QED BY <1>2, <1>3, <1>4, <1>5, <1>6 DEF StreamNext, ServerStep

\* A subscription is asked for only when the last frame of its predecessor has been read,
\* and every frame follows the one before it, for any number of subscriptions.
THEOREM FramesStayInOrder == StreamSpec => []OrderInvariant
<1>1. StreamSpec => []StreamInvariant
  BY StreamIsInvariant
<1>2. StreamInvariant /\ StreamInvariant' /\ OrderInvariant /\ [StreamNext]_streamVars
        => OrderInvariant'
  BY OrderStep
<1> QED BY <1>1, <1>2, InitInOrder, PTL DEF StreamSpec

\* What the client shows never goes back: not to an earlier change, and not to an epoch
\* that was lost, whatever is resubscribed in between.
THEOREM ViewNeverGoesBack == StreamSpec => ViewMovesForward
<1>1. StreamInvariant /\ StreamInvariant' /\ OrderInvariant /\ [StreamNext]_streamVars
        => [Forward]_streamVars
  BY OrderStep
<1>2. [Forward]_streamVars
        => [\/ view'.epoch > view.epoch
            \/ view'.epoch = view.epoch /\ view'.seq >= view.seq]_streamVars
  BY DEF Forward
<1>3. StreamSpec => []StreamInvariant /\ []OrderInvariant
  BY StreamIsInvariant, FramesStayInOrder, PTL
<1> QED BY <1>1, <1>2, <1>3, PTL DEF StreamSpec, ViewMovesForward
=============================================================================
