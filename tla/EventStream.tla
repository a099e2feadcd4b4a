----------------------------- MODULE EventStream -----------------------------
(***************************************************************************)
(* What a client sees of a session: the live projection and its deltas,    *)
(* the backend subscription with its bounded buffer, the forwarder of      *)
(* Manager.Subscribe, the WebSocket's set of subscriptions, and the view   *)
(* the web client reduces from the frames.                                 *)
(*                                                                         *)
(* A projection is read and written by one call to the backend, published  *)
(* by another.  Any server writes it, so deltas overtake each other.  The  *)
(* content of a projection is the sequence of changes made to its run;     *)
(* a delta appends one, a new run starts over.                             *)
(*                                                                         *)
(* Abstractions.  One session and one client that stays subscribed to it.  *)
(* The forwarder's channel and the socket are one queue of frames.  The    *)
(* row and the projection of a run that starts or ends are written as one. *)
(* A subscription that ends reports it once; the second report of the      *)
(* connection finds the client waiting already.                            *)
(* Lease renewals are left out: RenewLease moves the lease deadline in the *)
(* projection without counting it or sending a delta, so the content here  *)
(* is what the frames carry besides that timestamp.  A projection without  *)
(* a run and the row shown in its place are read in one step; the code     *)
(* reads the row second, and only what a frame says of such a run depends  *)
(* on it.                                                                  *)
(*                                                                         *)
(* Two checks of the code find nothing to do here: a projection does not   *)
(* move back in its epoch, which reconcile guards against, and the frames  *)
(* of a forwarder have no gap, which the client guards against.            *)
(***************************************************************************)
EXTENDS Integers, Sequences

CONSTANTS
  Forwarders,  \* subscriptions of the connection, the current one and its successor
  NoForwarder,
  BufferSize,  \* of a backend subscription
  OutSize,     \* of a forwarder
  MaxChanges,  \* bound on changes of the projection
  MaxEpochs,   \* bound on projections: one more than the times it is lost
  MaxErrors    \* bound on failing calls and broken connections

ASSUME StreamAssumption ==
  /\ NoForwarder \notin Forwarders
  /\ BufferSize \in Nat \ {0} /\ OutSize \in Nat \ {0}
  /\ MaxChanges \in Nat /\ MaxEpochs \in Nat \ {0} /\ MaxErrors \in Nat

VARIABLES
  proj,         \* Snapshot: epoch, seq, the content of its run, whether it has one
  row,          \* the run's row: active, ended or lost
  epochs,       \* epochs given out so far
  made,         \* changes made so far
  unpublished,  \* deltas of changes that are written and not published
  stream,       \* the subscriptions, see NoStream
  active,       \* runtimeSubscriptions.active
  asked,        \* a runtime_subscribe of the client is on its way
  refused,      \* one was answered with an error on this connection
  connected,
  awaiting,     \* awaitingSnapshots
  view,         \* RuntimeProjectionState of the client
  hist,         \* history: the content the projection had at each cursor
  errors        \* failed calls and broken connections so far

source == <<proj, row, epochs, made, unpublished, hist>>
client == <<connected, awaiting, view>>
streamVars == <<source, stream, active, asked, refused, client, errors>>

NoProj   == [epoch |-> 0, seq |-> 0, log |-> <<>>, live |-> FALSE]
NoView   == [epoch |-> 0, seq |-> 0, log |-> <<>>, run |-> "none"]
NoStream == [at |-> "free", live |-> FALSE, buf |-> <<>>, last |-> [epoch |-> 0, seq |-> 0],
             out |-> <<>>]
Marker   == [type |-> "marker"]
Dropped  == [type |-> "dropped"]

Fails     == errors < MaxErrors /\ errors' = errors + 1
Cursor(x) == [epoch |-> x.epoch, seq |-> x.seq]
Entry(p)  == [epoch |-> p.epoch, seq |-> p.seq, log |-> p.log]

StreamInit ==
  /\ proj = [epoch |-> 1, seq |-> 0, log |-> <<>>, live |-> TRUE]
  /\ row = "active" /\ epochs = 1 /\ made = 0 /\ unpublished = {}
  /\ stream = [f \in Forwarders |-> NoStream] /\ active = NoForwarder
  /\ asked = TRUE /\ refused = FALSE /\ connected = TRUE /\ awaiting = TRUE
  /\ view = NoView /\ hist = {Entry(proj)} /\ errors = 0
-----------------------------------------------------------------------------
(* The projection                                                          *)

Record(p) ==
  /\ proj' = p
  /\ hist' = {h \in hist : Cursor(h) # Cursor(p)} \cup {Entry(p)}

\* RuntimeDelta: a change of the run, or the whole run when it is a new one.
Apply(log, d) == IF d.fresh THEN <<d.id>> ELSE Append(log, d.id)

\* One of the places that change the projection does not count it.
Change_ForgetsSeq(fresh) ==
  /\ made < MaxChanges
  /\ LET d == [type |-> "delta", epoch |-> proj.epoch, seq |-> proj.seq, id |-> made + 1,
               fresh |-> fresh] IN
     /\ proj.epoch # 0
     /\ Record([proj EXCEPT !.log = Apply(@, d), !.live = TRUE])
     /\ unpublished' = unpublished \cup {d}
  /\ made' = made + 1
  /\ UNCHANGED epochs

\* Every change of what frames carry takes the next place in its epoch, and leaves a
\* delta to publish.
Change(fresh) ==
  /\ made < MaxChanges
  /\ epochs' = IF proj.epoch = 0 THEN epochs + 1 ELSE epochs
  /\ LET d == [type |-> "delta", epoch |-> IF proj.epoch = 0 THEN epochs' ELSE proj.epoch,
               seq |-> proj.seq + 1, id |-> made + 1, fresh |-> fresh] IN
     /\ Record([epoch |-> d.epoch, seq |-> d.seq, log |-> Apply(proj.log, d), live |-> TRUE])
     /\ unpublished' = unpublished \cup {d}
  /\ made' = made + 1

\* The owner's events, the commands of others and a reader that finds its lease expired
\* change a run that is active ...
UpdateRun ==
  /\ proj.live /\ row = "active"
  /\ Change(FALSE)
  /\ row' \in {"active", "ended"}
  /\ UNCHANGED <<stream, active, asked, refused, client, errors>>

\* ... and the next run of the session replaces it.
StartRun ==
  /\ row # "active"
  /\ Change(TRUE)
  /\ row' = "active"
  /\ UNCHANGED <<stream, active, asked, refused, client, errors>>

\* The live backend is replaced, or forgets the session.
LoseProjection ==
  /\ proj.epoch # 0 /\ epochs < MaxEpochs
  /\ proj' = NoProj
  /\ UNCHANGED <<row, epochs, made, unpublished, hist, stream, active, asked, refused, client,
                 errors>>

\* The sweep of a replaced backend writes to the ledger only.
MarkLost ==
  /\ row = "active" /\ ~proj.live
  /\ row' = "lost"
  /\ UNCHANGED <<proj, epochs, made, unpublished, hist, stream, active, asked, refused, client,
                 errors>>

\* A new epoch has the name of the last one.
Loaded_ReusesEpoch == IF proj.epoch = 0 THEN [proj EXCEPT !.epoch = epochs] ELSE proj

\* liveSnapshot: a reader that finds no projection opens a new epoch ...
Loaded == IF proj.epoch = 0 THEN [proj EXCEPT !.epoch = epochs + 1] ELSE proj
Load   == /\ Record(Loaded)
          /\ epochs' = IF Loaded.epoch > epochs THEN Loaded.epoch ELSE epochs
          /\ UNCHANGED <<row, made, unpublished>>

\* ... and hydrateSnapshotFromLedger shows the row of a run it does not have.
SnapshotFrame(p) ==
  [type |-> "snapshot", epoch |-> p.epoch, seq |-> p.seq, log |-> p.log,
   run |-> IF p.live THEN "live" ELSE row]
-----------------------------------------------------------------------------
(* Publishing                                                              *)

\* enqueueRuntimeEvent: a full buffer loses its oldest event and the new one, which
\* a marker replaces.
Enqueue(buf, e) ==
  IF Len(buf) < BufferSize THEN Append(buf, e) ELSE Append(Tail(buf), Marker)

Listening(f) == stream[f].at # "free" /\ stream[f].live

\* Subscribers get the delta, except those whose connection to the backend breaks.
PublishTo(d, cut) ==
  /\ d \in unpublished
  /\ unpublished' = unpublished \ {d}
  /\ stream' = [f \in Forwarders |->
                 IF ~Listening(f) THEN stream[f]
                 ELSE [stream[f] EXCEPT !.buf = Enqueue(@, IF f \in cut THEN Marker ELSE d)]]
  /\ UNCHANGED <<proj, row, epochs, made, hist, active, asked, refused, client>>

Publish(d) == PublishTo(d, {}) /\ UNCHANGED errors

ReceiveInterrupted(d) ==
  /\ \E f \in Forwarders : Listening(f) /\ PublishTo(d, {f})
  /\ Fails

PublishFails(d) ==
  /\ d \in unpublished
  /\ Fails
  /\ unpublished' = unpublished \ {d}
  /\ UNCHANGED <<proj, row, epochs, made, hist, stream, active, asked, refused, client>>
-----------------------------------------------------------------------------
(* The forwarder                                                           *)

\* The forwarder sends the frame and, with it, takes its place in the stream.
Send(f, rest, frame) ==
  stream' = [stream EXCEPT ![f].buf = rest, ![f].out = Append(@, frame),
                           ![f].last = Cursor(frame)]

\* terminalDrop: the last frame of a subscription that ends itself.
EndStream(f) ==
  stream' = [stream EXCEPT ![f].live = FALSE, ![f].buf = <<>>, ![f].out = Append(@, Dropped)]

\* reconcile: a snapshot at another place than the last frame is sent; one that lies
\* behind what was seen ends the subscription.
Reconcile(f, rest) ==
  LET last == stream[f].last IN
  /\ Load
  /\ IF Loaded.epoch = last.epoch /\ Loaded.seq < last.seq
     THEN EndStream(f)
     ELSE IF Cursor(Loaded) = last
     THEN stream' = [stream EXCEPT ![f].buf = rest]
     ELSE Send(f, rest, SnapshotFrame(Loaded))

CanSend(f) == stream[f].at \in {"ready", "on"} /\ stream[f].live /\ Len(stream[f].out) < OutSize

\* A delta that comes next is passed on, one that was seen is dropped; a marker, a gap
\* and another epoch are answered with a snapshot.
TakeEvent(f) ==
  /\ CanSend(f) /\ stream[f].buf # <<>>
  /\ LET e == Head(stream[f].buf)
         rest == Tail(stream[f].buf)
         last == stream[f].last IN
     \/ /\ e = Marker \/ (e # Marker /\ e.epoch # last.epoch)
        /\ Reconcile(f, rest)
     \/ /\ e # Marker /\ e.epoch = last.epoch /\ e.seq <= last.seq
        /\ stream' = [stream EXCEPT ![f].buf = rest] /\ UNCHANGED source
     \/ /\ e # Marker /\ e.epoch = last.epoch /\ e.seq = last.seq + 1
        /\ Send(f, rest, e) /\ UNCHANGED source
     \/ /\ e # Marker /\ e.epoch = last.epoch /\ e.seq > last.seq + 1
        /\ Reconcile(f, rest)
  /\ UNCHANGED <<active, asked, refused, client, errors>>

\* Only what an event announces is read again.
Tick_OnEvents(f) ==
  /\ CanSend(f) /\ stream[f].buf # <<>>
  /\ Reconcile(f, stream[f].buf)
  /\ UNCHANGED <<active, asked, refused, client, errors>>

\* The periodic reconciliation.
Tick(f) ==
  /\ CanSend(f)
  /\ Reconcile(f, stream[f].buf)
  /\ UNCHANGED <<active, asked, refused, client, errors>>

\* The projection cannot be read, or the backend closes the subscription.
StreamBreaks(f) ==
  /\ CanSend(f)
  /\ Fails
  /\ EndStream(f)
  /\ UNCHANGED <<source, active, asked, refused, client>>
-----------------------------------------------------------------------------
(* The connection's subscriptions                                          *)

\* subscribe joins the backend's channel ...
Join(f) ==
  /\ asked /\ \A g \in Forwarders : stream[g].at \in {"free", "on"}
  /\ stream[f].at = "free"
  /\ asked' = FALSE
  /\ stream' = [stream EXCEPT ![f] = [NoStream EXCEPT !.at = "joined", !.live = TRUE]]
  /\ UNCHANGED <<source, active, refused, client, errors>>

\* ... reads the baseline, which is the first frame ...
ReadBaseline(f) ==
  /\ stream[f].at = "joined"
  /\ Load
  /\ stream' = [stream EXCEPT ![f].at = "ready", ![f].last = Cursor(Loaded),
                              ![f].out = <<SnapshotFrame(Loaded)>>]
  /\ UNCHANGED <<active, asked, refused, client, errors>>

\* ... and replaces its predecessor, whose frames are written before its own.
Activate(f) ==
  /\ stream[f].at = "ready"
  /\ active' = f
  /\ stream' = [g \in Forwarders |->
                 IF g = f THEN [stream[f] EXCEPT !.at = "on", !.out =
                                  IF active = NoForwarder THEN @ ELSE stream[active].out \o @]
                 ELSE NoStream]
  /\ UNCHANGED <<source, asked, refused, client, errors>>

\* A subscribe that fails is answered with an error and replaces nothing.
SubscribeFails(f) ==
  /\ stream[f].at = "joined"
  /\ Fails
  /\ stream' = [stream EXCEPT ![f] = NoStream]
  /\ refused' = TRUE
  /\ UNCHANGED <<source, active, asked, client>>

\* The connection takes its subscriptions with it.
Disconnect ==
  /\ connected
  /\ Fails
  /\ connected' = FALSE /\ asked' = FALSE
  /\ stream' = [f \in Forwarders |-> NoStream] /\ active' = NoForwarder
  /\ UNCHANGED <<source, refused, awaiting, view>>
-----------------------------------------------------------------------------
(* The client                                                              *)

\* onConnected subscribes again.
Connect ==
  /\ ~connected
  /\ connected' = TRUE /\ awaiting' = TRUE /\ asked' = TRUE /\ refused' = FALSE
  /\ UNCHANGED <<source, stream, active, view, errors>>

\* recoverFromSnapshot asks once.
Recover ==
  /\ awaiting' = TRUE
  /\ asked' = (asked \/ ~awaiting)
  /\ UNCHANGED view

\* A snapshot the client was not waiting for must be newer than its view.
HandleSnapshot(s) ==
  /\ awaiting' = FALSE
  /\ view' = IF ~awaiting /\ view.epoch = s.epoch /\ s.seq <= view.seq THEN view
             ELSE [epoch |-> s.epoch, seq |-> s.seq, log |-> s.log, run |-> s.run]
  /\ UNCHANGED asked

\* A delta that is not the next one of the view makes the client ask for a snapshot.
HandleDelta(d) ==
  IF awaiting \/ (d.epoch = view.epoch /\ d.seq <= view.seq)
  THEN UNCHANGED <<awaiting, view, asked>>
  ELSE IF d.epoch # view.epoch \/ d.seq # view.seq + 1
  THEN Recover
  ELSE /\ view' = [epoch |-> d.epoch, seq |-> d.seq, log |-> Apply(view.log, d), run |-> "live"]
       /\ UNCHANGED <<awaiting, asked>>

HandleFrame ==
  /\ connected /\ active # NoForwarder /\ stream[active].out # <<>>
  /\ stream' = [stream EXCEPT ![active].out = Tail(@)]
  /\ LET frame == Head(stream[active].out) IN
     \/ frame.type = "dropped" /\ Recover
     \/ frame.type = "snapshot" /\ HandleSnapshot(frame)
     \/ frame.type = "delta" /\ HandleDelta(frame)
  /\ UNCHANGED <<source, active, refused, connected, errors>>
-----------------------------------------------------------------------------
ServerStep == \E f \in Forwarders : Join(f) \/ ReadBaseline(f) \/ Activate(f)

StreamNext ==
  \/ UpdateRun \/ StartRun \/ LoseProjection \/ MarkLost
  \/ \E d \in unpublished : Publish(d) \/ ReceiveInterrupted(d) \/ PublishFails(d)
  \/ \E f \in Forwarders : TakeEvent(f) \/ Tick(f) \/ StreamBreaks(f) \/ SubscribeFails(f)
  \/ ServerStep \/ Disconnect \/ Connect \/ HandleFrame

\* Servers and clients handle what they get, the ticker ticks, a client reconnects;
\* nothing is ever published for certain.
StreamSpec ==
  /\ StreamInit /\ [][StreamNext]_streamVars
  /\ WF_streamVars(ServerStep) /\ WF_streamVars(Connect) /\ WF_streamVars(HandleFrame)
  /\ \A f \in Forwarders : WF_streamVars(TakeEvent(f)) /\ WF_streamVars(Tick(f))
-----------------------------------------------------------------------------
(* Properties                                                              *)

\* Cursor: "the position subscribers dedupe and recover on".  What a client has put
\* together from snapshots and deltas is what the projection held at that position:
\* nothing is missing and nothing is there twice.
ViewIsAuthentic == view.epoch # 0 => Entry(view) \in hist

\* A view moves forward in its epoch, and never back to an epoch it has left.
ViewMovesForward ==
  [][\/ view'.epoch > view.epoch
     \/ view'.epoch = view.epoch /\ view'.seq >= view.seq]_streamVars

\* Whatever is lost on the way, the client is up to date again and again; so it is in
\* the end, when nothing changes any more.  A subscription that was refused is not
\* asked for again before the connection breaks.
UpToDate == connected /\ Cursor(view) = Cursor(proj)
ViewCatchesUpUnlessRefused == []<>(UpToDate \/ refused)

\* runtime-client.ts: "recoverFromSnapshot" gets the client its snapshot.
ViewCatchesUp == []<>UpToDate

\* "A run whose owner is gone must report lost, not appear never to have existed": a
\* subscriber is shown it, as the one that subscribes next.
LossIsShown == row = "lost" ~> (row # "lost" \/ view.run = "lost" \/ refused)
=============================================================================
