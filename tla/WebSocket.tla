----------------------------- MODULE WebSocket ------------------------------
(***************************************************************************)
(* The WebSocket client of network/src/websocket: clones of one client     *)
(* share a state lock, a lock on the sending half, which is held until a   *)
(* frame is written, and a lock on the receiving half, which a receiver    *)
(* holds while it waits for a message.                                     *)
(*                                                                         *)
(* Users call connect, close, reconnect and send; a listener receives in a *)
(* loop, answers pings and reconnects by itself when told to.  Connections *)
(* are numbered; a connection's cancellation token carries its number.  A  *)
(* peer need not read: a frame for it may wait to be written for ever.     *)
(***************************************************************************)
EXTENDS Naturals, FiniteSets

CONSTANTS Users, Listeners, MaxConns, MaxMessages, None

VARIABLES
  proc,      \* per process: where it is, and what it carries
  shared,    \* the State: current token, connected, auto_reconnect
  cancelled, \* tokens that were cancelled
  sink, stream, \* the connection whose half is stored, 0 if none
  holder,    \* the process that holds the stream lock
  sending,   \* who holds the sink lock over a frame, and the connection it is for
  dialled,   \* connections made so far
  inbox,     \* messages waiting on each connection
  hungup,    \* connections the peer closed
  pings,     \* connections whose ping task lives
  raced      \* history: one operation wrote the state during another

wsVars == <<proc, shared, cancelled, sink, stream, holder, sending, dialled, inbox, hungup,
            pings, raced>>
netVars == <<inbox, hungup>>

Procs == Users \union Listeners
Conns == 1..MaxConns
\* A process and the ping task of a connection, named by its number, are told apart.
WebSocketAssumption == MaxConns \in Nat /\ Conns \cap (Procs \cup {None}) = {}

Idle == [pc |-> "idle", then |-> "return", conn |-> 0]
Free == [by |-> None, on |-> 0]

Init ==
  /\ proc = [p \in Procs |-> Idle]
  /\ shared = [token |-> 0, connected |-> FALSE, auto |-> FALSE]
  /\ cancelled = {} /\ sink = 0 /\ stream = 0 /\ holder = None
  /\ sending = Free /\ dialled = 0 /\ inbox = [c \in Conns |-> 0] /\ hungup = {}
  /\ pings = {} /\ raced = FALSE

\* An operation of p that changes the connection is in progress; or one that sends.
Busy(p) == proc[p].pc \in {"dial", "install", "setSink", "setStream",
                           "close", "takeSink", "closing", "clearStream", "reconnect"}
Sending(p) == proc[p].pc \in {"send", "sending"}

Goto(p, pc) == proc' = [proc EXCEPT ![p].pc = pc]
\* An operation ends: a listener goes on receiving, or gives up on an error.
Return(p, ok) ==
  proc' = [proc EXCEPT ![p] = IF p \in Users THEN Idle
                              ELSE [Idle EXCEPT !.pc = IF ok THEN "token" ELSE "ended"]]

-----------------------------------------------------------------------------
(* connect *)

Dial(p) ==
  /\ proc[p].pc = "dial"
  /\ \/ /\ dialled < MaxConns /\ dialled' = dialled + 1
        /\ proc' = [proc EXCEPT ![p].pc = "install", ![p].conn = dialled + 1]
     \/ Return(p, FALSE) /\ dialled' = dialled
  /\ UNCHANGED <<shared, cancelled, sink, stream, holder, sending, netVars, pings, raced>>

\* The state is written first, each half under its own lock afterwards.
Install(p) ==
  /\ proc[p].pc = "install"
  /\ shared' = [shared EXCEPT !.token = proc[p].conn, !.connected = TRUE]
  /\ raced' = (raced \/ \E q \in Procs \ {p} : Busy(q))
  /\ Goto(p, "setSink")
  /\ UNCHANGED <<cancelled, sink, stream, holder, sending, dialled, netVars, pings>>

\* The lock is free only while nobody's frame waits to be written.
SetSink(p) ==
  /\ proc[p].pc = "setSink" /\ sending = Free
  /\ sink' = proc[p].conn /\ Goto(p, "setStream")
  /\ UNCHANGED <<shared, cancelled, stream, holder, sending, dialled, netVars, pings, raced>>

\* The lock is free only while no receiver waits for a message.
SetStream(p) ==
  /\ proc[p].pc = "setStream" /\ holder = None
  /\ stream' = proc[p].conn /\ pings' = pings \union {proc[p].conn}
  /\ Return(p, TRUE)
  /\ UNCHANGED <<shared, cancelled, sink, holder, sending, dialled, netVars, raced>>

-----------------------------------------------------------------------------
(* close, reconnect *)

\* Mutant: the token of the connection is not cancelled.
CloseQuietly(p) ==
  /\ proc[p].pc = "close"
  /\ shared' = [shared EXCEPT !.connected = FALSE]
  /\ raced' = (raced \/ \E q \in Procs \ {p} : Busy(q))
  /\ Goto(p, "takeSink")
  /\ UNCHANGED <<cancelled, sink, stream, holder, sending, dialled, netVars, pings>>
CloseState(p) ==
  /\ proc[p].pc = "close"
  /\ shared' = [shared EXCEPT !.connected = FALSE]
  /\ cancelled' = cancelled \union {shared.token}
  /\ raced' = (raced \/ \E q \in Procs \ {p} : Busy(q))
  /\ Goto(p, "takeSink")
  /\ UNCHANGED <<sink, stream, holder, sending, dialled, netVars, pings>>

\* Mutant: the sending half stays where it is.
KeepSink(p) ==
  /\ proc[p].pc = "takeSink" /\ sending = Free
  /\ Goto(p, "clearStream")
  /\ UNCHANGED <<shared, cancelled, sink, stream, holder, sending, dialled, netVars, pings, raced>>
\* The lock is kept while the close frame goes out: it guards the taken half.
TakeSink(p) ==
  /\ proc[p].pc = "takeSink" /\ sending = Free
  /\ sink' = 0
  /\ IF sink = 0 THEN Goto(p, "clearStream") /\ UNCHANGED sending
                 ELSE Goto(p, "closing") /\ sending' = [by |-> p, on |-> sink]
  /\ UNCHANGED <<shared, cancelled, stream, holder, dialled, netVars, pings, raced>>

ClearStream(p) ==
  /\ proc[p].pc = "clearStream" /\ holder = None
  /\ stream' = 0
  /\ IF proc[p].then = "dial" THEN proc' = [proc EXCEPT ![p] = [Idle EXCEPT !.pc = "dial"]]
                              ELSE Return(p, TRUE)
  /\ UNCHANGED <<shared, cancelled, sink, holder, sending, dialled, netVars, pings, raced>>

\* reconnect closes first only if the client believes it is connected.
Reconnect(p) ==
  /\ proc[p].pc = "reconnect"
  /\ proc' = [proc EXCEPT ![p] = IF shared.connected THEN [pc |-> "close", then |-> "dial", conn |-> 0]
                                                     ELSE [Idle EXCEPT !.pc = "dial"]]
  /\ UNCHANGED <<shared, cancelled, sink, stream, holder, sending, dialled, netVars, pings, raced>>

Call(u) ==
  /\ proc[u].pc = "idle"
  /\ \E op \in {"dial", "close", "reconnect", "send"} :
       (op \in {"dial", "reconnect"} => dialled < MaxConns) /\ Goto(u, op)
  /\ UNCHANGED <<shared, cancelled, sink, stream, holder, sending, dialled, netVars, pings, raced>>

set_auto_reconnect(on) ==
  /\ shared.auto # on /\ shared' = [shared EXCEPT !.auto = on]
  /\ UNCHANGED <<proc, cancelled, sink, stream, holder, sending, dialled, netVars, pings, raced>>

-----------------------------------------------------------------------------
(* send, and the end of every frame *)

LockSink(p) ==
  /\ proc[p].pc = "send" /\ sending = Free
  /\ IF sink = 0 THEN Return(p, TRUE) /\ UNCHANGED sending
                 ELSE Goto(p, "sending") /\ sending' = [by |-> p, on |-> sink]
  /\ UNCHANGED <<shared, cancelled, sink, stream, holder, dialled, netVars, pings, raced>>

\* The peer reads, or has hung up: the frame is written, or fails.
Written(p) ==
  /\ proc[p].pc \in {"sending", "closing"} /\ sending' = Free
  /\ IF proc[p].pc = "closing" THEN Goto(p, "clearStream") ELSE Return(p, TRUE)
  /\ UNCHANGED <<shared, cancelled, sink, stream, holder, dialled, netVars, pings, raced>>

-----------------------------------------------------------------------------
(* receive and listen *)

Listen(l) ==
  /\ proc[l].pc = "idle" /\ Goto(l, "token")
  /\ UNCHANGED <<shared, cancelled, sink, stream, holder, sending, dialled, netVars, pings, raced>>

\* receive reads the token before it asks for the lock: by the time it has the
\* lock, the token may be an earlier connection's.
ReadToken(l) ==
  /\ proc[l].pc = "token"
  /\ proc' = [proc EXCEPT ![l].pc = "lock", ![l].conn = shared.token]
  /\ UNCHANGED <<shared, cancelled, sink, stream, holder, sending, dialled, netVars, pings, raced>>

\* What the loop of listen does with an error: reconnect, or report it and end.
Failed == IF shared.auto THEN "reconnect" ELSE "ended"

LockStream(l) ==
  /\ proc[l].pc = "lock" /\ holder = None
  /\ IF stream = 0 THEN Goto(l, Failed) /\ holder' = None
                   ELSE Goto(l, "wait") /\ holder' = l
  /\ UNCHANGED <<shared, cancelled, sink, stream, sending, dialled, netVars, pings, raced>>

\* select!: the next message, which may be a ping to answer, the end of the stream,
\* or the token read before.
Received(l) ==
  /\ proc[l].pc = "wait" /\ holder = l /\ holder' = None
  /\ \/ inbox[stream] > 0 /\ (\E to \in {"token", "send"} : Goto(l, to)) /\ inbox' = [inbox EXCEPT ![stream] = @ - 1]
     \/ inbox[stream] = 0 /\ stream \in hungup /\ Goto(l, Failed) /\ inbox' = inbox
     \/ proc[l].conn \in cancelled /\ Goto(l, Failed) /\ inbox' = inbox
  /\ UNCHANGED <<shared, cancelled, sink, stream, sending, dialled, hungup, pings, raced>>

\* The token given to listen is honoured while it receives.
StopListening(l) ==
  /\ proc[l].pc \in {"token", "lock", "wait", "send", "sending"} /\ Goto(l, "ended")
  /\ holder' = IF holder = l THEN None ELSE holder
  /\ sending' = IF proc[l].pc = "sending" THEN Free ELSE sending
  /\ UNCHANGED <<shared, cancelled, sink, stream, dialled, netVars, pings, raced>>

-----------------------------------------------------------------------------
(* start_ping_pong, and the peers *)

\* A ping goes to whatever sink is stored, an earlier task's too.  The task does not
\* look at its token while it waits for the lock or for the frame to be written.
Ping(c) ==
  /\ c \in pings /\ sending = Free /\ sink # 0
  /\ sending' = [by |-> c, on |-> sink]
  /\ UNCHANGED <<proc, shared, cancelled, sink, stream, holder, dialled, netVars, pings, raced>>
PingEnds(c) ==
  /\ sending.by = c /\ sending' = Free
  /\ pings' = pings \/ (sending.on \in hungup /\ pings' = pings \ {c})
  /\ UNCHANGED <<proc, shared, cancelled, sink, stream, holder, dialled, netVars, raced>>
PingStops(c) ==
  /\ c \in pings /\ sending.by # c
  /\ c \in cancelled \/ (sending = Free /\ sink = 0)
  /\ pings' = pings \ {c}
  /\ UNCHANGED <<proc, shared, cancelled, sink, stream, holder, sending, dialled, netVars, raced>>

PeerSends(c) ==
  /\ c <= dialled /\ c \notin hungup /\ inbox[c] < MaxMessages
  /\ inbox' = [inbox EXCEPT ![c] = @ + 1]
  /\ UNCHANGED <<proc, shared, cancelled, sink, stream, holder, sending, dialled, hungup, pings, raced>>

PeerHangsUp(c) ==
  /\ c <= dialled /\ c \notin hungup /\ hungup' = hungup \union {c}
  /\ UNCHANGED <<proc, shared, cancelled, sink, stream, holder, sending, dialled, inbox, pings, raced>>

\* What waits for a peer to read, and what does not: a frame for a peer that hung up fails.
Blocked == sending # Free /\ sending.on \notin hungup
Operate(p) == Dial(p) \/ Install(p) \/ SetSink(p) \/ SetStream(p) \/ CloseState(p)
              \/ TakeSink(p) \/ ClearStream(p) \/ Reconnect(p) \/ LockSink(p)
              \/ (~Blocked /\ Written(p))
Receive(l) == ReadToken(l) \/ LockStream(l) \/ Received(l)

Next ==
  \/ \E u \in Users : Call(u)
  \/ \E p \in Procs : Operate(p) \/ Written(p)
  \/ \E l \in Listeners : Listen(l) \/ Receive(l) \/ StopListening(l)
  \/ \E on \in BOOLEAN : set_auto_reconnect(on)
  \/ \E c \in Conns : Ping(c) \/ PingEnds(c) \/ PingStops(c) \/ PeerSends(c) \/ PeerHangsUp(c)

\* tokio's mutexes are fair queues: whoever waits for a lock gets it if it is
\* released again and again.  No peer is assumed to read or to send.
Spec == /\ Init /\ [][Next]_wsVars
        /\ \A p \in Procs : SF_wsVars(Operate(p))
        /\ \A l \in Listeners : WF_wsVars(Received(l))
        /\ \A c \in Conns : WF_wsVars(~Blocked /\ PingEnds(c))

-----------------------------------------------------------------------------
(* Properties *)

\* A receiver waits under a live token that is not the current one, or not that
\* of the stream it reads: it read the token before it had the lock, or a connect
\* replaces the connection under it.  Nothing but its peer wakes it.
Stale == \E l \in Listeners : /\ proc[l].pc = "wait" /\ proc[l].conn \notin cancelled
                              /\ proc[l].conn # shared.token \/ proc[l].conn # stream

\* close cancels the token "unblocking any in-flight receive/listen": unless a
\* receiver is stale or two operations raced, every operation comes to an end,
\* however long the peers send nothing; or a frame waits for ever for a peer that does
\* not read, with the lock that connect, close and send need.
OperationsEnd ==
  \/ <>[]Blocked
  \/ \A p \in Procs : (Busy(p) \/ Sending(p)) ~> (~(Busy(p) \/ Sending(p)) \/ Stale \/ raced)

\* Unless two operations raced, the client's parts agree whenever none is in
\* progress: a client that says it is not connected holds neither half, a
\* connected one holds both of one connection and keeps it alive with pings.
PartsAgree ==
  ~raced /\ (\A p \in Procs : ~Busy(p)) =>
    IF shared.connected
    THEN sink = shared.token /\ stream = shared.token /\ shared.token \in pings \union hungup
    ELSE sink = 0 /\ stream = 0
=============================================================================
