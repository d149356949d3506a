---------------------------- MODULE ExplorerFeed ----------------------------
(***************************************************************************)
(* The explorer server: RPC threads and the block thread put messages on   *)
(* explorer_queue; the writer thread takes them off and broadcasts them to *)
(* the websocket sessions of shared_state; every session writes what it is *)
(* sent through a queue of its own, and broadcasts what its client sends.  *)
(*                                                                         *)
(* A message is the number of its arrival on explorer_queue, or a larger   *)
(* number for a message of a client; 0 is what is read from freed memory.  *)
(* All handlers of the sessions run on the one thread that calls ioc.run() *)
(* (start_explorer_server's default), so each is one step, except that a   *)
(* broadcast takes the mutex once and then posts to one session at a time. *)
(***************************************************************************)
EXTENDS Naturals, Sequences, FiniteSets, SequencesExt

CONSTANTS
    Sessions,   \* the connections clients may open
    MaxMsgs,    \* bound: messages put on explorer_queue
    MaxChat     \* bound: messages the clients send

ASSUME FeedAssumption == MaxMsgs \in Nat /\ MaxChat \in Nat

Garbage == 0
Msg     == 0..(MaxMsgs + MaxChat)
Senders == {"writer", "io"}     \* the threads that call shared_state::send
NoRef   == [gen |-> 0, pos |-> 0]

VARIABLES
    \* explorer_queue, a unit::vector
    arrived, queue, cap, gen,
    \* the writer thread
    wpc,        \* its next step
    ref,        \* the reference back() returned
    \* the two callers of shared_state::send
    todo,       \* the weak pointers still to be tried
    text,       \* the message being broadcast
    iopc,       \* the io thread: "idle", or inside on_read's broadcast
    chat,       \* messages clients have sent
    \* the listener, shared_state and the sessions
    accepting,  \* an async_accept is outstanding
    sessions,   \* sessions_
    phase,      \* each connection's stage of life
    reading,    \* a read handler holds the session
    posts,      \* the on_send handlers posted to the session's strand
    out,        \* queue_
    writing,    \* outstanding async_writes
    alive,      \* FALSE once undefined behaviour has ended the process
    \* history, read by properties only (failed also by the fairness)
    broadcast,  \* the messages the writer took, in order
    torn,       \* the reference was read after a reallocation
    sent,       \* every message posted to a session
    delivered,  \* every message a session has written
    failed      \* sessions that had a write fail

queueVars   == <<arrived, queue, cap, gen>>
sendVars    == <<todo, text, iopc, chat>>
sessionVars == <<accepting, sessions, phase, reading, posts, out, writing>>
history     == <<broadcast, torn, sent, delivered, failed>>
vars == <<queueVars, wpc, ref, sendVars, sessionVars, alive, history>>

TypeOK ==
    /\ arrived \in 0..MaxMsgs
    /\ queue \in Seq(1..MaxMsgs)
    /\ cap \in Nat
    /\ gen \in Nat
    /\ wpc \in {"poll", "copy", "snapshot", "send", "pop"}
    /\ ref \in [gen : Nat \ {0}, pos : 1..MaxMsgs] \cup {NoRef}
    /\ todo \in [Senders -> SUBSET Sessions]
    /\ text \in [Senders -> Msg]
    /\ iopc \in {"idle", "snapshot", "send"}
    /\ chat \in 0..MaxChat
    /\ accepting \in BOOLEAN
    /\ sessions \in SUBSET Sessions
    /\ phase \in [Sessions -> {"absent", "http", "answer", "closed",
                            "handshake", "live", "freed"}]
    /\ reading \in [Sessions -> BOOLEAN]
    /\ posts \in [Sessions -> Seq(Msg)]
    /\ out \in [Sessions -> Seq(Msg)]
    /\ writing \in [Sessions -> Nat]
    /\ alive \in BOOLEAN
    /\ broadcast \in Seq(Msg)
    /\ torn \in BOOLEAN
    /\ sent \in [Sessions -> Seq(Msg)]
    /\ delivered \in [Sessions -> Seq(Msg)]
    /\ failed \in SUBSET Sessions

Init ==
    /\ arrived = 0 /\ queue = << >> /\ cap = 0 /\ gen = 1
    /\ wpc = "poll" /\ ref = NoRef
    /\ todo = [x \in Senders |-> {}]
    /\ text = [x \in Senders |-> Garbage]
    /\ iopc = "idle" /\ chat = 0
    /\ accepting = TRUE
    /\ sessions = {}
    /\ phase = [s \in Sessions |-> "absent"]
    /\ reading = [s \in Sessions |-> FALSE]
    /\ posts = [s \in Sessions |-> << >>]
    /\ out = [s \in Sessions |-> << >>]
    /\ writing = [s \in Sessions |-> 0]
    /\ alive = TRUE
    /\ broadcast = << >> /\ torn = FALSE
    /\ sent = [s \in Sessions |-> << >>]
    /\ delivered = [s \in Sessions |-> << >>]
    /\ failed = {}

-----------------------------------------------------------------------------
(* explorer_queue and the writer thread *)

\* explorer_queue->emplace_back, by the RPC filter or by the block thread.
Emplace ==
    /\ alive
    /\ arrived < MaxMsgs
    /\ arrived' = arrived + 1
    /\ queue' = Append(queue, arrived + 1)
    /\ IF Len(queue) < cap
       THEN UNCHANGED <<cap, gen>>
       ELSE cap' = (IF cap = 0 THEN 1 ELSE 2 * cap) /\ gen' = gen + 1
    /\ UNCHANGED <<wpc, ref, sendVars, sessionVars, alive, broadcast, torn,
                   sent, delivered, failed>>

\* if (queue->empty()) continue; then queue->back(), which returns a reference.
\* Only this thread removes messages, so the two calls are one step.
WriterBack ==
    /\ alive
    /\ wpc = "poll"
    /\ queue # << >>
    /\ ref' = [gen |-> gen, pos |-> Len(queue)]
    /\ wpc' = "copy"
    /\ UNCHANGED <<queueVars, sendVars, sessionVars, alive, history>>

Copy(m) ==
    /\ text' = [text EXCEPT !["writer"] = m]
    /\ broadcast' = Append(broadcast, m)
    /\ wpc' = "snapshot"

\* shared_state::send takes its parameter by value: the string is copied here.
WriterCopy ==
    /\ alive
    /\ wpc = "copy"
    /\ ref.gen = gen
    /\ Copy(queue[ref.pos])
    /\ UNCHANGED <<queueVars, ref, todo, iopc, chat, sessionVars, alive,
                   torn, sent, delivered, failed>>

\* The vector was reallocated under the reference: undefined.  The string is
\* still there, or something else is, or the process dies.
WriterCopyStale ==
    /\ alive
    /\ wpc = "copy"
    /\ ref.gen # gen
    /\ torn' = TRUE
    /\ \/ \E m \in {Garbage, queue[ref.pos]} : Copy(m) /\ alive' = alive
       \/ alive' = FALSE /\ UNCHANGED <<text, broadcast, wpc>>
    /\ UNCHANGED <<queueVars, ref, todo, iopc, chat, sessionVars, sent,
                   delivered, failed>>

\* Mutant: does not pop.
WriterPopNothing ==
    /\ alive
    /\ wpc = "pop"
    /\ wpc' = "poll"
    /\ ref' = NoRef
    /\ UNCHANGED <<queueVars, sendVars, sessionVars, alive, history>>

\* queue->pop_back(): whatever is the last message now.
WriterPop ==
    /\ alive
    /\ wpc = "pop"
    /\ queue' = SubSeq(queue, 1, Len(queue) - 1)
    /\ wpc' = "poll"
    /\ ref' = NoRef
    /\ UNCHANGED <<arrived, cap, gen, sendVars, sessionVars, alive, history>>

-----------------------------------------------------------------------------
(* shared_state::send, called by the writer and by on_read on the io thread *)

At(x, step) == IF x = "writer" THEN wpc = step ELSE iopc = step

Goto(x, step) ==
    IF x = "writer"
    THEN wpc' = step /\ iopc' = iopc
    ELSE iopc' = step /\ wpc' = wpc

\* Under the mutex: a weak pointer to every session of the set.
Snapshot(x) ==
    /\ alive
    /\ At(x, "snapshot")
    /\ todo' = [todo EXCEPT ![x] = sessions]
    /\ Goto(x, "send")
    /\ UNCHANGED <<queueVars, ref, text, chat, sessionVars, alive, history>>

\* No handler holds the session any more: a weak pointer to it does not lock.
Expired(s) ==
    /\ phase[s] = "live"
    /\ ~reading[s]
    /\ posts[s] = << >>
    /\ writing[s] = 0

Lockable(s) == phase[s] = "live" /\ ~Expired(s)

\* websocket_session::send: on_send is posted to the session's strand, with a
\* reference to the session.
Post(s, m) ==
    /\ posts' = [posts EXCEPT ![s] = Append(@, m)]
    /\ sent' = [sent EXCEPT ![s] = Append(@, m)]

\* if (auto sp = wp.lock()) sp->send(ss).
SendTo(x, s) ==
    /\ alive
    /\ At(x, "send")
    /\ s \in todo[x]
    /\ todo' = [todo EXCEPT ![x] = @ \ {s}]
    /\ IF Lockable(s)
       THEN Post(s, text[x])
       ELSE UNCHANGED <<posts, sent>>
    /\ UNCHANGED <<queueVars, accepting, wpc, ref, text, iopc, chat, sessions,
                   phase, reading, out, writing, alive, broadcast, torn,
                   delivered, failed>>

\* The broadcast is over: the writer goes on to pop_back, on_read re-arms the
\* read it still holds the session for.
SendDone(x) ==
    /\ alive
    /\ At(x, "send")
    /\ todo[x] = {}
    /\ Goto(x, IF x = "writer" THEN "pop" ELSE "idle")
    /\ UNCHANGED <<queueVars, ref, todo, text, chat, sessionVars, alive,
                   history>>

-----------------------------------------------------------------------------
(* A connection before it is a websocket *)

IoIdle == alive /\ iopc = "idle"

\* listener::on_accept: an http_session that reads is started and the next
\* connection is waited for.
Accept(s) ==
    /\ IoIdle
    /\ accepting
    /\ phase[s] = "absent"
    /\ phase' = [phase EXCEPT ![s] = "http"]
    /\ UNCHANGED <<queueVars, accepting, wpc, ref, sendVars, sessions,
                   reading, posts, out, writing, alive, history>>

\* listener::on_accept with an error returns before the next async_accept.
AcceptFails ==
    /\ IoIdle
    /\ accepting
    /\ accepting' = FALSE
    /\ UNCHANGED <<queueVars, wpc, ref, sendVars, sessions, phase, reading,
                   posts, out, writing, alive, history>>

\* http_session::on_read: the client or an error ends the connection, an
\* upgrade hands the socket over to a websocket_session, and any other request
\* gets an answer of handle_request.
HttpRead(s) ==
    /\ IoIdle
    /\ phase[s] = "http"
    /\ \E next \in {"closed", "handshake", "answer"} :
          phase' = [phase EXCEPT ![s] = next]
    /\ UNCHANGED <<queueVars, accepting, wpc, ref, sendVars, sessions,
                   reading, posts, out, writing, alive, history>>

\* handle_request: a file, or one of the error pages; what the session needs of
\* it is keep_alive, which each of them takes over from the request.
HandleRequest == BOOLEAN

\* http_session::on_write: read the next request, unless the write failed or
\* the answer says to close.
HttpWrite(s) ==
    /\ IoIdle
    /\ phase[s] = "answer"
    /\ \E ok \in BOOLEAN, keepAlive \in HandleRequest :
          phase' = [phase EXCEPT ![s] =
                        IF ok /\ keepAlive THEN "http" ELSE "closed"]
    /\ UNCHANGED <<queueVars, accepting, wpc, ref, sendVars, sessions,
                   reading, posts, out, writing, alive, history>>

-----------------------------------------------------------------------------
(* websocket_session *)

\* on_accept: the session joins and reads; after an error it is given up.
OnAccept(s) ==
    /\ IoIdle
    /\ phase[s] = "handshake"
    /\ phase' = [phase EXCEPT ![s] = "live"]
    /\ \E ok \in BOOLEAN :
          /\ sessions' = IF ok THEN sessions \cup {s} ELSE sessions
          /\ reading' = [reading EXCEPT ![s] = ok]
    /\ UNCHANGED <<queueVars, accepting, wpc, ref, sendVars, posts, out,
                   writing, alive, history>>

\* on_read: what the client sends is broadcast.
OnRead(s) ==
    /\ IoIdle
    /\ reading[s]
    /\ chat < MaxChat
    /\ chat' = chat + 1
    /\ text' = [text EXCEPT !["io"] = MaxMsgs + chat + 1]
    /\ iopc' = "snapshot"
    /\ UNCHANGED <<queueVars, wpc, ref, todo, sessionVars, alive, history>>

\* Mutant: an error reads again.
OnReadRetries(s) == IoIdle /\ reading[s] /\ UNCHANGED vars

\* on_read with an error: no further read, and the session loses its reader.
OnReadFails(s) ==
    /\ IoIdle
    /\ reading[s]
    /\ reading' = [reading EXCEPT ![s] = FALSE]
    /\ UNCHANGED <<queueVars, accepting, wpc, ref, sendVars, sessions, phase,
                   posts, out, writing, alive, history>>

OnSendWhen(s, start) ==
    /\ IoIdle
    /\ posts[s] # << >>
    /\ posts' = [posts EXCEPT ![s] = Tail(@)]
    /\ out' = [out EXCEPT ![s] = Append(@, Head(posts[s]))]
    /\ writing' = [writing EXCEPT ![s] = @ + (IF start THEN 1 ELSE 0)]
    /\ UNCHANGED <<queueVars, accepting, wpc, ref, sendVars, sessions, phase,
                   reading, alive, history>>

\* Mutant: every message starts a write.
OnSendAlways(s) == OnSendWhen(s, TRUE)

\* on_send: queue the message; if it is the only one, write it.
OnSend(s) == OnSendWhen(s, out[s] = << >>)

OnWriteWith(s, rest, more) ==
    /\ IoIdle
    /\ writing[s] > 0
    /\ delivered' = [delivered EXCEPT ![s] = Append(@, Head(out[s]))]
    /\ out' = [out EXCEPT ![s] = rest]
    /\ writing' = [writing EXCEPT ![s] = @ - 1 + (IF more THEN 1 ELSE 0)]
    /\ UNCHANGED <<queueVars, accepting, wpc, ref, sendVars, sessions, phase,
                   reading, posts, alive, broadcast, torn, sent,
                   failed>>

\* Mutants: the message written last is removed instead of the first; the next
\* write is not started.
OnWriteDropsLast(s) == OnWriteWith(s, Front(out[s]), Len(out[s]) > 1)
OnWriteStops(s) == OnWriteWith(s, Tail(out[s]), FALSE)

\* on_write: remove the message and write the next one, if any.
OnWrite(s) == OnWriteWith(s, Tail(out[s]), Len(out[s]) > 1)

\* on_write with an error: the message stays and nothing is started.
OnWriteFails(s) ==
    /\ IoIdle
    /\ writing[s] > 0
    /\ writing' = [writing EXCEPT ![s] = @ - 1]
    /\ failed' = failed \cup {s}
    /\ UNCHANGED <<queueVars, accepting, wpc, ref, sendVars, sessions, phase,
                   reading, posts, out, alive, broadcast, torn, sent,
                   delivered>>

\* Mutant: the destructor does not leave.
LeaveNothing(s) ==
    /\ alive
    /\ Expired(s)
    /\ phase' = [phase EXCEPT ![s] = "freed"]
    /\ UNCHANGED <<queueVars, accepting, wpc, ref, sendVars, sessions,
                   reading, posts, out, writing, alive, history>>

\* ~websocket_session, run by whoever drops the last reference: leave() erases
\* the session under the mutex, then the memory is freed.
Leave(s) ==
    /\ alive
    /\ Expired(s)
    /\ sessions' = sessions \ {s}
    /\ phase' = [phase EXCEPT ![s] = "freed"]
    /\ UNCHANGED <<queueVars, accepting, wpc, ref, sendVars, reading, posts,
                   out, writing, alive, history>>

-----------------------------------------------------------------------------

Writer == WriterBack \/ WriterCopy \/ WriterCopyStale \/ WriterPop

Sending(x) == Snapshot(x) \/ SendDone(x) \/ \E s \in Sessions : SendTo(x, s)

\* What a client or the network decides.
Client(s) ==
    Accept(s) \/ HttpRead(s) \/ HttpWrite(s) \/ OnRead(s) \/ OnReadFails(s)

\* What the session itself does.
Handlers(s) == OnAccept(s) \/ OnSend(s) \/ OnWrite(s) \/ OnWriteFails(s)

Next ==
    \/ Emplace
    \/ Writer
    \/ \E x \in Senders : Sending(x)
    \/ AcceptFails
    \/ \E s \in Sessions : Client(s) \/ Handlers(s) \/ Leave(s)

Spec == Init /\ [][Next]_vars

\* Both threads are scheduled, and every asynchronous operation completes: the
\* timeouts websocket_session::run sets end a write, with an error if need be,
\* and end a read on a connection whose write failed.
Fairness ==
    /\ WF_vars(Writer)
    /\ \A x \in Senders : WF_vars(Sending(x))
    /\ \A s \in Sessions :
          /\ WF_vars(Handlers(s))
          /\ WF_vars(Leave(s))
          /\ WF_vars(s \in failed /\ OnReadFails(s))

FairSpec == Spec /\ Fairness

-----------------------------------------------------------------------------
(* Properties *)

Gone == (1..arrived) \ ToSet(queue)

\* For every message the writer skipped another one is broadcast twice: each
\* round broadcasts one message and removes one, not always the same.
SkippedForRepeated ==
    ~torn /\ wpc = "poll" =>
        Cardinality(Gone \ ToSet(broadcast)) + Cardinality(ToSet(broadcast))
            = Len(broadcast) + Cardinality(ToSet(broadcast) \cap ToSet(queue))

\* A session has at most one async_write outstanding, of a message on its
\* queue, and while no write has failed it writes whenever it has something to
\* write.
OneWriteAtATime ==
    \A s \in Sessions :
        /\ writing[s] <= 1
        /\ writing[s] = 1 => out[s] # << >>
        /\ s \notin failed => (out[s] # << >> <=> writing[s] = 1)

\* What a session has written, what it has queued and what is posted to it is,
\* in this order, what it was sent: nothing is lost, repeated or reordered
\* between shared_state::send and the socket.
DeliveredInOrder ==
    \A s \in Sessions : delivered[s] \o out[s] \o posts[s] = sent[s]

\* A session in sessions_ is never freed memory, so that taking weak pointers
\* under the mutex is safe; no message is posted to a freed session.
NoFreedSession ==
    \A s \in Sessions :
        phase[s] = "freed" =>
            s \notin sessions /\ posts[s] = << >> /\ ~reading[s]

\* A message posted to a session is eventually written to its client, unless a
\* write of that session fails or the process dies.
PostedIsDelivered ==
    \A s \in Sessions : \A n \in 1..(2 * MaxMsgs + MaxChat) :
        Len(sent[s]) >= n ~> (Len(delivered[s]) >= n \/ s \in failed \/ ~alive)

\* A session whose write failed is eventually removed from sessions_ and freed.
FailedSessionLeaves ==
    \A s \in Sessions : s \in failed ~> (phase[s] = "freed" \/ ~alive)
=============================================================================
