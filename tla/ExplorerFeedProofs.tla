------------------------- MODULE ExplorerFeedProofs -------------------------
(***************************************************************************)
(* The explorer feed, for any set of connections and any number of         *)
(* messages.                                                               *)
(***************************************************************************)
EXTENDS ExplorerFeed, SequenceTheorems, FiniteSetTheorems, TLAPS

\* The writer is between its copy of a message and pop_back.
Owing == IF wpc \in {"snapshot", "send", "pop"} THEN 1 ELSE 0

\* explorer_queue holds messages in the order of their arrival, with gaps; the
\* reference the writer holds stays inside, because only the writer removes;
\* and every round removes one message and broadcasts one.
QueueInv ==
    /\ gen >= 1
    /\ \A i \in DOMAIN queue : queue[i] \in 1..arrived
    /\ \A i, j \in DOMAIN queue : i < j => queue[i] < queue[j]
    /\ wpc # "poll" => ref.pos \in DOMAIN queue
    /\ Len(broadcast) + Len(queue) = arrived + Owing
    /\ ~torn => \A i \in DOMAIN broadcast : broadcast[i] \in 1..arrived

\* A handler, a posted message, a write and a place in sessions_ are the
\* business of a live session only.
OnlyLive ==
    \A s \in Sessions :
        s \in sessions \/ reading[s] \/ posts[s] # << >> => phase[s] = "live"

-----------------------------------------------------------------------------
(* Sequences *)

\* What Append does to the elements of a sequence.
LEMMA AppendElements ==
    ASSUME NEW S, NEW q \in Seq(S), NEW e \in S
    PROVE  /\ Append(q, e) \in Seq(S)
           /\ Append(q, e) # << >>
           /\ Len(q) \in Nat
           /\ DOMAIN q = 1..Len(q)
           /\ Len(Append(q, e)) = Len(q) + 1
           /\ DOMAIN Append(q, e) = 1..(Len(q) + 1)
           /\ \A i \in 1..Len(q) : Append(q, e)[i] = q[i]
           /\ Append(q, e)[Len(q) + 1] = e
<1> QED BY AppendProperties, LenProperties

\* What pop_back leaves of a non-empty sequence.
LEMMA FrontElements ==
    ASSUME NEW S, NEW q \in Seq(S), q # << >>
    PROVE  /\ Len(q) \in Nat \ {0}
           /\ SubSeq(q, 1, Len(q) - 1) \in Seq(S)
           /\ Len(SubSeq(q, 1, Len(q) - 1)) = Len(q) - 1
           /\ DOMAIN SubSeq(q, 1, Len(q) - 1) = 1..(Len(q) - 1)
           /\ \A i \in 1..(Len(q) - 1) : SubSeq(q, 1, Len(q) - 1)[i] = q[i]
<1>1. Len(q) \in Nat /\ Len(q) # 0
  BY LenProperties, EmptySeq
<1>2. SubSeq(q, 1, Len(q) - 1) = [i \in 1..(Len(q) - 1) |-> q[i]]
  BY <1>1
<1>3. ASSUME NEW i \in 1..(Len(q) - 1) PROVE q[i] \in S
  BY <1>1, ElementOfSeq
<1>4. /\ Len(q) - 1 \in Nat
      /\ [i \in 1..(Len(q) - 1) |-> q[i]] \in [1..(Len(q) - 1) -> S]
  BY <1>1, <1>3
<1>5. /\ [i \in 1..(Len(q) - 1) |-> q[i]] \in Seq(S)
      /\ Len([i \in 1..(Len(q) - 1) |-> q[i]]) = Len(q) - 1
  BY <1>4
<1>6. Len(q) \in Nat \ {0}
  BY <1>1
<1> QED BY <1>2, <1>5, <1>6, Zenon

\* Moving the head of one sequence to the back of the one before it changes
\* nothing in what the two say together.
LEMMA MoveHead ==
    ASSUME NEW S, NEW a \in Seq(S), NEW b \in Seq(S), b # << >>
    PROVE  Append(a, Head(b)) \o Tail(b) = a \o b
<1>1. Head(b) \in S /\ Tail(b) \in Seq(S) /\ <<Head(b)>> \in Seq(S)
  BY HeadTailProperties
<1>2. Append(a, Head(b)) = a \o <<Head(b)>>
  BY <1>1, AppendIsConcat
<1>3. <<Head(b)>> \o Tail(b) = b
  BY <1>1, HeadTailProperties
<1>4. (a \o <<Head(b)>>) \o Tail(b) = a \o (<<Head(b)>> \o Tail(b))
  BY <1>1, ConcatAssociative
<1> QED BY <1>2, <1>3, <1>4

\* Appending to the last part appends to the whole.
LEMMA AppendLast ==
    ASSUME NEW S, NEW a \in Seq(S), NEW b \in Seq(S), NEW e \in S
    PROVE  a \o Append(b, e) = Append(a \o b, e)
<1>1. <<e>> \in Seq(S) /\ a \o b \in Seq(S)
  BY ConcatProperties
<1>2. Append(b, e) = b \o <<e>> /\ Append(a \o b, e) = (a \o b) \o <<e>>
  BY <1>1, AppendIsConcat
<1>3. (a \o b) \o <<e>> = a \o (b \o <<e>>)
  BY <1>1, ConcatAssociative
<1> QED BY <1>2, <1>3

-----------------------------------------------------------------------------
(* The queue and the writer *)

\* Lengths and domains of the queue and of the broadcasts, and a bound on the queue.
LEMMA QueueTypes ==
    ASSUME TypeOK, QueueInv
    PROVE  /\ queue \in Seq(1..MaxMsgs) /\ Len(queue) \in Nat
           /\ DOMAIN queue = 1..Len(queue)
           /\ broadcast \in Seq(Msg) /\ Len(broadcast) \in Nat
           /\ DOMAIN broadcast = 1..Len(broadcast)
           /\ arrived \in Nat /\ Owing \in Nat
           /\ wpc = "poll" => Len(queue) <= arrived
<1>1. /\ queue \in Seq(1..MaxMsgs) /\ Len(queue) \in Nat
      /\ DOMAIN queue = 1..Len(queue)
      /\ broadcast \in Seq(Msg) /\ Len(broadcast) \in Nat
      /\ DOMAIN broadcast = 1..Len(broadcast)
      /\ arrived \in Nat
  BY FeedAssumption, LenProperties DEF TypeOK
<1>2. Owing \in Nat /\ (wpc = "poll" => Owing = 0)
  BY DEF Owing
<1>3. wpc = "poll" => Len(queue) <= arrived
  BY <1>1, <1>2 DEF QueueInv
<1> QED BY <1>1, <1>2, <1>3

\* The writer's next step is an element of the queue it can read.
LEMMA ReadableRef ==
    ASSUME TypeOK, QueueInv, wpc # "poll"
    PROVE  /\ queue # << >>
           /\ ref.pos \in 1..Len(queue)
           /\ queue[ref.pos] \in 1..arrived
           /\ queue[ref.pos] \in Msg
<1>1. ref.pos \in DOMAIN queue /\ DOMAIN queue = 1..Len(queue) /\ Len(queue) \in Nat
  BY QueueTypes DEF QueueInv
<1>2. queue[ref.pos] \in 1..arrived
  BY <1>1 DEF QueueInv
<1>3. queue[ref.pos] \in Msg
  BY <1>2, FeedAssumption DEF TypeOK, Msg
<1>4. queue # << >>
  BY <1>1, EmptySeq
<1> QED BY <1>1, <1>2, <1>3, <1>4

\* A message that is queued keeps the queue's invariant: the writer's reference still
\* points into an old or the present buffer.
LEMMA QueueEmplace ==
    ASSUME TypeOK, QueueInv, Emplace
    PROVE  TypeOK' /\ QueueInv'
<1> DEFINE n == arrived + 1
<1>1. n \in 1..MaxMsgs /\ arrived \in Nat /\ arrived' = n /\ n \in 0..MaxMsgs
  BY FeedAssumption DEF Emplace, TypeOK
<1>2. /\ queue' \in Seq(1..MaxMsgs)
      /\ Len(queue') = Len(queue) + 1
      /\ DOMAIN queue' = 1..(Len(queue) + 1)
      /\ \A i \in 1..Len(queue) : queue'[i] = queue[i]
      /\ queue'[Len(queue) + 1] = n
  BY <1>1, AppendElements DEF Emplace, TypeOK
<1>3. cap' \in Nat /\ gen' \in Nat /\ gen' >= 1
  BY DEF Emplace, TypeOK, QueueInv
<1>4. /\ UNCHANGED <<wpc, ref, broadcast, torn>>
      /\ Owing' = Owing
  BY DEF Emplace, Owing
<1> HIDE DEF n
<1>5. TypeOK'
  BY <1>1, <1>2, <1>3 DEF Emplace, TypeOK, sendVars, sessionVars
<1>6. ASSUME NEW i \in DOMAIN queue'
      PROVE  /\ i \in 1..Len(queue) => queue'[i] = queue[i] /\ queue[i] \in 1..arrived
             /\ i \notin 1..Len(queue) => i = Len(queue) + 1 /\ queue'[i] = n
  BY <1>2, QueueTypes DEF QueueInv
<1>7. \A i \in DOMAIN queue' : queue'[i] \in 1..arrived'
  BY <1>1, <1>6, QueueTypes DEF n
<1>8. \A i, j \in DOMAIN queue' : i < j => queue'[i] < queue'[j]
  <2> SUFFICES ASSUME NEW i \in DOMAIN queue', NEW j \in DOMAIN queue', i < j
               PROVE  queue'[i] < queue'[j]
    OBVIOUS
  <2>1. i \in 1..Len(queue)
    BY <1>2, QueueTypes
  <2>2. CASE j \in 1..Len(queue)
    BY <2>1, <2>2, <1>6, QueueTypes DEF QueueInv
  <2>3. CASE j \notin 1..Len(queue)
    BY <2>1, <2>3, <1>1, <1>6, QueueTypes DEF n
  <2> QED BY <2>2, <2>3
<1>9. wpc' # "poll" => ref'.pos \in DOMAIN queue'
  BY <1>2, <1>4, QueueTypes DEF QueueInv
<1>10. Len(broadcast') + Len(queue') = arrived' + Owing'
  <2>1. Len(broadcast) + Len(queue) = arrived + Owing
    BY DEF QueueInv
  <2>2. broadcast' = broadcast
    BY <1>4
  <2>3. Len(broadcast) + (Len(queue) + 1) = (arrived + 1) + Owing
    BY <2>1, QueueTypes
  <2> QED BY <1>1, <1>2, <1>4, <2>2, <2>3, Zenon DEF n
<1>11. ~torn' => \A i \in DOMAIN broadcast' : broadcast'[i] \in 1..arrived'
  BY <1>1, <1>4, QueueTypes DEF QueueInv, n
<1> QED BY <1>3, <1>5, <1>7, <1>8, <1>9, <1>10, <1>11 DEF QueueInv

\* The reference back() returns is to the last element of the present buffer.
LEMMA QueueBack ==
    ASSUME TypeOK, QueueInv, WriterBack
    PROVE  TypeOK' /\ QueueInv'
<1>1. /\ Len(queue) \in DOMAIN queue /\ Len(queue) \in 1..MaxMsgs
      /\ gen \in Nat \ {0}
  <2>1. Len(queue) # 0
    BY QueueTypes, EmptySeq DEF WriterBack
  <2>2. wpc = "poll" /\ arrived \in 0..MaxMsgs /\ gen \in Nat /\ gen >= 1
    BY DEF WriterBack, TypeOK, QueueInv
  <2> QED BY <2>1, <2>2, QueueTypes, FeedAssumption
<1>2. UNCHANGED <<queueVars, sendVars, sessionVars, alive, history>>
  BY DEF WriterBack
<1>3. ref' = [gen |-> gen, pos |-> Len(queue)] /\ wpc = "poll" /\ wpc' = "copy"
  BY DEF WriterBack
<1>4. TypeOK'
  BY <1>1, <1>2, <1>3 DEF TypeOK, queueVars, sendVars, sessionVars, history
<1>5. Owing' = Owing
  BY <1>3 DEF Owing
<1> QED BY <1>1, <1>2, <1>3, <1>4, <1>5 DEF QueueInv, queueVars, history

\* One more message has been broadcast.
LEMMA QueueCopied ==
    ASSUME TypeOK, QueueInv, wpc = "copy", NEW m \in Msg, Copy(m),
           m \in 1..arrived \/ torn',
           torn => torn', torn' \in BOOLEAN, alive' \in BOOLEAN,
           UNCHANGED <<queueVars, ref, todo, iopc, chat, sessionVars, sent,
                       delivered, failed>>
    PROVE  TypeOK' /\ QueueInv'
<1>1. /\ broadcast' \in Seq(Msg)
      /\ Len(broadcast') = Len(broadcast) + 1
      /\ DOMAIN broadcast' = 1..(Len(broadcast) + 1)
      /\ \A i \in 1..Len(broadcast) : broadcast'[i] = broadcast[i]
      /\ broadcast'[Len(broadcast) + 1] = m
  BY AppendElements DEF Copy, TypeOK
<1>2. text' \in [Senders -> Msg] /\ wpc' = "snapshot"
  BY DEF Copy, TypeOK
<1>3. TypeOK'
  BY <1>1, <1>2 DEF TypeOK, queueVars, sessionVars
<1>4. Owing = 0 /\ Owing' = 1
  BY <1>2 DEF Owing
<1>5. Len(broadcast') + Len(queue') = arrived' + Owing'
  BY <1>1, <1>4, QueueTypes DEF QueueInv, queueVars
<1>6. ASSUME ~torn', NEW i \in DOMAIN broadcast' PROVE broadcast'[i] \in 1..arrived'
  <2>1. arrived' = arrived /\ ~torn /\ m \in 1..arrived
    BY <1>6 DEF queueVars
  <2>2. i \in 1..Len(broadcast) \/ i = Len(broadcast) + 1
    BY <1>1, QueueTypes
  <2> QED BY <2>1, <2>2, <1>1, QueueTypes DEF QueueInv
<1> QED BY <1>2, <1>3, <1>5, <1>6 DEF QueueInv, queueVars

\* The copy through the reference, dangling or not, takes a message that has arrived.
LEMMA QueueCopy ==
    ASSUME TypeOK, QueueInv, WriterCopy \/ WriterCopyStale
    PROVE  TypeOK' /\ QueueInv'
<1>0. wpc = "copy" /\ queue[ref.pos] \in Msg /\ queue[ref.pos] \in 1..arrived
  <2>1. wpc = "copy"
    BY DEF WriterCopy, WriterCopyStale
  <2> QED BY <2>1, ReadableRef
<1>1. CASE WriterCopy
  <2>1. torn' = torn /\ alive' = alive /\ torn' \in BOOLEAN /\ alive' \in BOOLEAN
    BY <1>1 DEF WriterCopy, TypeOK
  <2> QED BY <1>0, <1>1, <2>1, QueueCopied DEF WriterCopy
<1>2. CASE WriterCopyStale
  <2>1. torn' = TRUE /\ alive' \in BOOLEAN
    BY <1>2 DEF WriterCopyStale, TypeOK
  <2>2. CASE UNCHANGED <<text, broadcast, wpc>>
    <3>1. TypeOK'
      BY <1>2, <2>1, <2>2 DEF WriterCopyStale, TypeOK, queueVars, sessionVars
    <3>2. QueueInv'
      BY <1>2, <2>1, <2>2 DEF WriterCopyStale, QueueInv, Owing, queueVars
    <3> QED BY <3>1, <3>2
  <2>3. CASE \E m \in {Garbage, queue[ref.pos]} : Copy(m)
    <3>1. PICK m \in {Garbage, queue[ref.pos]} : Copy(m)
      BY <2>3
    <3>2. m \in Msg
      BY <1>0, FeedAssumption DEF Msg, Garbage
    <3> QED BY <1>0, <1>2, <2>1, <3>1, <3>2, QueueCopied DEF WriterCopyStale
  <2> QED BY <1>2, <2>2, <2>3 DEF WriterCopyStale
<1> QED BY <1>1, <1>2

\* After pop_back every message that was skipped is still made up for by one that is
\* owed or was sent twice.
LEMMA QueuePop ==
    ASSUME TypeOK, QueueInv, WriterPop
    PROVE  TypeOK' /\ QueueInv'
<1>1. wpc = "pop" /\ wpc' = "poll" /\ ref' = NoRef
  BY DEF WriterPop
<1>2. /\ queue' \in Seq(1..MaxMsgs)
      /\ Len(queue') = Len(queue) - 1
      /\ DOMAIN queue' = 1..(Len(queue) - 1)
      /\ \A i \in 1..(Len(queue) - 1) : queue'[i] = queue[i]
  <2>1. queue # << >>
    BY <1>1, ReadableRef
  <2> QED BY <2>1, FrontElements DEF WriterPop, TypeOK
<1>3. TypeOK'
  BY <1>1, <1>2 DEF WriterPop, TypeOK, sendVars, sessionVars, history
<1>4. Owing = 1 /\ Owing' = 0
  BY <1>1 DEF Owing
<1>5. UNCHANGED <<arrived, gen, broadcast, torn>>
  BY DEF WriterPop, history
<1>6. Len(broadcast') + Len(queue') = arrived' + Owing'
  BY <1>2, <1>4, <1>5, QueueTypes DEF QueueInv
<1>7. ASSUME NEW i \in DOMAIN queue' PROVE i \in DOMAIN queue /\ queue'[i] = queue[i]
  BY <1>2, QueueTypes
<1> QED BY <1>1, <1>3, <1>5, <1>6, <1>7 DEF QueueInv

\* The steps of the broadcasts and of the sessions leave the queue alone, and
\* the writer's own broadcast does not change what it owes.
LEMMA QueueUnchanged ==
    ASSUME QueueInv, UNCHANGED <<queueVars, ref, broadcast, torn>>,
           wpc' = wpc \/ (wpc = "snapshot" /\ wpc' = "send")
                      \/ (wpc = "send" /\ wpc' = "pop")
    PROVE  QueueInv'
<1>1. Owing' = Owing /\ (wpc' # "poll" => wpc # "poll")
  BY DEF Owing
<1> QED BY <1>1 DEF QueueInv, queueVars

\* shared_state::send, by either caller.
LEMMA QueueSending ==
    ASSUME TypeOK, QueueInv, NEW x \in Senders, Sending(x)
    PROVE  TypeOK' /\ QueueInv'
<1>a. x = "writer" \/ (x = "io" /\ x # "writer")
  BY DEF Senders
<1>1. CASE Snapshot(x)
  <2>1. todo' \in [Senders -> SUBSET Sessions]
    BY <1>1 DEF Snapshot, TypeOK
  <2>2. /\ wpc' \in {wpc, "send"} /\ iopc' \in {iopc, "send"}
        /\ wpc' # wpc => wpc = "snapshot" /\ wpc' = "send"
    BY <1>1, <1>a DEF Snapshot, At, Goto
  <2>3. TypeOK'
    BY <1>1, <2>1, <2>2
    DEF Snapshot, TypeOK, queueVars, sessionVars, history
  <2>4. QueueInv'
    BY <1>1, <2>2, QueueUnchanged DEF Snapshot, history
  <2> QED BY <2>3, <2>4
<1>2. CASE SendDone(x)
  <2>1. /\ wpc' \in {wpc, "pop"} /\ iopc' \in {iopc, "idle"}
        /\ wpc' # wpc => wpc = "send" /\ wpc' = "pop"
    BY <1>2, <1>a DEF SendDone, At, Goto
  <2>2. TypeOK'
    BY <1>2, <2>1
    DEF SendDone, TypeOK, queueVars, sessionVars, history
  <2>3. QueueInv'
    BY <1>2, <2>1, QueueUnchanged DEF SendDone, history
  <2> QED BY <2>2, <2>3
<1>3. ASSUME NEW s \in Sessions, SendTo(x, s)
      PROVE  TypeOK' /\ QueueInv'
  <2>1. todo' \in [Senders -> SUBSET Sessions]
    BY <1>3 DEF SendTo, TypeOK
  <2>2. posts' \in [Sessions -> Seq(Msg)] /\ sent' \in [Sessions -> Seq(Msg)]
    <3>1. /\ posts \in [Sessions -> Seq(Msg)] /\ sent \in [Sessions -> Seq(Msg)]
          /\ text[x] \in Msg
      BY DEF TypeOK
    <3>2. Append(posts[s], text[x]) \in Seq(Msg) /\ Append(sent[s], text[x]) \in Seq(Msg)
      BY <3>1, AppendElements
    <3> QED BY <1>3, <3>1, <3>2 DEF SendTo, Post
  <2>3. TypeOK'
    BY <1>3, <2>1, <2>2 DEF SendTo, TypeOK, queueVars
  <2>4. QueueInv'
    BY <1>3, QueueUnchanged DEF SendTo
  <2> QED BY <2>3, <2>4
<1> QED BY <1>1, <1>2, <1>3 DEF Sending

-----------------------------------------------------------------------------
(* The sessions *)

Io(s) == Client(s) \/ Handlers(s) \/ Leave(s)

\* The handlers of the io thread touch neither the queue nor the writer.
LEMMA IoLeavesQueue ==
    ASSUME TypeOK, QueueInv, AcceptFails \/ \E s \in Sessions : Io(s)
    PROVE  QueueInv'
<1>1. UNCHANGED <<queueVars, ref, broadcast, torn>> /\ wpc' = wpc
  BY DEF Io, AcceptFails, Client, Accept, HttpRead, HttpWrite, OnRead, OnReadFails,
     Handlers, OnAccept, OnSend, OnSendWhen, OnWrite, OnWriteWith, OnWriteFails, Leave,
     history, vars
<1> QED BY <1>1, QueueUnchanged

\* A message being written is on the session's queue.
LEMMA WrittenIsQueued ==
    ASSUME TypeOK, OneWriteAtATime, NEW s \in Sessions, writing[s] > 0
    PROVE  /\ writing[s] = 1
           /\ out[s] \in Seq(Msg) /\ out[s] # << >>
           /\ Head(out[s]) \in Msg /\ Tail(out[s]) \in Seq(Msg)
<1>1. writing[s] = 1 /\ out[s] # << >> /\ out[s] \in Seq(Msg)
  BY DEF TypeOK, OneWriteAtATime
<1> QED BY <1>1, HeadTailProperties

\* The handlers of the connections keep the types.
LEMMA IoTypes ==
    ASSUME TypeOK, OneWriteAtATime, AcceptFails \/ \E s \in Sessions : Io(s)
    PROVE  TypeOK'
<1>1. CASE AcceptFails
  BY <1>1 DEF AcceptFails, TypeOK, queueVars, sendVars, history
<1>2. ASSUME NEW s \in Sessions, Io(s) PROVE TypeOK'
  <2>1. CASE Accept(s) \/ HttpRead(s) \/ HttpWrite(s)
    <3>1. phase' \in [Sessions -> {"absent", "http", "answer", "closed",
                                  "handshake", "live", "freed"}]
      BY <2>1 DEF Accept, HttpRead, HttpWrite, TypeOK
    <3> QED
      BY <2>1, <3>1 DEF Accept, HttpRead, HttpWrite, TypeOK, queueVars, sendVars, history
  <2>2. CASE OnAccept(s)
    <3>1. phase' \in [Sessions -> {"absent", "http", "answer", "closed",
                                  "handshake", "live", "freed"}]
      BY <2>2 DEF OnAccept, TypeOK
    <3>2. sessions' \in SUBSET Sessions /\ reading' \in [Sessions -> BOOLEAN]
      BY <2>2 DEF OnAccept, TypeOK
    <3> QED BY <2>2, <3>1, <3>2 DEF OnAccept, TypeOK, queueVars, sendVars, history
  <2>3. CASE OnRead(s)
    <3>1. /\ chat' \in 0..MaxChat /\ text' \in [Senders -> Msg]
          /\ iopc' = "snapshot"
      BY <2>3, FeedAssumption DEF OnRead, TypeOK, Msg, Senders
    <3> QED BY <2>3, <3>1 DEF OnRead, TypeOK, queueVars, sessionVars, history
  <2>4. CASE OnReadFails(s)
    BY <2>4 DEF OnReadFails, TypeOK, queueVars, sendVars, history
  <2>5. CASE OnSend(s)
    <3>1. /\ posts[s] \in Seq(Msg) /\ posts[s] # << >> /\ out[s] \in Seq(Msg)
          /\ writing[s] \in Nat
      BY <2>5 DEF OnSend, OnSendWhen, TypeOK
    <3>2. Append(out[s], Head(posts[s])) \in Seq(Msg) /\ Tail(posts[s]) \in Seq(Msg)
      BY <3>1, HeadTailProperties, AppendElements
    <3>3. posts' \in [Sessions -> Seq(Msg)] /\ out' \in [Sessions -> Seq(Msg)]
      BY <2>5, <3>2 DEF OnSend, OnSendWhen, TypeOK
    <3>4. writing' \in [Sessions -> Nat]
      BY <2>5, <3>1 DEF OnSend, OnSendWhen, TypeOK
    <3> QED
      BY <2>5, <3>3, <3>4 DEF OnSend, OnSendWhen, TypeOK, queueVars, sendVars, history
  <2>6. CASE OnWrite(s)
    <3>1. /\ writing[s] = 1 /\ Head(out[s]) \in Msg /\ Tail(out[s]) \in Seq(Msg)
          /\ delivered[s] \in Seq(Msg)
      BY <2>6, WrittenIsQueued DEF OnWrite, OnWriteWith, TypeOK
    <3>2. Append(delivered[s], Head(out[s])) \in Seq(Msg)
      BY <3>1, AppendElements
    <3>3. delivered' \in [Sessions -> Seq(Msg)] /\ out' \in [Sessions -> Seq(Msg)]
      BY <2>6, <3>1, <3>2 DEF OnWrite, OnWriteWith, TypeOK
    <3>4. writing' \in [Sessions -> Nat]
      BY <2>6, <3>1 DEF OnWrite, OnWriteWith, TypeOK
    <3> QED BY <2>6, <3>3, <3>4 DEF OnWrite, OnWriteWith, TypeOK, queueVars, sendVars
  <2>7. CASE OnWriteFails(s)
    <3>1. writing[s] = 1
      BY <2>7, WrittenIsQueued DEF OnWriteFails
    <3>2. writing' \in [Sessions -> Nat] /\ failed' \in SUBSET Sessions
      BY <2>7, <3>1 DEF OnWriteFails, TypeOK
    <3> QED BY <2>7, <3>2 DEF OnWriteFails, TypeOK, queueVars, sendVars
  <2>8. CASE Leave(s)
    <3>1. /\ phase' \in [Sessions -> {"absent", "http", "answer", "closed",
                                     "handshake", "live", "freed"}]
          /\ sessions' \in SUBSET Sessions
      BY <2>8 DEF Leave, TypeOK
    <3> QED BY <2>8, <3>1 DEF Leave, TypeOK, queueVars, sendVars, history
  <2> QED
    BY <1>2, <2>1, <2>2, <2>3, <2>4, <2>5, <2>6, <2>7, <2>8 DEF Io, Client, Handlers
<1> QED BY <1>1, <1>2

SessionInv == OnlyLive /\ OneWriteAtATime /\ DeliveredInOrder

\* The queue, the writer and the rest of a broadcast leave the sessions alone.
LEMMA SessionsUnchanged ==
    ASSUME SessionInv,
           UNCHANGED <<sessionVars, sent, delivered, failed>>
    PROVE  SessionInv'
<1> QED
  BY DEF SessionInv, OnlyLive, OneWriteAtATime, DeliveredInOrder, sessionVars

\* A broadcast posts to a session only through a pointer that it could lock.
LEMMA SessionsSendTo ==
    ASSUME TypeOK, SessionInv, NEW x \in Senders, NEW s \in Sessions, SendTo(x, s)
    PROVE  SessionInv'
<1> USE DEF SessionInv
<1>1. UNCHANGED <<accepting, sessions, phase, reading, out, writing, delivered, failed>>
  BY DEF SendTo
<1>2. CASE UNCHANGED <<posts, sent>>
  BY <1>1, <1>2, SessionsUnchanged DEF sessionVars
<1>3. CASE Lockable(s) /\ Post(s, text[x])
  <2>1. posts' = [posts EXCEPT ![s] = Append(posts[s], text[x])]
    BY <1>3 DEF Post
  <2>2. sent' = [sent EXCEPT ![s] = Append(sent[s], text[x])]
    BY <1>3 DEF Post
  <2>3. OnlyLive'
    BY <1>1, <1>3, <2>1 DEF OnlyLive, Lockable, TypeOK
  <2>4. OneWriteAtATime'
    BY <1>1 DEF OneWriteAtATime
  <2>5. ASSUME NEW r \in Sessions
        PROVE  delivered'[r] \o out'[r] \o posts'[r] = sent'[r]
    <3>1. /\ delivered[r] \in Seq(Msg) /\ out[r] \in Seq(Msg) /\ posts[r] \in Seq(Msg)
          /\ text[x] \in Msg
          /\ delivered[r] \o out[r] \o posts[r] = sent[r]
      BY DEF TypeOK, DeliveredInOrder
    <3>2. delivered[r] \o out[r] \in Seq(Msg)
      BY <3>1, ConcatProperties
    <3>3. CASE r = s
      <4>1. posts'[r] = Append(posts[r], text[x]) /\ sent'[r] = Append(sent[r], text[x])
        BY <3>3, <2>1, <2>2 DEF TypeOK
      <4>2. (delivered[r] \o out[r]) \o Append(posts[r], text[x])
                = Append((delivered[r] \o out[r]) \o posts[r], text[x])
        <5>1. \A a, b \in Seq(Msg), e \in Msg : a \o Append(b, e) = Append(a \o b, e)
          BY AppendLast
        <5> QED BY <3>1, <3>2, <5>1, Zenon
      <4> QED BY <1>1, <3>1, <4>1, <4>2
    <3>4. CASE r # s
      BY <1>1, <2>1, <2>2, <3>1, <3>4 DEF TypeOK
    <3> QED BY <3>3, <3>4
  <2> QED BY <2>3, <2>4, <2>5 DEF DeliveredInOrder
<1> QED BY <1>2, <1>3 DEF SendTo

\* Only a live session is read from, written to or left.
LEMMA IoOnlyLive ==
    ASSUME TypeOK, SessionInv, NEW s \in Sessions, Io(s)
    PROVE  OnlyLive'
<1> USE DEF SessionInv
<1>1. CASE Accept(s) \/ HttpRead(s) \/ HttpWrite(s)
  <2>1. phase[s] # "live" /\ \A r \in Sessions : r # s => phase'[r] = phase[r]
    BY <1>1 DEF Accept, HttpRead, HttpWrite, TypeOK
  <2>2. UNCHANGED <<sessions, reading, posts>>
    BY <1>1 DEF Accept, HttpRead, HttpWrite
  <2> QED BY <2>1, <2>2 DEF OnlyLive
<1>2. CASE OnAccept(s)
  <2>1. /\ phase'[s] = "live"
        /\ \A r \in Sessions : r # s =>
               /\ phase'[r] = phase[r]
               /\ reading'[r] = reading[r]
               /\ r \in sessions' <=> r \in sessions
        /\ posts' = posts
    BY <1>2 DEF OnAccept, TypeOK
  <2> QED BY <2>1 DEF OnlyLive
<1>3. CASE OnRead(s)
  BY <1>3 DEF OnRead, OnlyLive, sessionVars
<1>4. CASE OnReadFails(s)
  <2>1. \A r \in Sessions : reading'[r] => reading[r]
    BY <1>4 DEF OnReadFails, TypeOK
  <2> QED BY <1>4, <2>1 DEF OnReadFails, OnlyLive
<1>5. CASE OnSend(s)
  <2>1. \A r \in Sessions : posts'[r] # << >> => posts[r] # << >>
    BY <1>5 DEF OnSend, OnSendWhen, TypeOK
  <2> QED BY <1>5, <2>1 DEF OnSend, OnSendWhen, OnlyLive
<1>6. CASE OnWrite(s) \/ OnWriteFails(s)
  BY <1>6 DEF OnWrite, OnWriteWith, OnWriteFails, OnlyLive
<1>7. CASE Leave(s)
  <2>1. /\ s \notin sessions' /\ ~reading[s] /\ posts[s] = << >>
        /\ \A r \in Sessions : r # s => phase'[r] = phase[r]
        /\ sessions' \subseteq sessions /\ UNCHANGED <<reading, posts>>
    BY <1>7 DEF Leave, Expired, TypeOK
  <2> QED BY <2>1 DEF OnlyLive
<1> QED BY <1>1, <1>2, <1>3, <1>4, <1>5, <1>6, <1>7 DEF Io, Client, Handlers

\* on_send starts a write on an empty queue, on_write the next one.
LEMMA IoOneWrite ==
    ASSUME TypeOK, SessionInv, NEW s \in Sessions, Io(s)
    PROVE  OneWriteAtATime'
<1> USE DEF SessionInv
<1>1. CASE UNCHANGED <<out, writing, failed>>
  BY <1>1 DEF OneWriteAtATime
<1>2. CASE OnSend(s)
  <2>1. /\ posts[s] \in Seq(Msg) /\ posts[s] # << >> /\ out[s] \in Seq(Msg)
        /\ writing[s] \in Nat
    BY <1>2 DEF OnSend, OnSendWhen, TypeOK
  <2>2. Append(out[s], Head(posts[s])) # << >>
    BY <2>1, HeadTailProperties, AppendElements
  <2>3. /\ out'[s] # << >>
        /\ writing'[s] = writing[s] + (IF out[s] = << >> THEN 1 ELSE 0)
        /\ \A r \in Sessions : r # s => out'[r] = out[r] /\ writing'[r] = writing[r]
        /\ failed' = failed
    BY <1>2, <2>2 DEF OnSend, OnSendWhen, TypeOK, history
  <2>4. /\ writing'[s] <= 1
        /\ s \notin failed => writing'[s] = 1
    BY <2>1, <2>3 DEF OneWriteAtATime
  <2> QED BY <2>3, <2>4 DEF OneWriteAtATime
<1>3. CASE OnWrite(s)
  <2>1. writing[s] = 1 /\ out[s] \in Seq(Msg) /\ out[s] # << >>
    BY <1>3, WrittenIsQueued DEF OnWrite, OnWriteWith
  <2>2. Tail(out[s]) # << >> <=> Len(out[s]) > 1
    <3>1. /\ Tail(out[s]) \in Seq(Msg) /\ Len(Tail(out[s])) = Len(out[s]) - 1
          /\ Len(out[s]) \in Nat
      BY <2>1, HeadTailProperties, LenProperties
    <3>2. Tail(out[s]) # << >> <=> Len(Tail(out[s])) # 0
      BY <3>1, EmptySeq, Zenon
    <3>3. Len(Tail(out[s])) # 0 <=> Len(out[s]) > 1
      <4>1. Len(Tail(out[s])) \in Nat
        BY <3>1, LenProperties
      <4>2. \A m, n \in Nat : m = n - 1 => (m # 0 <=> n > 1)
        OBVIOUS
      <4> QED BY <3>1, <4>1, <4>2, Zenon
    <3> QED BY <3>2, <3>3, Zenon
  <2>3. /\ out'[s] = Tail(out[s])
        /\ writing'[s] = IF Len(out[s]) > 1 THEN 1 ELSE 0
        /\ \A r \in Sessions : r # s => out'[r] = out[r] /\ writing'[r] = writing[r]
        /\ failed' = failed
    BY <1>3, <2>1 DEF OnWrite, OnWriteWith, TypeOK
  <2>4. /\ writing'[s] <= 1
        /\ out'[s] # << >> <=> writing'[s] = 1
    <3>1. CASE Len(out[s]) > 1
      BY <3>1, <2>2, <2>3
    <3>2. CASE ~(Len(out[s]) > 1)
      BY <3>2, <2>2, <2>3
    <3> QED BY <3>1, <3>2
  <2> QED BY <2>3, <2>4 DEF OneWriteAtATime
<1>4. CASE OnWriteFails(s)
  <2>1. writing[s] = 1
    BY <1>4, WrittenIsQueued DEF OnWriteFails
  <2>2. /\ writing'[s] = 0
        /\ \A r \in Sessions : r # s => writing'[r] = writing[r]
        /\ out' = out /\ s \in failed' /\ failed \subseteq failed'
    BY <1>4, <2>1 DEF OnWriteFails, TypeOK
  <2> QED BY <2>2 DEF OneWriteAtATime
<1>5. CASE Client(s) \/ OnAccept(s) \/ Leave(s)
  BY <1>1, <1>5
  DEF Client, Accept, HttpRead, HttpWrite, OnRead, OnReadFails, OnAccept, Leave,
      sessionVars, history
<1> QED BY <1>2, <1>3, <1>4, <1>5 DEF Io, Handlers

\* on_send and on_write only move the head of a sequence to the one before it.
LEMMA IoDelivered ==
    ASSUME TypeOK, SessionInv, NEW s \in Sessions, Io(s)
    PROVE  DeliveredInOrder'
<1> USE DEF SessionInv
<1> SUFFICES ASSUME NEW r \in Sessions
             PROVE  delivered'[r] \o out'[r] \o posts'[r] = sent'[r]
  BY DEF DeliveredInOrder
<1>0. /\ delivered[r] \in Seq(Msg) /\ out[r] \in Seq(Msg) /\ posts[r] \in Seq(Msg)
      /\ (delivered[r] \o out[r]) \o posts[r] = sent[r]
  BY DEF TypeOK, DeliveredInOrder
<1>1. CASE delivered'[r] = delivered[r] /\ out'[r] = out[r] /\ posts'[r] = posts[r]
           /\ sent'[r] = sent[r]
  BY <1>0, <1>1
<1>2. CASE OnSend(s)
  <2>1. CASE r # s
    BY <1>1, <1>2, <2>1 DEF OnSend, OnSendWhen, TypeOK, history
  <2>2. CASE r = s
    <3>1. /\ posts[r] # << >>
          /\ posts'[r] = Tail(posts[r]) /\ out'[r] = Append(out[r], Head(posts[r]))
          /\ delivered' = delivered /\ sent' = sent
      BY <1>2, <2>2 DEF OnSend, OnSendWhen, TypeOK, history
    <3>2. Append(out[r], Head(posts[r])) \in Seq(Msg) /\ Tail(posts[r]) \in Seq(Msg)
      BY <1>0, <3>1, HeadTailProperties, AppendElements
    <3>3. Append(out[r], Head(posts[r])) \o Tail(posts[r]) = out[r] \o posts[r]
      BY <1>0, <3>1, MoveHead
    <3>a. \A a, b, c \in Seq(Msg) : (a \o b) \o c = a \o (b \o c)
      BY ConcatAssociative
    <3>4. (delivered[r] \o Append(out[r], Head(posts[r]))) \o Tail(posts[r])
              = delivered[r] \o (Append(out[r], Head(posts[r])) \o Tail(posts[r]))
      BY <1>0, <3>2, <3>a, Zenon
    <3>5. (delivered[r] \o out[r]) \o posts[r] = delivered[r] \o (out[r] \o posts[r])
      BY <1>0, <3>a, Zenon
    <3> QED BY <1>0, <3>1, <3>3, <3>4, <3>5, Zenon
  <2> QED BY <2>1, <2>2
<1>3. CASE OnWrite(s)
  <2>1. CASE r # s
    BY <1>1, <1>3, <2>1 DEF OnWrite, OnWriteWith, TypeOK
  <2>2. CASE r = s
    <3>1. /\ out[r] # << >>
          /\ out'[r] = Tail(out[r]) /\ delivered'[r] = Append(delivered[r], Head(out[r]))
          /\ posts' = posts /\ sent' = sent
      BY <1>3, <2>2, WrittenIsQueued DEF OnWrite, OnWriteWith, TypeOK
    <3>2. Append(delivered[r], Head(out[r])) \o Tail(out[r]) = delivered[r] \o out[r]
      BY <1>0, <3>1, MoveHead
    <3> QED BY <1>0, <3>1, <3>2, Zenon
  <2> QED BY <2>1, <2>2
<1>4. CASE Client(s) \/ OnAccept(s) \/ OnWriteFails(s) \/ Leave(s)
  BY <1>1, <1>4
  DEF Client, Accept, HttpRead, HttpWrite, OnRead, OnReadFails, OnAccept,
      OnWriteFails, Leave, sessionVars, history
<1> QED BY <1>2, <1>3, <1>4 DEF Io, Handlers

-----------------------------------------------------------------------------
(* The inductive invariant *)

IInv == TypeOK /\ QueueInv /\ SessionInv

\* The invariant holds at the start.
LEMMA FeedInit == ASSUME Init PROVE IInv
<1>0. /\ \A S : << >> \in Seq(S)
      /\ Len(<< >>) = 0 /\ DOMAIN << >> = {}
  BY EmptySeq
<1>1. TypeOK
  <2>1. 0 \in 0..MaxMsgs /\ 0 \in 0..MaxChat /\ Garbage \in Msg
    BY FeedAssumption DEF Garbage, Msg
  <2> QED BY <1>0, <2>1 DEF Init, TypeOK
<1>2. QueueInv
  BY <1>0 DEF Init, QueueInv, Owing
<1>3. OnlyLive
  BY DEF Init, OnlyLive
<1>4. OneWriteAtATime
  BY DEF Init, OneWriteAtATime
<1>5. DeliveredInOrder
  <2>1. << >> \o << >> = << >>
    BY <1>0, ConcatEmptySeq
  <2> QED BY <2>1 DEF Init, DeliveredInOrder
<1> QED BY <1>1, <1>2, <1>3, <1>4, <1>5 DEF IInv, SessionInv

\* Every step of the threads and the handlers keeps the invariant.
LEMMA FeedStep == ASSUME IInv, [Next]_vars PROVE IInv'
<1> USE DEF IInv
<1>1. CASE UNCHANGED vars
  <2>1. TypeOK' /\ QueueInv'
    BY <1>1 DEF vars, TypeOK, QueueInv, Owing, queueVars, sendVars, sessionVars, history
  <2>2. SessionInv'
    BY <1>1, SessionsUnchanged DEF vars, history
  <2> QED BY <2>1, <2>2
<1>2. CASE Emplace \/ Writer
  <2>1. TypeOK' /\ QueueInv'
    BY <1>2, QueueEmplace, QueueBack, QueueCopy, QueuePop DEF Writer
  <2>2. UNCHANGED <<sessionVars, sent, delivered, failed>>
    BY <1>2 DEF Emplace, Writer, WriterBack, WriterCopy, WriterCopyStale, WriterPop,
       history
  <2> QED BY <2>1, <2>2, SessionsUnchanged
<1>3. ASSUME NEW x \in Senders, Sending(x) PROVE IInv'
  <2>1. TypeOK' /\ QueueInv'
    BY <1>3, QueueSending
  <2>2. CASE Snapshot(x) \/ SendDone(x)
    BY <2>1, <2>2, SessionsUnchanged DEF Snapshot, SendDone, history
  <2>3. CASE \E s \in Sessions : SendTo(x, s)
    BY <2>1, <2>3, SessionsSendTo
  <2> QED BY <1>3, <2>2, <2>3 DEF Sending
<1>4. CASE AcceptFails
  <2>1. TypeOK' /\ QueueInv'
    BY <1>4, IoTypes, IoLeavesQueue DEF SessionInv
  <2>2. SessionInv'
    BY <1>4 DEF AcceptFails, SessionInv, OnlyLive, OneWriteAtATime, DeliveredInOrder,
       history
  <2> QED BY <2>1, <2>2
<1>5. ASSUME NEW s \in Sessions, Io(s) PROVE IInv'
  <2>1. TypeOK' /\ QueueInv'
    BY <1>5, IoTypes, IoLeavesQueue DEF SessionInv
  <2>2. SessionInv'
    BY <1>5, IoOnlyLive, IoOneWrite, IoDelivered DEF SessionInv
  <2> QED BY <2>1, <2>2
<1> QED BY <1>1, <1>2, <1>3, <1>4, <1>5 DEF Next, Io

\* Every variable keeps its type: in particular the reference the writer holds
\* and every message a session posts, queues, writes or has written.
THEOREM TypeCorrect == Spec => []TypeOK
<1>1. Init => IInv
  BY FeedInit
<1>2. IInv /\ [Next]_vars => IInv'
  BY FeedStep
<1>3. IInv => TypeOK
  BY DEF IInv
<1> QED BY <1>1, <1>2, <1>3, PTL DEF Spec

\* websocket_session never has two async_writes outstanding and, until a write
\* fails, never leaves a message waiting on queue_ without one.
THEOREM WritesAreExclusive == Spec => []OneWriteAtATime
<1>1. Init => IInv
  BY FeedInit
<1>2. IInv /\ [Next]_vars => IInv'
  BY FeedStep
<1>3. IInv => OneWriteAtATime
  BY DEF IInv, SessionInv
<1> QED BY <1>1, <1>2, <1>3, PTL DEF Spec

\* Between shared_state::send and the socket no message is lost, repeated or
\* overtaken, whoever else broadcasts at the same time.
THEOREM DeliveryInOrder == Spec => []DeliveredInOrder
<1>1. Init => IInv
  BY FeedInit
<1>2. IInv /\ [Next]_vars => IInv'
  BY FeedStep
<1>3. IInv => DeliveredInOrder
  BY DEF IInv, SessionInv
<1> QED BY <1>1, <1>2, <1>3, PTL DEF Spec

\* leave() runs before the memory of a session is freed, and nothing posts to a
\* session afterwards: the raw pointers of sessions_ are never dangling.
THEOREM SessionsAreAlive == Spec => []NoFreedSession
<1>1. Init => IInv
  BY FeedInit
<1>2. IInv /\ [Next]_vars => IInv'
  BY FeedStep
<1>3. IInv => NoFreedSession
  BY DEF IInv, SessionInv, OnlyLive, NoFreedSession
<1> QED BY <1>1, <1>2, <1>3, PTL DEF Spec

-----------------------------------------------------------------------------
(* Counting the messages *)

\* The queue holds as many different messages as it has places.
LEMMA QueueCounts ==
    ASSUME TypeOK, QueueInv
    PROVE  IsFiniteSet(ToSet(queue)) /\ Cardinality(ToSet(queue)) = Len(queue)
<1>1. queue \in [1..Len(queue) -> ToSet(queue)] /\ Len(queue) \in Nat
  BY QueueTypes DEF ToSet
<1>2. \A i, j \in 1..Len(queue) : queue[i] = queue[j] => i = j
  <2> SUFFICES ASSUME NEW i \in 1..Len(queue), NEW j \in 1..Len(queue),
                      queue[i] = queue[j]
               PROVE  i = j
    OBVIOUS
  <2>1. queue[i] \in Nat /\ queue[j] \in Nat
    BY QueueTypes DEF QueueInv
  <2>2. /\ i < j => queue[i] < queue[j]
        /\ j < i => queue[j] < queue[i]
    BY QueueTypes DEF QueueInv
  <2> QED BY <2>1, <2>2
<1>3. \A m \in ToSet(queue) : \E i \in 1..Len(queue) : queue[i] = m
  BY QueueTypes DEF ToSet
<1>4. ExistsBijection(1..Len(queue), ToSet(queue))
  <2>1. queue \in Injection(1..Len(queue), ToSet(queue))
    <3>1. DOMAIN queue = 1..Len(queue)
      BY <1>1
    <3> QED BY <1>1, <1>2, <3>1, Zenon DEF Injection, IsInjective
  <2>2. queue \in Surjection(1..Len(queue), ToSet(queue))
    BY <1>1, <1>3, Zenon DEF Surjection
  <2> QED BY <2>1, <2>2, Zenon DEF ExistsBijection, Bijection
<1>5. IsFiniteSet(1..Len(queue)) /\ Cardinality(1..Len(queue)) = Len(queue)
  <2>1. PICK n : n = Len(queue)
    OBVIOUS
  <2>2. n \in Nat /\ n \in Int /\ 1 \in Int
    BY <1>1, <2>1
  <2>3. IsFiniteSet(1..n) /\ Cardinality(1..n) = IF 1 > n THEN 0 ELSE n - 1 + 1
    BY <2>2, FS_Interval, Zenon
  <2>4. Cardinality(1..n) = n
    BY <2>2, <2>3
  <2> QED BY <2>1, <2>3, <2>4, Zenon
<1> QED BY <1>4, <1>5, FS_Bijection

\* A set is split in two by another one.
LEMMA SplitCardinality ==
    ASSUME NEW S, NEW T, IsFiniteSet(S)
    PROVE  /\ Cardinality(S) = Cardinality(S \ T) + Cardinality(S \cap T)
           /\ Cardinality(S \ T) \in Nat /\ Cardinality(S \cap T) \in Nat
<1>1. IsFiniteSet(S \ T) /\ IsFiniteSet(S \cap T)
  BY FS_Subset
<1>2. Cardinality((S \ T) \cup (S \cap T))
          = Cardinality(S \ T) + Cardinality(S \cap T) - Cardinality((S \ T) \cap (S \cap T))
  BY <1>1, FS_Union
<1>3. (S \ T) \cup (S \cap T) = S /\ (S \ T) \cap (S \cap T) = {}
  OBVIOUS
<1>4. Cardinality(S \ T) \in Nat /\ Cardinality(S \cap T) \in Nat
  BY <1>1, FS_CardinalityType
<1>5. Cardinality(S) = Cardinality(S \ T) + Cardinality(S \cap T) - 0
  BY <1>2, <1>3, FS_EmptySet, Zenon
<1>6. \A m, n \in Nat : m + n - 0 = m + n
  OBVIOUS
<1> QED BY <1>4, <1>5, <1>6, Zenon

\* pop_back removes a message that back() may not have returned.  Whatever the
\* interleaving, the messages that were never broadcast are then as many as the
\* broadcasts that repeated one or that announced one still on the queue.
THEOREM SkippedAreRepeated == Spec => []SkippedForRepeated
<1>1. Init => IInv
  BY FeedInit
<1>2. IInv /\ [Next]_vars => IInv'
  BY FeedStep
<1>3. ASSUME IInv PROVE SkippedForRepeated
  <2> SUFFICES ASSUME ~torn, wpc = "poll"
               PROVE  Cardinality(Gone \ ToSet(broadcast)) + Cardinality(ToSet(broadcast))
                          = Len(broadcast)
                            + Cardinality(ToSet(broadcast) \cap ToSet(queue))
    BY DEF SkippedForRepeated
  <2> USE <1>3 DEF IInv
  <2> DEFINE All == 1..arrived
             Queued == ToSet(queue)
             Told == ToSet(broadcast)
  <2>1. /\ IsFiniteSet(All) /\ Cardinality(All) = arrived
        /\ IsFiniteSet(Queued) /\ Cardinality(Queued) = Len(queue)
    <3>1. arrived \in Nat /\ 1 \in Int /\ arrived \in Int
      BY QueueTypes
    <3>2. IsFiniteSet(1..arrived) /\ Cardinality(1..arrived) = arrived
      BY <3>1, FS_Interval
    <3> QED BY <3>2, QueueCounts
  <2>2. Queued \subseteq All /\ Told \subseteq All
    BY QueueTypes DEF QueueInv, ToSet
  <2>3. Len(broadcast) + Len(queue) = arrived
    BY QueueTypes DEF QueueInv, Owing
  <2>4. IsFiniteSet(Gone) /\ IsFiniteSet(Told)
    BY <2>1, <2>2, FS_Subset DEF Gone
  <2> HIDE DEF All, Queued, Told
  <2>5. Gone = All \ Queued /\ All \cap Queued = Queued /\ Gone \cap Told = Told \ Queued
    BY <2>2 DEF Gone, All, Queued
  <2>6. Cardinality(All) = Cardinality(Gone) + Cardinality(Queued)
    BY <2>1, <2>5, SplitCardinality
  <2>7. /\ Cardinality(Gone) = Cardinality(Gone \ Told) + Cardinality(Gone \cap Told)
        /\ Cardinality(Gone \ Told) \in Nat /\ Cardinality(Gone \cap Told) \in Nat
    BY <2>4, SplitCardinality
  <2>8. /\ Cardinality(Told) = Cardinality(Told \ Queued) + Cardinality(Told \cap Queued)
        /\ Cardinality(Told \ Queued) \in Nat /\ Cardinality(Told \cap Queued) \in Nat
    BY <2>4, SplitCardinality
  <2>9. Cardinality(Gone \ Told) + Cardinality(Told)
            = Len(broadcast) + Cardinality(Told \cap Queued)
    <3>1. Cardinality(Gone \cap Told) = Cardinality(Told \ Queued)
      BY <2>5, Zenon
    <3> DEFINE gt == Cardinality(Gone \ Told)
               tq == Cardinality(Told \ Queued)
               tk == Cardinality(Told \cap Queued)
    <3>2. gt + tq + Len(queue) = Len(broadcast) + Len(queue)
      BY <2>1, <2>3, <2>6, <2>7, <3>1, Zenon
    <3>3. gt \in Nat /\ tq \in Nat /\ tk \in Nat /\ Len(broadcast) \in Nat /\ Len(queue) \in Nat
      BY <2>7, <2>8, QueueTypes
    <3>4. gt + (tq + tk) = Len(broadcast) + tk
      <4> HIDE DEF gt, tq, tk
      <4> QED BY <3>2, <3>3
    <3> QED BY <2>8, <3>4, Zenon
  <2> QED BY <2>9 DEF Told, Queued
<1> QED BY <1>1, <1>2, <1>3, PTL DEF Spec

=============================================================================
