---------------------------- MODULE EventsProofs ----------------------------
(***************************************************************************)
(* AtMostOnce and FanOut for any number of events, servers and agents, any *)
(* batch size and any trimming of the stream.  An event has one place in   *)
(* the stream, because it is stamped once and published once; the group's  *)
(* cursor passes that place once; and what one listener took is in no      *)
(* other batch.                                                            *)
(***************************************************************************)
EXTENDS Events, SequenceTheorems, FiniteSetTheorems, TLAPS

\* An event is in one place: the stream, a publishing source or the future.
StampedOnce ==
  /\ \A i \in 1 .. Len(stream) :
       stream[i] <= emitted /\ \A j \in 1 .. Len(stream) : stream[i] = stream[j] => i = j
  /\ \A s \in Servers : source[s].event <= emitted
  /\ \A s \in Servers : source[s].event # 0 =>
       /\ \A i \in 1 .. Len(stream) : stream[i] # source[s].event
       /\ \A t \in Servers : source[t].event = source[s].event => t = s

\* A delivered event is in at most one batch, and there only until it has ended.
DeliveredOnce ==
  /\ \A s \in Servers : Handling(s) => listener[s].batch # <<>>
  /\ \A s \in Servers : \A i \in DOMAIN listener[s].batch :
       /\ listener[s].batch[i] \in Read
       /\ ended[listener[s].batch[i]] = "unread"
       /\ \A t \in Servers : \A j \in DOMAIN listener[t].batch :
            listener[s].batch[i] = listener[t].batch[j] => s = t /\ i = j
  /\ \A e \in Events \ Read : settled[e] = 0 /\ ended[e] = "unread"

\* Only the head of a batch may have been settled, once it has been resolved.
SettledOnce ==
  /\ \A e \in Events : settled[e] <= 1
  /\ \A s \in Servers : \A i \in DOMAIN listener[s].batch :
       i > 1 \/ listener[s].pc \notin {"resolved", "fanout"} => settled[listener[s].batch[i]] = 0
  /\ \A s \in Servers : listener[s].pc \in {"resolved", "fanout"} => settled[Event(s)] # 0

Reached(e) == {<<m[2], m[3]>> : m \in {n \in messages : n[1] = e}}

\* What an event was aimed at is what it has reached and what is still to do.
AimedAndReached ==
  /\ \A e \in Events : Reached(e) \subseteq aimed[e]
  /\ \A e \in Events : settled[e] = 0 => aimed[e] = {}
  /\ \A e \in Events : ended[e] = "handled" => Reached(e) = aimed[e]
  /\ \A s \in Servers : listener[s].pc = "resolved" => aimed[Event(s)] = {}
  /\ \A s \in Servers : listener[s].pc = "fanout" => aimed[Event(s)] = listener[s].todo \cup Reached(Event(s))

EventInv == TypeOK /\ StampedOnce /\ DeliveredOnce /\ SettledOnce /\ AimedAndReached

-----------------------------------------------------------------------------

LEMMA Typed ==
  ASSUME TypeOK
  PROVE  /\ emitted \in 0 .. NumEvents /\ stream \in Seq(Events) /\ cursor \in 0 .. Len(stream)
         /\ Len(stream) \in Nat /\ \A i \in 1 .. Len(stream) : stream[i] \in Events
         /\ \A s \in Servers :
              /\ source[s].event \in 0 .. NumEvents /\ source[s].pc \in {"off", "waiting", "publishing"}
              /\ listener[s] \in Listener
              /\ listener[s].pc \in ListenerPC /\ listener[s].batch \in Seq(Events)
              /\ listener[s].todo \subseteq Agents \X Protocols
              /\ Len(listener[s].batch) \in Nat
              /\ DOMAIN listener[s].batch = 1 .. Len(listener[s].batch)
              /\ \A i \in DOMAIN listener[s].batch : listener[s].batch[i] \in Events
<1>1. stream \in Seq(Events) /\ Len(stream) \in Nat /\ cursor \in 0 .. Len(stream)
  BY DEF TypeOK
<1>2. \A i \in 1 .. Len(stream) : stream[i] \in Events
  BY <1>1
<1>3. ASSUME NEW s \in Servers
      PROVE  /\ source[s].event \in 0 .. NumEvents /\ source[s].pc \in {"off", "waiting", "publishing"}
             /\ listener[s] \in Listener
             /\ listener[s].pc \in ListenerPC /\ listener[s].batch \in Seq(Events)
             /\ listener[s].todo \subseteq Agents \X Protocols
  <2>1. source[s] \in [pc: {"off", "waiting", "publishing"}, event: 0 .. NumEvents] /\ listener[s] \in Listener
    BY DEF TypeOK
  <2> QED BY <2>1 DEF Listener
<1>4. ASSUME NEW s \in Servers
      PROVE  /\ Len(listener[s].batch) \in Nat
             /\ DOMAIN listener[s].batch = 1 .. Len(listener[s].batch)
             /\ \A i \in DOMAIN listener[s].batch : listener[s].batch[i] \in Events
  <2>1. listener[s].batch \in Seq(Events)
    BY <1>3
  <2> QED BY <2>1, LenProperties
<1> QED BY <1>1, <1>2, <1>3, <1>4 DEF TypeOK

\* The head of a batch and what is left of it.
LEMMA HeadOfBatch ==
  ASSUME TypeOK, NEW s \in Servers, listener[s].batch # <<>>
  PROVE  /\ 1 \in DOMAIN listener[s].batch /\ Event(s) = listener[s].batch[1] /\ Event(s) \in Events
         /\ Tail(listener[s].batch) \in Seq(Events)
         /\ \A i \in DOMAIN Tail(listener[s].batch) :
              i + 1 \in DOMAIN listener[s].batch /\ Tail(listener[s].batch)[i] = listener[s].batch[i + 1] /\ i + 1 > 1
<1> DEFINE b == listener[s].batch
<1>1. b \in Seq(Events) /\ Len(b) \in Nat /\ DOMAIN b = 1 .. Len(b)
  BY Typed
<1>2. Len(b) # 0
  BY <1>1, EmptySeq
<1>3. Head(b) = b[1]
  BY <1>1, <1>2
<1>4. /\ Tail(b) \in Seq(Events) /\ Len(Tail(b)) = Len(b) - 1
      /\ \A i \in 1 .. Len(Tail(b)) : Tail(b)[i] = b[i + 1]
  BY <1>1, HeadTailProperties
<1>5. DOMAIN Tail(b) = 1 .. Len(Tail(b))
  BY <1>4, LenProperties
<1>6. Event(s) = b[1] /\ b[1] \in Events
  BY <1>1, <1>2, <1>3, Typed DEF Event
<1> QED BY <1>1, <1>2, <1>4, <1>5, <1>6

LEMMA DownTyped == Down \in Listener /\ \A n \in 0 .. MaxStarts : [Down EXCEPT !.starts = n] \in Listener
<1>1. NoRow \in Row
  BY EventsAssumption DEF NoRow, Row
<1>2. <<>> \in Seq(Events) /\ {} \in SUBSET (Agents \X Protocols) /\ "down" \in ListenerPC /\ 0 \in 0 .. MaxStarts
  BY EventsAssumption DEF ListenerPC
<1> QED BY <1>1, <1>2 DEF Down, Listener

LEMMA InitEventInv == Init => EventInv
<1> SUFFICES ASSUME Init PROVE EventInv
  OBVIOUS
<1> USE DEF Init
<1>1. stream = <<>> /\ Len(stream) = 0 /\ \A s \in Servers : listener[s] = Down /\ Down.batch = <<>> /\ DOMAIN Down.batch = {}
  BY DEF Down
<1>2. Down \in Listener
  BY DownTyped
<1>3. TypeOK
  <2>1. <<>> \in Seq(Events) /\ <<>> \in Seq(Row)
    OBVIOUS
  <2>2. emitted \in 0 .. NumEvents /\ \A s \in Servers : source[s] = [pc |-> "off", event |-> 0]
    BY EventsAssumption
  <2>3. source \in [Servers -> [pc: {"off", "waiting", "publishing"}, event: 0 .. NumEvents]]
    BY EventsAssumption
  <2>4. listener \in [Servers -> Listener] /\ rows \in [Keys -> Seq(Row)]
    BY <1>2, <2>1
  <2>5. stream \in Seq(Events) /\ oldest \in 1 .. Len(stream) + 1 /\ cursor \in 0 .. Len(stream)
    BY <1>1, <2>1
  <2>6. settled \in [Events -> Nat] /\ ended \in [Events -> Endings] /\ aimed \in [Events -> SUBSET (Agents \X Protocols)]
    BY DEF Endings
  <2> QED BY <2>2, <2>3, <2>4, <2>5, <2>6 DEF TypeOK
<1>4. StampedOnce
  BY <1>1, EventsAssumption DEF StampedOnce
<1>5. DeliveredOnce
  BY <1>1 DEF DeliveredOnce, Read, Handling, Down
<1>6. SettledOnce
  BY <1>1 DEF SettledOnce, Down
<1>7. AimedAndReached
  BY <1>1 DEF AimedAndReached, Reached, Down
<1> QED BY <1>3, <1>4, <1>5, <1>6, <1>7 DEF EventInv

-----------------------------------------------------------------------------

\* Sources only add to the end of the stream: nothing that was delivered changes.
LEMMA SourcesKeep ==
  ASSUME EventInv, TypeOK', StampedOnce',
         UNCHANGED <<cursor, listener, messages, settled, ended, aimed>>,
         Len(stream) <= Len(stream'), \A i \in 1 .. Len(stream) : stream'[i] = stream[i]
  PROVE  EventInv'
<1> USE DEF EventInv
<1>1. Read' = Read
  BY Typed DEF Read
<1>2. DeliveredOnce'
  BY <1>1 DEF DeliveredOnce, Handling
<1>3. SettledOnce'
  BY DEF SettledOnce, Event
<1>4. AimedAndReached'
  BY DEF AimedAndReached, Reached, Event
<1> QED BY <1>2, <1>3, <1>4

\* Publish appends, or does nothing.
LEMMA PublishAppends ==
  ASSUME TypeOK, NEW e \in Events, Publish(e)
  PROVE  /\ cursor' = cursor /\ stream' \in Seq(Events) /\ oldest' \in 1 .. Len(stream') + 1
         /\ cursor \in 0 .. Len(stream')
         /\ Len(stream) <= Len(stream') /\ \A i \in 1 .. Len(stream) : stream'[i] = stream[i]
         /\ \/ stream' = stream
            \/ Len(stream') = Len(stream) + 1 /\ stream'[Len(stream) + 1] = e
<1>1. stream \in Seq(Events) /\ Len(stream) \in Nat /\ cursor \in 0 .. Len(stream) /\ oldest \in 1 .. Len(stream) + 1
  BY Typed DEF TypeOK
<1>2. CASE UNCHANGED streamVars
  BY <1>1, <1>2 DEF streamVars
<1>3. CASE /\ stream' = Append(stream, e) /\ UNCHANGED cursor
           /\ oldest' \in {i \in oldest .. Len(stream) + 1 : i = oldest \/ Len(stream) + 2 - i >= MaxLen}
  <2>1. /\ stream' \in Seq(Events) /\ Len(stream') = Len(stream) + 1
        /\ \A i \in 1 .. Len(stream) : stream'[i] = stream[i]
        /\ stream'[Len(stream) + 1] = e
    BY <1>1, <1>3
  <2> QED BY <1>1, <1>3, <2>1
<1> QED BY <1>2, <1>3 DEF Publish

LEMMA StopKeeps ==
  ASSUME EventInv, NEW s \in Servers, Stop(s)
  PROVE  EventInv'
<1> USE DEF EventInv
<1> DEFINE b == listener[s].batch
           l == [Down EXCEPT !.starts = listener[s].starts]
<1>1. /\ listener' = [listener EXCEPT ![s] = l] /\ UNCHANGED <<emitted, streamVars, configured, rows, messages, settled, aimed, disturbed>>
      /\ ended' = [e \in Events |-> IF \E i \in DOMAIN b : b[i] = e THEN "lost" ELSE ended[e]]
  BY DEF Stop
<1>2. l \in Listener /\ l.batch = <<>> /\ l.pc = "down" /\ DOMAIN l.batch = {}
  <2>1. listener[s].starts \in 0 .. MaxStarts
    BY Typed DEF Listener
  <2>2. l \in Listener
    BY <2>1, DownTyped
  <2>3. l.batch = <<>> /\ l.pc = "down" /\ DOMAIN <<>> = {}
    BY DEF Down
  <2> QED BY <2>2, <2>3
<1>3. /\ listener'[s] = l /\ \A t \in Servers \ {s} : listener'[t] = listener[t]
      /\ listener' \in [Servers -> Listener]
  <2> HIDE DEF l
  <2> QED BY <1>1, <1>2 DEF TypeOK
<1> HIDE DEF l
<1>4. \A t \in Servers : source'[t] = source[t] \/ source'[t] = [pc |-> "off", event |-> 0]
  BY DEF Stop, TypeOK
<1>5. source' \in [Servers -> [pc: {"off", "waiting", "publishing"}, event: 0 .. NumEvents]]
  BY <1>4, EventsAssumption DEF Stop, TypeOK
<1>6. TypeOK'
  <2>1. ended' \in [Events -> Endings]
    BY <1>1 DEF TypeOK, Endings
  <2>2. \A t \in Servers : source'[t].pc = "publishing" <=> source'[t].event # 0
    <3> SUFFICES ASSUME NEW t \in Servers PROVE source'[t].pc = "publishing" <=> source'[t].event # 0
      OBVIOUS
    <3>1. CASE source'[t] = source[t]
      BY <3>1 DEF TypeOK
    <3>2. CASE source'[t] = [pc |-> "off", event |-> 0]
      BY <3>2
    <3> QED BY <1>4, <3>1, <3>2
  <2> QED BY <1>1, <1>3, <1>5, <2>1, <2>2 DEF TypeOK, streamVars
<1>7. StampedOnce'
  <2>1. \A t \in Servers : source'[t].event = source[t].event \/ source'[t].event = 0
    BY <1>4
  <2> QED BY <1>1, <2>1, Typed DEF StampedOnce, streamVars
<1>8. DeliveredOnce'
  <2>1. Read' = Read
    BY <1>1 DEF Read, streamVars
  <2>2. \A t \in Servers : Handling(t)' => listener'[t].batch # <<>>
    BY <1>2, <1>3 DEF DeliveredOnce, Handling
  <2>3. \A e \in Events : (\A i \in DOMAIN b : b[i] # e) => ended'[e] = ended[e]
    BY <1>1
  <2>4. \A e \in Events \ Read : settled[e] = 0 /\ ended'[e] = "unread"
    BY <2>3 DEF DeliveredOnce
  <2>5. ASSUME NEW t \in Servers, NEW i \in DOMAIN listener'[t].batch
        PROVE  /\ listener'[t].batch[i] \in Read
               /\ ended'[listener'[t].batch[i]] = "unread"
               /\ \A u \in Servers : \A j \in DOMAIN listener'[u].batch :
                    listener'[t].batch[i] = listener'[u].batch[j] => t = u /\ i = j
    <3>1. t # s /\ listener'[t] = listener[t]
      BY <1>2, <1>3, <2>5
    <3>2. \A j \in DOMAIN b : b[j] # listener[t].batch[i]
      BY <2>5, <3>1 DEF DeliveredOnce
    <3>3. listener[t].batch[i] \in Events
      BY <2>5, <3>1, Typed
    <3> QED BY <1>2, <1>3, <2>3, <2>5, <3>1, <3>2, <3>3 DEF DeliveredOnce
  <2> QED BY <1>1, <2>1, <2>2, <2>4, <2>5 DEF DeliveredOnce
<1>9. SettledOnce'
  BY <1>1, <1>2, <1>3 DEF SettledOnce, Event
<1>10. AimedAndReached'
  BY <1>1, <1>2, <1>3 DEF AimedAndReached, Reached, Event
<1> QED BY <1>6, <1>7, <1>8, <1>9, <1>10

\* A listener that keeps its batch and stays short of resolving, or starts anew.
LEMMA ListenerKeeps ==
  ASSUME EventInv, NEW s \in Servers, NEW l \in Listener,
         listener' = [listener EXCEPT ![s] = l],
         UNCHANGED <<emitted, streamVars, configured, rows, messages, settled, ended, aimed, disturbed>>,
         source' \in [Servers -> [pc: {"off", "waiting", "publishing"}, event: 0 .. NumEvents]],
         \A t \in Servers : source'[t].event = source[t].event,
         \A t \in Servers : source'[t].pc = "publishing" <=> source'[t].event # 0,
         l.batch \in {<<>>, listener[s].batch},
         l.pc \in {"loop", "resolving"}, l.pc = "resolving" => l.batch # <<>>,
         listener[s].pc \notin {"resolved", "fanout"}
  PROVE  EventInv'
<1> USE DEF EventInv
<1>1. /\ listener'[s] = l /\ \A t \in Servers \ {s} : listener'[t] = listener[t]
      /\ listener' \in [Servers -> Listener]
  BY DEF TypeOK
<1>2. TypeOK'
  BY <1>1 DEF TypeOK, streamVars
<1>a. emitted' = emitted /\ stream' = stream /\ cursor' = cursor
  BY DEF streamVars
<1>3. StampedOnce'
  <2>1. \A i \in 1 .. Len(stream') :
          stream'[i] <= emitted' /\ \A j \in 1 .. Len(stream') : stream'[i] = stream'[j] => i = j
    BY <1>a DEF StampedOnce
  <2>2. \A t \in Servers : source'[t].event <= emitted'
    BY <1>a DEF StampedOnce
  <2>3. \A t \in Servers : source'[t].event # 0 =>
          /\ \A i \in 1 .. Len(stream') : stream'[i] # source'[t].event
          /\ \A u \in Servers : source'[u].event = source'[t].event => u = t
    BY <1>a DEF StampedOnce
  <2> QED BY <2>1, <2>2, <2>3 DEF StampedOnce
<1>4. /\ \A t \in Servers : DOMAIN listener'[t].batch \subseteq DOMAIN listener[t].batch
      /\ \A t \in Servers : \A i \in DOMAIN listener'[t].batch : listener'[t].batch[i] = listener[t].batch[i]
  <2>1. DOMAIN l.batch \subseteq DOMAIN listener[s].batch /\ \A i \in DOMAIN l.batch : l.batch[i] = listener[s].batch[i]
    <3>1. CASE l.batch = <<>>
      <4>1. DOMAIN l.batch = {}
        BY <3>1
      <4> QED BY <4>1
    <3>2. CASE l.batch = listener[s].batch
      BY <3>2
    <3> QED BY <3>1, <3>2
  <2> QED BY <1>1, <2>1
<1>5. DeliveredOnce'
  <2>1. Read' = Read
    BY DEF Read, streamVars
  <2>2. \A t \in Servers : Handling(t)' => listener'[t].batch # <<>>
    BY <1>1 DEF DeliveredOnce, Handling
  <2>3. \A t \in Servers : \A i \in DOMAIN listener'[t].batch :
          /\ listener'[t].batch[i] \in Read
          /\ ended'[listener'[t].batch[i]] = "unread"
          /\ \A u \in Servers : \A j \in DOMAIN listener'[u].batch :
               listener'[t].batch[i] = listener'[u].batch[j] => t = u /\ i = j
    BY <1>4 DEF DeliveredOnce
  <2> QED BY <2>1, <2>2, <2>3 DEF DeliveredOnce
<1>6. SettledOnce'
  <2>1. \A t \in Servers : \A i \in DOMAIN listener'[t].batch :
          i > 1 \/ listener'[t].pc \notin {"resolved", "fanout"} => settled[listener'[t].batch[i]] = 0
    BY <1>1, <1>4 DEF SettledOnce
  <2>2. \A t \in Servers : listener'[t].pc \in {"resolved", "fanout"} => settled[Event(t)'] # 0
    BY <1>1 DEF SettledOnce, Event
  <2> QED BY <2>1, <2>2 DEF SettledOnce
<1>7. AimedAndReached'
  <2>1. \A e \in Events : Reached(e)' = Reached(e)
    BY DEF Reached
  <2>2. \A t \in Servers : listener'[t].pc \in {"resolved", "fanout"} => listener'[t] = listener[t]
    BY <1>1
  <2>3. \A t \in Servers : listener'[t] = listener[t] => Event(t)' = Event(t) /\ Reached(Event(t))' = Reached(Event(t))
    BY DEF Event, Reached
  <2> QED BY <2>1, <2>2, <2>3 DEF AimedAndReached
<1> QED BY <1>2, <1>3, <1>5, <1>6, <1>7

\* The cursor moves past what is read, which was in no batch and is settled nowhere.
LEMMA ReadBatchKeeps ==
  ASSUME EventInv, NEW s \in Servers, ReadBatch(s)
  PROVE  EventInv'
<1> USE DEF EventInv
<1>1. PICK first \in NextBatch, last \in NextBatch :
        /\ NextBatch \subseteq first .. last
        /\ cursor' = last
        /\ \/ /\ listener' = [listener EXCEPT ![s].batch = SubSeq(stream, first, last)]
              /\ UNCHANGED ended
           \/ /\ ended' = [e \in Events |-> IF \E i \in DOMAIN SubSeq(stream, first, last) : SubSeq(stream, first, last)[i] = e
                                             THEN "lost" ELSE ended[e]]
              /\ UNCHANGED listener
  BY DEF ReadBatch
<1>2. /\ listener[s].pc = "loop" /\ listener[s].batch = <<>>
      /\ UNCHANGED <<sourceVars, stream, oldest, rows, messages, settled, aimed, disturbed>>
  BY DEF ReadBatch
<1> DEFINE b == SubSeq(stream, first, last)
<1>3. /\ first \in Int /\ last \in Int /\ cursor < first /\ first <= last /\ last <= Len(stream) /\ first >= 1
      /\ cursor \in Nat /\ Len(stream) \in Nat
  BY <1>1, Typed DEF NextBatch, Undelivered
<1>4. /\ b \in Seq(Events) /\ Len(b) = last - first + 1
      /\ \A i \in 1 .. last - first + 1 : b[i] = stream[first + i - 1]
  <2>1. \A i \in first .. last : stream[i] \in Events
    BY <1>3, Typed
  <2> QED BY <1>3, <2>1, SubSeqProperties
<1>5. DOMAIN b = 1 .. last - first + 1
  BY <1>4, LenProperties
<1> HIDE DEF b
<1>6. \A i \in DOMAIN b : /\ first + i - 1 \in 1 .. last /\ first + i - 1 > cursor
                          /\ first + i - 1 \in 1 .. Len(stream) /\ b[i] = stream[first + i - 1]
                          /\ b[i] \in Events
  BY <1>3, <1>4, <1>5, Typed
<1>7. Read \subseteq Read' /\ \A i \in DOMAIN b : b[i] \in Read' /\ b[i] \notin Read
  <2>1. \A j \in 1 .. cursor : j \in 1 .. last /\ j \in 1 .. Len(stream)
    BY <1>3
  <2>2. \A i \in DOMAIN b : \A j \in 1 .. cursor : stream[j] # b[i]
    BY <1>3, <1>6, <2>1 DEF StampedOnce
  <2> QED BY <1>1, <1>2, <1>6, <2>1, <2>2 DEF Read
<1>8. \A i \in DOMAIN b : /\ settled[b[i]] = 0 /\ ended[b[i]] = "unread"
                          /\ \A j \in DOMAIN b : b[i] = b[j] => i = j
  <2>1. \A i \in DOMAIN b : \A j \in DOMAIN b : b[i] = b[j] => first + i - 1 = first + j - 1
    BY <1>6 DEF StampedOnce
  <2>2. \A i \in DOMAIN b : i \in Int
    BY <1>5
  <2>3. \A i \in DOMAIN b : \A j \in DOMAIN b : b[i] = b[j] => i = j
    BY <1>3, <2>1, <2>2
  <2> QED BY <1>6, <1>7, <2>3 DEF DeliveredOnce
<1>9. \A t \in Servers : \A j \in DOMAIN listener[t].batch : listener[t].batch[j] \in Read
  BY DEF DeliveredOnce
<1>10. StampedOnce'
  BY <1>2 DEF StampedOnce, sourceVars
<1>11. CASE listener' = [listener EXCEPT ![s].batch = b] /\ UNCHANGED ended
  <2> DEFINE l == [listener[s] EXCEPT !.batch = b]
  <2>1. l \in Listener /\ l.batch = b /\ l.pc = "loop"
    BY <1>2, <1>4, Typed DEF Listener
  <2>2. listener' = [listener EXCEPT ![s] = l]
    BY <1>11
  <2> HIDE DEF l
  <2>3. /\ listener'[s] = l /\ \A t \in Servers \ {s} : listener'[t] = listener[t]
        /\ listener' \in [Servers -> Listener]
    BY <2>1, <2>2 DEF TypeOK
  <2>4. TypeOK'
    BY <1>1, <1>2, <1>3, <1>11, <2>3 DEF TypeOK, sourceVars
  <2>5. DeliveredOnce'
    <3>1. \A t \in Servers : Handling(t)' => listener'[t].batch # <<>>
      BY <2>1, <2>3 DEF DeliveredOnce, Handling
    <3>2. ASSUME NEW t \in Servers, NEW i \in DOMAIN listener'[t].batch
          PROVE  /\ listener'[t].batch[i] \in Read'
                 /\ ended[listener'[t].batch[i]] = "unread"
                 /\ \A u \in Servers : \A j \in DOMAIN listener'[u].batch :
                      listener'[t].batch[i] = listener'[u].batch[j] => t = u /\ i = j
      <4>1. CASE t = s
        <5>1. i \in DOMAIN b /\ listener'[t].batch[i] = b[i]
          BY <2>1, <2>3, <3>2, <4>1
        <5>2. ASSUME NEW u \in Servers \ {s}, NEW j \in DOMAIN listener'[u].batch
              PROVE  listener'[u].batch[j] # b[i]
          BY <1>7, <1>9, <2>3, <5>1, <5>2
        <5> QED BY <1>7, <1>8, <2>1, <2>3, <4>1, <5>1, <5>2
      <4>2. CASE t # s
        <5>1. listener'[t] = listener[t] /\ i \in DOMAIN listener[t].batch
          BY <2>3, <3>2, <4>2
        <5>2. \A j \in DOMAIN b : listener[t].batch[i] # b[j]
          BY <1>7, <1>9, <5>1
        <5> QED BY <1>7, <2>1, <2>3, <4>2, <5>1, <5>2 DEF DeliveredOnce
      <4> QED BY <4>1, <4>2
    <3>3. \A e \in Events \ Read' : settled[e] = 0 /\ ended[e] = "unread"
      BY <1>7 DEF DeliveredOnce
    <3> QED BY <1>2, <1>11, <3>1, <3>2, <3>3 DEF DeliveredOnce
  <2>6. SettledOnce'
    <3>1. \A t \in Servers : \A i \in DOMAIN listener'[t].batch :
            i > 1 \/ listener'[t].pc \notin {"resolved", "fanout"} => settled[listener'[t].batch[i]] = 0
      BY <1>8, <2>1, <2>3 DEF SettledOnce
    <3>2. \A t \in Servers : listener'[t].pc \in {"resolved", "fanout"} => settled[Event(t)'] # 0
      BY <2>1, <2>3 DEF SettledOnce, Event
    <3> QED BY <1>2, <3>1, <3>2 DEF SettledOnce
  <2>7. AimedAndReached'
    BY <1>2, <1>11, <2>1, <2>3 DEF AimedAndReached, Reached, Event
  <2> QED BY <1>10, <2>4, <2>5, <2>6, <2>7
<1>12. CASE /\ ended' = [e \in Events |-> IF \E i \in DOMAIN b : b[i] = e THEN "lost" ELSE ended[e]]
            /\ UNCHANGED listener
  <2>1. TypeOK'
    <3>1. ended' \in [Events -> Endings]
      BY <1>12 DEF TypeOK, Endings
    <3> QED BY <1>1, <1>2, <1>3, <1>12, <3>1 DEF TypeOK, sourceVars
  <2>2. DeliveredOnce'
    <3>1. \A e \in Events : e \in Read \/ e \notin Read' => ended'[e] = ended[e]
      BY <1>7, <1>12
    <3>2. \A t \in Servers : \A i \in DOMAIN listener[t].batch : ended'[listener[t].batch[i]] = "unread"
      BY <1>9, <3>1, Typed DEF DeliveredOnce
    <3>3. \A e \in Events \ Read' : settled[e] = 0 /\ ended'[e] = "unread"
      BY <1>7, <3>1 DEF DeliveredOnce
    <3> QED BY <1>2, <1>7, <1>9, <1>12, <3>2, <3>3 DEF DeliveredOnce, Handling
  <2>3. SettledOnce'
    BY <1>2, <1>12 DEF SettledOnce, Event
  <2>4. AimedAndReached'
    <3>1. \A e \in Events : ended'[e] = "handled" => ended[e] = "handled"
      BY <1>12
    <3> QED BY <1>2, <1>12, <3>1 DEF AimedAndReached, Reached, Event
  <2> QED BY <1>10, <2>1, <2>2, <2>3, <2>4
<1> QED BY <1>1, <1>11, <1>12 DEF b

\* The head of the batch is done with, however it ended.
LEMMA NextEventKeeps ==
  ASSUME EventInv, NEW s \in Servers, listener[s].batch # <<>>, NEW ending \in Endings,
         ending = "handled" => Reached(Event(s)) = aimed[Event(s)],
         listener' = [listener EXCEPT ![s] = NextEvent(s)],
         ended' = [ended EXCEPT ![Event(s)] = ending],
         UNCHANGED <<sourceVars, streamVars, rows, messages, settled, aimed, disturbed>>
  PROVE  EventInv'
<1> USE DEF EventInv
<1> DEFINE l == NextEvent(s)
           b == listener[s].batch
           e == b[1]
<1>1. l \in Listener /\ l.batch = Tail(b) /\ l.pc = "loop"
  <2>1. NoRow \in Row /\ {} \in SUBSET (Agents \X Protocols)
    BY EventsAssumption DEF NoRow, Row
  <2>2. listener[s] \in Listener /\ Tail(b) \in Seq(Events) /\ "loop" \in ListenerPC
    BY Typed, HeadOfBatch DEF ListenerPC
  <2> HIDE DEF b
  <2>3. \A x \in Listener, y \in Seq(Events) :
          LET z == [x EXCEPT !.pc = "loop", !.batch = y, !.seenRow = 0, !.seen = NoRow, !.todo = {}]
          IN  z \in Listener /\ z.batch = y /\ z.pc = "loop"
    BY <2>1, <2>2 DEF Listener
  <2>4. l = [listener[s] EXCEPT !.pc = "loop", !.batch = Tail(b), !.seenRow = 0, !.seen = NoRow, !.todo = {}]
    BY <2>2 DEF NextEvent, b, Listener
  <2> HIDE DEF l
  <2> QED BY <2>2, <2>3, <2>4
<1>2. listener' = [listener EXCEPT ![s] = l]
  OBVIOUS
<1> HIDE DEF l
<1>3. /\ listener'[s] = l /\ \A t \in Servers \ {s} : listener'[t] = listener[t]
      /\ listener' \in [Servers -> Listener]
  BY <1>1, <1>2 DEF TypeOK
<1>4. 1 \in DOMAIN b /\ Event(s) = e /\ e \in Events
  BY HeadOfBatch
<1>5. ended' \in [Events -> Endings] /\ ended'[e] = ending /\ \A f \in Events \ {e} : ended'[f] = ended[f]
  BY <1>4 DEF TypeOK
<1>6. TypeOK'
  BY <1>3, <1>5 DEF TypeOK, sourceVars, streamVars
<1>7. StampedOnce'
  BY DEF StampedOnce, sourceVars, streamVars
<1>8. \A i \in DOMAIN l.batch : i + 1 \in DOMAIN b /\ l.batch[i] = b[i + 1] /\ i + 1 > 1 /\ i \in Nat
  <2>1. DOMAIN Tail(b) = 1 .. Len(Tail(b)) /\ Len(Tail(b)) \in Nat
    BY HeadOfBatch, LenProperties
  <2> QED BY <1>1, <2>1, HeadOfBatch
<1>9. DeliveredOnce'
  <2>1. Read' = Read
    BY DEF Read, streamVars
  <2>2. \A t \in Servers : Handling(t)' => listener'[t].batch # <<>>
    BY <1>1, <1>3 DEF DeliveredOnce, Handling
  <2>3. \A f \in Events \ Read : settled[f] = 0 /\ ended'[f] = "unread"
    BY <1>4, <1>5 DEF DeliveredOnce
  <2>4. ASSUME NEW t \in Servers, NEW i \in DOMAIN listener'[t].batch
        PROVE  /\ listener'[t].batch[i] \in Read
               /\ listener'[t].batch[i] # e /\ listener'[t].batch[i] \in Events
               /\ ended[listener'[t].batch[i]] = "unread"
               /\ \A u \in Servers : \A j \in DOMAIN listener'[u].batch :
                    listener'[t].batch[i] = listener'[u].batch[j] => t = u /\ i = j
    <3>1. CASE t = s
      <4>1. i + 1 \in DOMAIN b /\ listener'[t].batch[i] = b[i + 1] /\ i + 1 > 1 /\ i \in Nat
        BY <1>3, <1>8, <2>4, <3>1
      <4>2. b[i + 1] \in Read /\ b[i + 1] # e /\ b[i + 1] \in Events /\ ended[b[i + 1]] = "unread"
        BY <1>4, <4>1, Typed DEF DeliveredOnce
      <4>3. ASSUME NEW u \in Servers, NEW j \in DOMAIN listener'[u].batch, b[i + 1] = listener'[u].batch[j]
            PROVE  u = s /\ i = j
        <5>1. CASE u = s
          <6>1. j + 1 \in DOMAIN b /\ listener'[u].batch[j] = b[j + 1] /\ j \in Nat
            BY <1>3, <1>8, <4>3, <5>1
          <6>2. i + 1 = j + 1
            BY <4>1, <4>3, <6>1 DEF DeliveredOnce
          <6> QED BY <4>1, <5>1, <6>1, <6>2
        <5>2. CASE u # s
          BY <1>3, <4>1, <4>3, <5>2 DEF DeliveredOnce
        <5> QED BY <5>1, <5>2
      <4> QED BY <3>1, <4>1, <4>2, <4>3
    <3>2. CASE t # s
      <4>1. listener'[t] = listener[t] /\ i \in DOMAIN listener[t].batch
        BY <1>3, <2>4, <3>2
      <4>2. /\ listener[t].batch[i] \in Read /\ ended[listener[t].batch[i]] = "unread"
            /\ listener[t].batch[i] \in Events /\ listener[t].batch[i] # e
        BY <1>4, <3>2, <4>1, Typed DEF DeliveredOnce
      <4>3. ASSUME NEW u \in Servers, NEW j \in DOMAIN listener'[u].batch, listener[t].batch[i] = listener'[u].batch[j]
            PROVE  t = u /\ i = j
        <5>1. u # s
          <6> SUFFICES ASSUME u = s PROVE FALSE
            OBVIOUS
          <6>1. j + 1 \in DOMAIN b /\ listener'[u].batch[j] = b[j + 1]
            BY <1>3, <1>8, <4>3
          <6> QED BY <3>2, <4>1, <4>3, <6>1 DEF DeliveredOnce
        <5> QED BY <1>3, <4>1, <4>3, <5>1 DEF DeliveredOnce
      <4> QED BY <4>1, <4>2, <4>3
    <3> QED BY <3>1, <3>2
  <2>5. \A t \in Servers : \A i \in DOMAIN listener'[t].batch : ended'[listener'[t].batch[i]] = "unread"
    BY <1>5, <2>4
  <2> QED BY <2>1, <2>2, <2>3, <2>4, <2>5 DEF DeliveredOnce
<1>10. SettledOnce'
  <2>1. \A t \in Servers : \A i \in DOMAIN listener'[t].batch :
          i > 1 \/ listener'[t].pc \notin {"resolved", "fanout"} => settled[listener'[t].batch[i]] = 0
    <3>1. \A i \in DOMAIN l.batch : settled[l.batch[i]] = 0
      BY <1>8 DEF SettledOnce
    <3> QED BY <1>3, <3>1 DEF SettledOnce
  <2>2. \A t \in Servers : listener'[t].pc \in {"resolved", "fanout"} => settled[Event(t)'] # 0
    BY <1>1, <1>3 DEF SettledOnce, Event
  <2> QED BY <2>1, <2>2 DEF SettledOnce
<1>11. AimedAndReached'
  <2>1. \A f \in Events : Reached(f)' = Reached(f)
    BY DEF Reached
  <2>2. \A f \in Events : ended'[f] = "handled" => Reached(f) = aimed[f]
    BY <1>4, <1>5 DEF AimedAndReached
  <2>3. \A t \in Servers : listener'[t].pc \in {"resolved", "fanout"} => listener'[t] = listener[t]
    BY <1>1, <1>3
  <2>4. \A t \in Servers : listener'[t] = listener[t] => Event(t)' = Event(t) /\ Reached(Event(t))' = Reached(Event(t))
    BY DEF Event, Reached
  <2> QED BY <2>1, <2>2, <2>3, <2>4 DEF AimedAndReached
<1> QED BY <1>6, <1>7, <1>9, <1>10, <1>11

-----------------------------------------------------------------------------

\* A step on the head of the batch, which stays: what holds of the others' events
\* and of the rest of the batch is as before.
LEMMA HeadStep ==
  ASSUME EventInv, NEW s \in Servers, Handling(s), NEW e \in Events, e = Event(s), NEW l \in Listener,
         l.batch = listener[s].batch, l.pc \in {"resolved", "fanout"},
         listener' = [listener EXCEPT ![s] = l],
         UNCHANGED <<sourceVars, streamVars, ended>>,
         \A f \in Events \ {e} : settled'[f] = settled[f] /\ aimed'[f] = aimed[f] /\ Reached(f)' = Reached(f),
         settled'[e] = 1,
         Reached(e)' \subseteq aimed'[e],
         l.pc = "resolved" => aimed'[e] = {},
         l.pc = "fanout" => aimed'[e] = l.todo \cup Reached(e)',
         TypeOK'
  PROVE  EventInv'
<1> USE DEF EventInv
<1> DEFINE b == listener[s].batch
<1>1. b # <<>>
  BY DEF DeliveredOnce
<1>2. 1 \in DOMAIN b /\ b[1] = e
  BY <1>1, HeadOfBatch
<1>3. listener'[s] = l /\ \A t \in Servers \ {s} : listener'[t] = listener[t]
  BY DEF TypeOK
<1>4. \A t \in Servers : listener'[t].batch = listener[t].batch /\ Event(t)' = Event(t)
  BY <1>3 DEF Event
<1>5. StampedOnce'
  BY DEF StampedOnce, sourceVars, streamVars
<1>6. e \in Read /\ ended[e] = "unread"
  BY <1>2 DEF DeliveredOnce
<1>7. DeliveredOnce'
  <2>1. Read' = Read
    BY DEF Read, streamVars
  <2>2. \A t \in Servers : Handling(t)' => listener'[t].batch # <<>>
    BY <1>1, <1>3 DEF DeliveredOnce, Handling
  <2>3. \A f \in Events \ Read : settled'[f] = 0 /\ ended[f] = "unread"
    BY <1>2, <1>6 DEF DeliveredOnce
  <2> QED BY <1>4, <2>1, <2>2, <2>3 DEF DeliveredOnce
<1>8. \A t \in Servers : t # s /\ Handling(t) => Event(t) # e /\ Event(t) \in Events
  <2> SUFFICES ASSUME NEW t \in Servers, t # s, Handling(t) PROVE Event(t) # e /\ Event(t) \in Events
    OBVIOUS
  <2>1. listener[t].batch # <<>>
    BY DEF DeliveredOnce
  <2>2. 1 \in DOMAIN listener[t].batch /\ Event(t) = listener[t].batch[1] /\ Event(t) \in Events
    BY <2>1, HeadOfBatch
  <2> QED BY <1>2, <2>2 DEF DeliveredOnce
<1>9. SettledOnce'
  <2>1. \A f \in Events : settled'[f] <= 1
    BY <1>2 DEF SettledOnce
  <2>2. ASSUME NEW t \in Servers, NEW i \in DOMAIN listener[t].batch,
               i > 1 \/ listener'[t].pc \notin {"resolved", "fanout"}
        PROVE  settled'[listener[t].batch[i]] = 0
    <3>1. listener[t].batch[i] # e /\ listener[t].batch[i] \in Events
      BY <1>2, <1>3, <2>2, Typed DEF DeliveredOnce
    <3>2. i > 1 \/ listener[t].pc \notin {"resolved", "fanout"}
      BY <1>3, <2>2
    <3> QED BY <1>2, <3>1, <3>2 DEF SettledOnce
  <2>3. ASSUME NEW t \in Servers, listener'[t].pc \in {"resolved", "fanout"} PROVE settled'[Event(t)] # 0
    <3>1. CASE t = s
      BY <3>1
    <3>2. CASE t # s
      <4>1. listener[t].pc \in {"resolved", "fanout"}
        BY <1>3, <2>3, <3>2
      <4>2. Event(t) \in Events \ {e}
        BY <1>2, <1>8, <3>2, <4>1 DEF Handling
      <4> QED BY <4>1, <4>2 DEF SettledOnce
    <3> QED BY <3>1, <3>2
  <2> QED BY <1>4, <2>1, <2>2, <2>3 DEF SettledOnce
<1>10. AimedAndReached'
  <2>1. \A f \in Events : Reached(f)' \subseteq aimed'[f]
    BY <1>2 DEF AimedAndReached
  <2>2. \A f \in Events : settled'[f] = 0 => aimed'[f] = {}
    BY <1>2 DEF AimedAndReached
  <2>3. \A f \in Events : ended[f] = "handled" => Reached(f)' = aimed'[f]
    BY <1>2, <1>6 DEF AimedAndReached
  <2>4. ASSUME NEW t \in Servers, NEW f \in Events, f = Event(t), listener'[t].pc \in {"resolved", "fanout"}
        PROVE  /\ listener'[t].pc = "resolved" => aimed'[f] = {}
               /\ listener'[t].pc = "fanout" => aimed'[f] = listener'[t].todo \cup Reached(f)'
    <3>1. CASE t = s
      BY <1>3, <2>4, <3>1
    <3>2. CASE t # s
      <4>1. listener[t].pc \in {"resolved", "fanout"} /\ listener'[t] = listener[t]
        BY <1>3, <2>4, <3>2
      <4>2. f # e
        BY <1>8, <2>4, <3>2, <4>1 DEF Handling
      <4>3. Reached(f)' = Reached(f) /\ aimed'[f] = aimed[f]
        BY <4>2
      <4>4. listener[t].pc = "fanout" => aimed[f] = listener[t].todo \cup Reached(f)
        BY <2>4 DEF AimedAndReached, Reached
      <4> QED BY <2>4, <4>1, <4>3, <4>4 DEF AimedAndReached
    <3> QED BY <3>1, <3>2
  <2>5. ASSUME NEW t \in Servers, listener'[t].pc \in {"resolved", "fanout"}
        PROVE  /\ listener'[t].pc = "resolved" => aimed'[Event(t)'] = {}
               /\ listener'[t].pc = "fanout" => aimed'[Event(t)'] = listener'[t].todo \cup Reached(Event(t))'
    <3>1. listener'[t].batch # <<>> /\ Event(t) \in Events
      <4>1. listener[t].batch # <<>>
        BY <1>1, <1>3, <2>5 DEF DeliveredOnce, Handling
      <4> QED BY <1>4, <4>1, HeadOfBatch
    <3> PICK f \in Events : f = Event(t)
      BY <3>1
    <3>2. f = Event(t)'
      BY <1>4
    <3>3. Reached(Event(t))' = Reached(f)'
      BY <3>2 DEF Reached
    <3> QED BY <2>4, <2>5, <3>2, <3>3
  <2> QED BY <2>1, <2>2, <2>3, <2>5 DEF AimedAndReached
<1> QED BY <1>5, <1>7, <1>9, <1>10

LEMMA CommitEntityKeeps ==
  ASSUME EventInv, NEW s \in Servers, CommitEntity(s)
  PROVE  EventInv'
<1> USE DEF EventInv
<1>1. listener[s].pc = "resolving" /\ Handling(s) /\ listener[s].batch # <<>>
  BY DEF CommitEntity, DeliveredOnce, Handling
<1>2. 1 \in DOMAIN listener[s].batch /\ Event(s) = listener[s].batch[1] /\ Event(s) \in Events
  BY <1>1, HeadOfBatch
<1> PICK e \in Events : e = Event(s)
  BY <1>2
<1>3. settled[e] = 0 /\ aimed[e] = {} /\ Reached(e) = {}
  BY <1>1, <1>2 DEF SettledOnce, AimedAndReached
<1> DEFINE l == [listener[s] EXCEPT !.pc = "resolved"]
<1>4. l \in Listener /\ l.batch = listener[s].batch /\ l.pc = "resolved"
  BY Typed DEF Listener, ListenerPC
<1>5. /\ listener' = [listener EXCEPT ![s] = l] /\ settled' = [settled EXCEPT ![e] = @ + 1]
      /\ UNCHANGED <<sourceVars, streamVars, messages, ended, aimed>>
  BY DEF CommitEntity
<1> HIDE DEF l
<1>6. rows' \in [Keys -> Seq(Row)] /\ disturbed' \subseteq Keys
  <2> DEFINE k == KeyOf[e]
             i == listener[s].seenRow
             seen == listener[s].seen
  <2>1. k \in Keys /\ rows[k] \in Seq(Row) /\ seen \in Row /\ i \in Nat
    BY Typed DEF Keys, TypeOK, Listener
  <2>2. rows' = [rows EXCEPT ![k] = IF i = 0 THEN Append(rows[k], [payload |-> {e}, at |-> e, version |-> 1])
                                             ELSE [rows[k] EXCEPT ![i] = Stored(rows[k][i], e, seen)]]
    BY DEF CommitEntity, Key
  <2>3. [payload |-> {e}, at |-> e, version |-> 1] \in Row
    BY EventsAssumption DEF Row, Events
  <2>4. ASSUME NEW row \in Row PROVE Stored(row, e, seen) \in Row
    <3>1. e \in 0 .. NumEvents
      BY EventsAssumption DEF Events
    <3>2. Resolved(e, seen) \subseteq Events
      BY <2>1 DEF Resolved, Row
    <3>3. seen.version + 1 \in Nat
      BY <2>1 DEF Row
    <3>4. row.payload \subseteq Events
      BY DEF Row
    <3>5. (IF Resolved(e, seen) = seen.payload THEN row.payload ELSE Resolved(e, seen)) \in SUBSET Events
      BY <3>2, <3>4
    <3> QED BY <3>1, <3>3, <3>5 DEF Row, Stored
  <2>5. i # 0 => [rows[k] EXCEPT ![i] = Stored(rows[k][i], e, seen)] \in Seq(Row)
    <3>1. CASE i \in 1 .. Len(rows[k])
      <4>1. rows[k][i] \in Row
        BY <2>1, <3>1, ElementOfSeq
      <4>2. Stored(rows[k][i], e, seen) \in Row
        BY <2>4, <4>1
      <4> QED BY <2>1, <3>1, <4>2, ExceptSeq
    <3>2. CASE i \notin 1 .. Len(rows[k])
      <4>1. i \notin DOMAIN rows[k]
        BY <2>1, <3>2, LenProperties
      <4>2. [rows[k] EXCEPT ![i] = Stored(rows[k][i], e, seen)] = rows[k]
        BY <2>1, <4>1, LenProperties
      <4> QED BY <2>1, <4>2
    <3> QED BY <3>1, <3>2
  <2>6. rows' \in [Keys -> Seq(Row)]
    <3>1. i = 0 => Append(rows[k], [payload |-> {e}, at |-> e, version |-> 1]) \in Seq(Row)
      BY <2>1, <2>3
    <3> DEFINE new == IF i = 0 THEN Append(rows[k], [payload |-> {e}, at |-> e, version |-> 1])
                      ELSE [rows[k] EXCEPT ![i] = Stored(rows[k][i], e, seen)]
    <3>2. new \in Seq(Row)
      BY <2>5, <3>1
    <3>3. rows' = [rows EXCEPT ![k] = new]
      BY <2>2
    <3> HIDE DEF new, k
    <3> QED BY <2>1, <3>2, <3>3 DEF TypeOK
  <2>7. disturbed' \subseteq Keys
    BY <2>1 DEF CommitEntity, Key, TypeOK
  <2> QED BY <2>6, <2>7
<1>7. settled' \in [Events -> Nat] /\ settled'[e] = 1 /\ \A f \in Events \ {e} : settled'[f] = settled[f]
  BY <1>3, <1>5 DEF TypeOK
<1>8. TypeOK'
  <2>1. listener' \in [Servers -> Listener]
    BY <1>4, <1>5 DEF TypeOK
  <2> QED BY <1>5, <1>6, <1>7, <2>1 DEF TypeOK, sourceVars, streamVars
<1>9. \A f \in Events : Reached(f)' = Reached(f) /\ aimed'[f] = aimed[f]
  BY <1>5 DEF Reached
<1>10. Reached(e)' \subseteq aimed'[e] /\ aimed'[e] = {}
  BY <1>3, <1>9
<1> QED BY <1>1, <1>4, <1>5, <1>7, <1>8, <1>9, <1>10, HeadStep

LEMMA ResolveTargetsKeeps ==
  ASSUME EventInv, NEW s \in Servers, ResolveTargets(s)
  PROVE  EventInv'
<1> USE DEF EventInv
<1>1. listener[s].pc = "resolved" /\ Handling(s) /\ listener[s].batch # <<>>
  BY DEF ResolveTargets, DeliveredOnce, Handling
<1>2. Event(s) \in Events
  BY <1>1, HeadOfBatch
<1> PICK e \in Events : e = Event(s)
  BY <1>2
<1>3. PICK active \in PingRound(Agents) :
        LET pairs == {pair \in Targets(e, active) \X Protocols : pair[2] \in Speaks[pair[1]]}
        IN  listener' = [listener EXCEPT ![s].pc = "fanout", ![s].todo = pairs] /\ aimed' = [aimed EXCEPT ![e] = pairs]
  BY DEF ResolveTargets
<1> DEFINE pairs == {pair \in Targets(e, active) \X Protocols : pair[2] \in Speaks[pair[1]]}
<1>4. pairs \in SUBSET (Agents \X Protocols)
  <2>1. active \subseteq Agents
    BY DEF PingRound
  <2>2. Targets(e, active) \subseteq Agents
    BY <2>1, EventsAssumption DEF Targets
  <2> QED BY <2>2
<1> HIDE DEF pairs
<1>5. /\ listener' = [listener EXCEPT ![s].pc = "fanout", ![s].todo = pairs] /\ aimed' = [aimed EXCEPT ![e] = pairs]
      /\ UNCHANGED <<sourceVars, streamVars, rows, messages, settled, ended, disturbed>>
  BY <1>3 DEF ResolveTargets, pairs
<1> DEFINE l == [listener[s] EXCEPT !.pc = "fanout", !.todo = pairs]
<1>6. l \in Listener /\ l.batch = listener[s].batch /\ l.pc = "fanout" /\ l.todo = pairs
  BY <1>4, Typed DEF Listener, ListenerPC
<1>7. listener' = [listener EXCEPT ![s] = l]
  BY <1>5 DEF TypeOK
<1> HIDE DEF l
<1>8. settled[e] # 0 /\ settled[e] <= 1 /\ aimed[e] = {} /\ Reached(e) = {}
  BY <1>1 DEF SettledOnce, AimedAndReached
<1>9. settled'[e] = 1
  BY <1>5, <1>8 DEF TypeOK
<1>10. aimed' \in [Events -> SUBSET (Agents \X Protocols)] /\ aimed'[e] = pairs
       /\ \A f \in Events \ {e} : aimed'[f] = aimed[f]
  BY <1>4, <1>5 DEF TypeOK
<1>11. TypeOK'
  <2>1. listener' \in [Servers -> Listener]
    BY <1>6, <1>7 DEF TypeOK
  <2> QED BY <1>5, <1>10, <2>1 DEF TypeOK, sourceVars, streamVars
<1>12. \A f \in Events : Reached(f)' = Reached(f)
  BY <1>5 DEF Reached
<1>13. \A f \in Events \ {e} : settled'[f] = settled[f] /\ aimed'[f] = aimed[f] /\ Reached(f)' = Reached(f)
  BY <1>5, <1>10, <1>12
<1>14. Reached(e)' \subseteq aimed'[e] /\ aimed'[e] = l.todo \cup Reached(e)'
  BY <1>6, <1>8, <1>10, <1>12
<1>15. l.pc = "resolved" => aimed'[e] = {}
  BY <1>6
<1>16. UNCHANGED <<sourceVars, streamVars, ended>>
  BY <1>5
<1> HIDE DEF EventInv
<1>17. EventInv /\ s \in Servers /\ e \in Events /\ e = Event(s)
  OBVIOUS
<1> QED BY <1>1, <1>6, <1>7, <1>9, <1>11, <1>13, <1>14, <1>15, <1>16, <1>17, HeadStep

LEMMA QueueMessageKeeps ==
  ASSUME EventInv, NEW s \in Servers, QueueMessage(s)
  PROVE  EventInv'
<1> USE DEF EventInv
<1>1. listener[s].pc = "fanout" /\ Handling(s) /\ listener[s].batch # <<>>
  BY DEF QueueMessage, DeliveredOnce, Handling
<1>2. Event(s) \in Events
  BY <1>1, HeadOfBatch
<1> PICK e \in Events : e = Event(s)
  BY <1>2
<1>3. PICK pair \in listener[s].todo :
        messages' = messages \cup {<<e, pair[1], pair[2]>>} /\ listener' = [listener EXCEPT ![s].todo = @ \ {pair}]
  BY DEF QueueMessage
<1>4. UNCHANGED <<sourceVars, streamVars, rows, settled, ended, aimed, disturbed>>
  BY DEF QueueMessage
<1>5. pair \in Agents \X Protocols /\ pair = <<pair[1], pair[2]>> /\ pair[1] \in Agents /\ pair[2] \in Protocols
  BY Typed
<1> DEFINE l == [listener[s] EXCEPT !.todo = @ \ {pair}]
<1>6. l \in Listener /\ l.batch = listener[s].batch /\ l.pc = "fanout" /\ l.todo = listener[s].todo \ {pair}
  BY <1>1, Typed DEF Listener
<1>7. listener' = [listener EXCEPT ![s] = l]
  BY <1>3 DEF TypeOK
<1> HIDE DEF l
<1>8. Reached(e)' = Reached(e) \cup {pair} /\ \A f \in Events \ {e} : Reached(f)' = Reached(f)
  <2>1. messages' = messages \cup {<<e, pair[1], pair[2]>>}
    BY <1>3
  <2> DEFINE of(f, ms) == {<<m[2], m[3]>> : m \in {n \in ms : n[1] = f}}
  <2>2. of(e, messages') = of(e, messages) \cup {pair}
    <3> DEFINE new == <<e, pair[1], pair[2]>>
    <3>1. new[1] = e /\ <<new[2], new[3]>> = pair
      BY <1>5
    <3>2. messages' = messages \cup {new}
      BY <2>1
    <3> HIDE DEF new
    <3>3. pair \in of(e, messages')
      BY <3>1, <3>2
    <3>4. of(e, messages) \subseteq of(e, messages')
      BY <3>2
    <3>5. ASSUME NEW x \in of(e, messages') PROVE x \in of(e, messages) \cup {pair}
      BY <3>1, <3>2
    <3> QED BY <3>3, <3>4, <3>5
  <2>3. \A f \in Events \ {e} : of(f, messages') = of(f, messages)
    BY <2>1
  <2> QED BY <2>2, <2>3 DEF Reached
<1>9. aimed[e] = listener[s].todo \cup Reached(e)
  BY <1>1 DEF AimedAndReached, Reached
<1>10. settled'[e] = 1
  BY <1>1, <1>4 DEF SettledOnce, TypeOK
<1>11. TypeOK'
  <2>1. listener' \in [Servers -> Listener]
    BY <1>6, <1>7 DEF TypeOK
  <2>2. messages' \subseteq Events \X Agents \X Protocols
    BY <1>3, <1>5 DEF TypeOK
  <2> QED BY <1>4, <2>1, <2>2 DEF TypeOK, sourceVars, streamVars
<1>12. aimed'[e] = l.todo \cup Reached(e)' /\ Reached(e)' \subseteq aimed'[e]
  BY <1>3, <1>4, <1>6, <1>8, <1>9
<1>13. \A f \in Events \ {e} : settled'[f] = settled[f] /\ aimed'[f] = aimed[f]
  BY <1>4
<1> QED BY <1>1, <1>4, <1>6, <1>7, <1>8, <1>10, <1>11, <1>12, <1>13, HeadStep

LEMMA StreamGrows ==
  ASSUME EventInv, NEW e \in Events, Publish(e), emitted <= emitted', emitted' \in 0 .. NumEvents, e <= emitted',
         \A i \in 1 .. Len(stream) : stream[i] # e,
         source' \in [Servers -> [pc: {"off", "waiting", "publishing"}, event: 0 .. NumEvents]],
         \A s \in Servers : source'[s].pc = "publishing" <=> source'[s].event # 0,
         \A s \in Servers : source'[s].event = 0 \/ (source'[s].event = source[s].event /\ source[s].event # e),
         UNCHANGED <<configured, listener, rows, messages, settled, ended, aimed, disturbed>>
  PROVE  EventInv'
<1> USE DEF EventInv
<1>1. /\ cursor' = cursor /\ stream' \in Seq(Events) /\ oldest' \in 1 .. Len(stream') + 1
      /\ cursor \in 0 .. Len(stream')
      /\ Len(stream) <= Len(stream') /\ \A i \in 1 .. Len(stream) : stream'[i] = stream[i]
      /\ \/ stream' = stream
         \/ Len(stream') = Len(stream) + 1 /\ stream'[Len(stream) + 1] = e
  BY PublishAppends
<1>2. TypeOK'
  BY <1>1 DEF TypeOK
<1>3. \A i \in 1 .. Len(stream') : i \in 1 .. Len(stream) \/ (i = Len(stream) + 1 /\ stream'[i] = e)
  BY <1>1, Typed
<1>4. emitted \in Nat /\ emitted' \in Nat /\ \A i \in 1 .. Len(stream) : stream[i] \in Nat
  BY Typed, EventsAssumption DEF Events
<1>5. StampedOnce'
  <2>1. \A i \in 1 .. Len(stream') :
          stream'[i] <= emitted' /\ \A j \in 1 .. Len(stream') : stream'[i] = stream'[j] => i = j
    BY <1>1, <1>3, <1>4 DEF StampedOnce
  <2>2. \A s \in Servers : source'[s].event <= emitted'
    BY <1>4, Typed DEF StampedOnce
  <2>3. \A s \in Servers : source'[s].event # 0 =>
          /\ \A i \in 1 .. Len(stream') : stream'[i] # source'[s].event
          /\ \A u \in Servers : source'[u].event = source'[s].event => u = s
    BY <1>1, <1>3 DEF StampedOnce
  <2> QED BY <2>1, <2>2, <2>3 DEF StampedOnce
<1> QED BY <1>1, <1>2, <1>5, SourcesKeep

LEMMA EventInvStep == EventInv /\ [Next]_vars => EventInv'
<1> SUFFICES ASSUME EventInv, [Next]_vars PROVE EventInv'
  OBVIOUS
<1>0. TypeOK /\ StampedOnce /\ DeliveredOnce /\ SettledOnce /\ AimedAndReached
  BY DEF EventInv
<1>a. source \in [Servers -> [pc: {"off", "waiting", "publishing"}, event: 0 .. NumEvents]] /\ emitted \in 0 .. NumEvents
      /\ \A s \in Servers : source[s].pc = "publishing" <=> source[s].event # 0
  BY <1>0 DEF TypeOK
<1>1. ASSUME NEW s \in Servers, Emit(s) PROVE EventInv'
  <2>1. /\ source' = [source EXCEPT ![s] = [pc |-> "publishing", event |-> emitted + 1]] /\ emitted' = emitted + 1
        /\ emitted + 1 \in Events /\ emitted + 1 \in 1 .. NumEvents
        /\ UNCHANGED <<streamVars, configured, listener, rows, messages, settled, ended, aimed, disturbed>>
    BY <1>1, <1>a, EventsAssumption DEF Emit, Events
  <2>2. /\ source'[s] = [pc |-> "publishing", event |-> emitted + 1] /\ \A t \in Servers \ {s} : source'[t] = source[t]
        /\ source' \in [Servers -> [pc: {"off", "waiting", "publishing"}, event: 0 .. NumEvents]]
    BY <1>a, <2>1
  <2>3. \A t \in Servers : source'[t].pc = "publishing" <=> source'[t].event # 0
    BY <1>a, <2>1, <2>2
  <2>4. TypeOK'
    BY <1>0, <2>1, <2>2, <2>3 DEF TypeOK, streamVars, Events
  <2>5. stream' = stream /\ cursor' = cursor
    BY <2>1 DEF streamVars
  <2>6. \A i \in 1 .. Len(stream) : stream[i] \in Nat /\ stream[i] <= emitted
    BY <1>0, Typed DEF StampedOnce, Events
  <2>7. \A t \in Servers : source[t].event \in Nat /\ source[t].event <= emitted
    BY <1>0, Typed DEF StampedOnce
  <2>8. StampedOnce'
    <3>1. \A i \in 1 .. Len(stream') :
            stream'[i] <= emitted' /\ \A j \in 1 .. Len(stream') : stream'[i] = stream'[j] => i = j
      BY <1>0, <1>a, <2>1, <2>5, <2>6 DEF StampedOnce
    <3>2. \A t \in Servers : source'[t].event <= emitted'
      BY <1>a, <2>1, <2>2, <2>7
    <3>3. \A t \in Servers : source'[t].event # 0 =>
            /\ \A i \in 1 .. Len(stream') : stream'[i] # source'[t].event
            /\ \A u \in Servers : source'[u].event = source'[t].event => u = t
      <4> SUFFICES ASSUME NEW t \in Servers, source'[t].event # 0
                   PROVE  /\ \A i \in 1 .. Len(stream) : stream[i] # source'[t].event
                          /\ \A u \in Servers : source'[u].event = source'[t].event => u = t
        BY <2>5
      <4>1. source'[s].event = emitted + 1 /\ emitted \in Nat
        BY <1>a, <2>2
      <4>2. \A u \in Servers \ {s} : source'[u].event = source[u].event /\ source[u].event \in Nat /\ source[u].event <= emitted
        BY <2>2, <2>7
      <4>3. CASE t = s
        <5>1. \A i \in 1 .. Len(stream) : stream[i] # emitted + 1
          BY <2>6, <4>1
        <5>2. \A u \in Servers \ {s} : source'[u].event # emitted + 1
          BY <4>1, <4>2
        <5> QED BY <4>1, <4>3, <5>1, <5>2
      <4>4. CASE t # s
        <5>1. source[t].event # 0 /\ source'[t].event = source[t].event /\ source'[s].event # source[t].event
          BY <4>1, <4>2, <4>4
        <5>2. /\ \A i \in 1 .. Len(stream) : stream[i] # source[t].event
              /\ \A u \in Servers : source[u].event = source[t].event => u = t
          BY <1>0, <5>1 DEF StampedOnce
        <5> QED BY <4>2, <5>1, <5>2
      <4> QED BY <4>3, <4>4
    <3> QED BY <3>1, <3>2, <3>3 DEF StampedOnce
  <2> QED BY <1>0, <2>1, <2>4, <2>5, <2>8, SourcesKeep, Typed
<1>2. ASSUME NEW s \in Servers, EmitDone(s) PROVE EventInv'
  <2>1. source[s].pc = "publishing" /\ source[s].event \in Events
    BY <1>2, <1>a, EventsAssumption DEF EmitDone, Events
  <2> PICK e \in Events : e = source[s].event
    BY <2>1
  <2>2. /\ \A i \in 1 .. Len(stream) : stream[i] # e
        /\ e <= emitted /\ \A t \in Servers \ {s} : source[t].event # e
    BY <1>0, EventsAssumption DEF StampedOnce, Events
  <2>3. PICK pc \in {"off", "waiting"} : source' = [source EXCEPT ![s] = [pc |-> pc, event |-> 0]]
    BY <1>2 DEF EmitDone
  <2>4. /\ source'[s] = [pc |-> pc, event |-> 0] /\ \A t \in Servers \ {s} : source'[t] = source[t]
        /\ source' \in [Servers -> [pc: {"off", "waiting", "publishing"}, event: 0 .. NumEvents]]
    BY <1>a, <2>3, EventsAssumption
  <2>5. \A t \in Servers : /\ source'[t].pc = "publishing" <=> source'[t].event # 0
                           /\ source'[t].event = 0 \/ (source'[t].event = source[t].event /\ source[t].event # e)
    BY <1>a, <2>2, <2>4
  <2>6. Publish(e) /\ emitted' = emitted /\ UNCHANGED <<configured, listener, rows, messages, settled, ended, aimed, disturbed>>
    BY <1>2 DEF EmitDone
  <2> QED BY <1>a, <2>2, <2>4, <2>5, <2>6, StreamGrows
<1>3. ASSUME NEW s \in Servers, WatchEnds(s) PROVE EventInv'
  <2>1. source[s].pc = "waiting" /\ source' = [source EXCEPT ![s].pc = "off"]
        /\ UNCHANGED <<emitted, streamVars, configured, listener, rows, messages, settled, ended, aimed, disturbed>>
    BY <1>3 DEF WatchEnds
  <2>2. /\ source'[s].pc = "off" /\ source'[s].event = 0 /\ source[s].event = 0 /\ \A t \in Servers \ {s} : source'[t] = source[t]
        /\ source' \in [Servers -> [pc: {"off", "waiting", "publishing"}, event: 0 .. NumEvents]]
    BY <1>a, <2>1
  <2>3. \A t \in Servers : source'[t].pc = "publishing" <=> source'[t].event # 0
    BY <1>a, <2>2
  <2>4. TypeOK'
    BY <1>0, <2>1, <2>2, <2>3 DEF TypeOK, streamVars
  <2>5. stream' = stream /\ cursor' = cursor
    BY <2>1 DEF streamVars
  <2>6. StampedOnce'
    <3>1. \A t \in Servers : source'[t].event = source[t].event
      BY <2>2
    <3> QED BY <1>0, <2>1, <2>5, <3>1 DEF StampedOnce
  <2> QED BY <1>0, <2>1, <2>4, <2>5, <2>6, SourcesKeep, Typed
<1>4. ASSUME NEW s \in Servers, Webhook(s) PROVE EventInv'
  <2>1. emitted < NumEvents /\ emitted' = emitted + 1 /\ Publish(emitted + 1) /\ source' = source
        /\ UNCHANGED <<configured, listener, rows, messages, settled, ended, aimed, disturbed>>
    BY <1>4 DEF Webhook
  <2>2. emitted + 1 \in Events
    BY <1>a, <2>1, EventsAssumption DEF Events
  <2> PICK e \in Events : e = emitted + 1
    BY <2>2
  <2>3. /\ \A i \in 1 .. Len(stream) : stream[i] # e
        /\ \A t \in Servers : source[t].event # e
    <3>1. \A i \in 1 .. Len(stream) : stream[i] \in Nat /\ stream[i] <= emitted
      BY <1>0, Typed DEF StampedOnce, Events
    <3>2. \A t \in Servers : source[t].event \in Nat /\ source[t].event <= emitted
      BY <1>0, Typed DEF StampedOnce
    <3> QED BY <1>a, <3>1, <3>2
  <2>4. emitted <= emitted' /\ emitted' \in 0 .. NumEvents /\ e <= emitted'
    BY <1>a, <2>1, EventsAssumption
  <2>5. Publish(e)
    BY <2>1
  <2> QED BY <1>a, <2>1, <2>3, <2>4, <2>5, StreamGrows
<1>5. ASSUME NEW s \in Servers, AddSyncSource(s) PROVE EventInv'
  <2>1. TypeOK' /\ StampedOnce' /\ stream' = stream
    BY <1>0, <1>5 DEF AddSyncSource, TypeOK, StampedOnce, streamVars
  <2> QED BY <1>0, <1>5, <2>1, SourcesKeep, Typed DEF AddSyncSource, streamVars
<1>6. ASSUME NEW s \in Servers, Start(s) PROVE EventInv'
  <2> DEFINE l == [Down EXCEPT !.pc = "loop", !.starts = listener[s].starts + 1]
  <2>1. l \in Listener /\ l.batch = <<>> /\ l.pc = "loop"
    <3>1. listener[s].starts + 1 \in 0 .. MaxStarts
      BY <1>0, <1>6, EventsAssumption, Typed DEF Start, Listener
    <3>2. Down \in Listener /\ Down.batch = <<>> /\ "loop" \in ListenerPC
      BY DownTyped DEF Down, ListenerPC
    <3> HIDE DEF Down
    <3>3. l \in Listener /\ l.pc = "loop" /\ l.batch = Down.batch
      BY <3>1, <3>2 DEF Listener
    <3> QED BY <3>2, <3>3
  <2>2. /\ listener' = [listener EXCEPT ![s] = l] /\ listener[s].pc = "down"
        /\ UNCHANGED <<emitted, streamVars, configured, rows, messages, settled, ended, aimed, disturbed>>
    BY <1>6 DEF Start, Up
  <2> HIDE DEF l
  <2>3. source' \in [Servers -> [pc: {"off", "waiting", "publishing"}, event: 0 .. NumEvents]]
        /\ \A t \in Servers : source'[t].event = source[t].event /\ (source'[t].pc = "publishing" <=> source[t].pc = "publishing")
    BY <1>6, <1>a DEF Start
  <2>4. \A t \in Servers : source'[t].pc = "publishing" <=> source'[t].event # 0
    BY <1>a, <2>3
  <2> QED BY <2>1, <2>2, <2>3, <2>4, ListenerKeeps
<1>7. ASSUME NEW s \in Servers, ReadEntity(s) PROVE EventInv'
  <2>1. PICK i \in 0 .. Len(rows[Key(s)]) :
          /\ i = 0 <=> rows[Key(s)] = <<>>
          /\ listener' = [listener EXCEPT ![s].pc = "resolving", ![s].seenRow = i,
                                          ![s].seen = IF i = 0 THEN NoRow ELSE rows[Key(s)][i]]
    BY <1>7 DEF ReadEntity
  <2>2. listener[s].pc = "loop" /\ listener[s].batch # <<>>
        /\ UNCHANGED <<sourceVars, streamVars, rows, messages, settled, ended, aimed, disturbed>>
    BY <1>7 DEF ReadEntity
  <2>3. Event(s) \in Events
    BY <1>0, <2>2, HeadOfBatch
  <2>4. rows[Key(s)] \in Seq(Row)
    BY <1>0, <2>3 DEF TypeOK, Key, Keys
  <2> DEFINE seen == IF i = 0 THEN NoRow ELSE rows[Key(s)][i]
             l == [listener[s] EXCEPT !.pc = "resolving", !.seenRow = i, !.seen = seen]
  <2>5. seen \in Row /\ i \in Nat
    <3>1. NoRow \in Row
      BY EventsAssumption DEF NoRow, Row
    <3>2. Len(rows[Key(s)]) \in Nat /\ i \in Nat
      BY <2>4
    <3>3. i # 0 => rows[Key(s)][i] \in Row
      BY <2>4, <3>2, ElementOfSeq
    <3> QED BY <3>1, <3>2, <3>3
  <2> HIDE DEF seen
  <2>6. l \in Listener /\ l.batch = listener[s].batch /\ l.pc = "resolving"
    BY <1>0, <2>5, Typed DEF Listener, ListenerPC
  <2>7. listener' = [listener EXCEPT ![s] = l]
    BY <1>0, <2>1 DEF TypeOK, seen
  <2> HIDE DEF l
  <2> QED BY <1>a, <2>2, <2>6, <2>7, ListenerKeeps DEF sourceVars
<1>8. ASSUME NEW s \in Servers, Ignore(s) PROVE EventInv'
  BY <1>8, NextEventKeeps DEF Ignore, Endings
<1>9. ASSUME NEW s \in Servers, HandlerFails(s) PROVE EventInv'
  BY <1>0, <1>9, NextEventKeeps DEF HandlerFails, Endings, DeliveredOnce
<1>10. ASSUME NEW s \in Servers, HandlerDone(s) PROVE EventInv'
  <2>1. listener[s].batch # <<>>
    BY <1>0, <1>10 DEF HandlerDone, DeliveredOnce, Handling
  <2>2. Reached(Event(s)) = aimed[Event(s)]
    <3>1. listener[s].pc = "fanout" /\ listener[s].todo = {}
      BY <1>10 DEF HandlerDone, FanOutComplete
    <3>2. aimed[Event(s)] = listener[s].todo \cup Reached(Event(s))
      BY <1>0, <3>1 DEF AimedAndReached
    <3> QED BY <3>1, <3>2
  <2> QED BY <1>10, <2>1, <2>2, NextEventKeeps DEF HandlerDone, Endings
<1>11. CASE UNCHANGED vars
  <2>1. TypeOK' /\ StampedOnce' /\ stream' = stream /\ cursor' = cursor
    BY <1>0, <1>11 DEF vars, TypeOK, StampedOnce, streamVars
  <2> QED BY <1>0, <1>11, <2>1, SourcesKeep, Typed DEF vars, streamVars
<1> QED
  BY <1>1, <1>2, <1>3, <1>4, <1>5, <1>6, <1>7, <1>8, <1>9, <1>10, <1>11,
     StopKeeps, ReadBatchKeeps, CommitEntityKeeps, ResolveTargetsKeeps, QueueMessageKeeps DEF Next, Handle

-----------------------------------------------------------------------------

\* Reachable states of the event stream and its listeners are well typed.
THEOREM TypeCorrect == Spec => []TypeOK
<1>1. EventInv => TypeOK
  BY DEF EventInv
<1> QED BY <1>1, InitEventInv, EventInvStep, PTL DEF Spec

\* EventStream.read and EventListener._consume_loop: no event is settled twice or
\* waits in a batch after it has ended, for any number of events and servers,
\* through any restarts and lost answers.
THEOREM SettledAtMostOnce == Spec => []AtMostOnce
<1>1. EventInv => AtMostOnce
  BY DEF EventInv, AtMostOnce, SettledOnce, DeliveredOnce
<1> QED BY <1>1, InitEventInv, EventInvStep, PTL DEF Spec

\* EventListener._dispatch: an event that was handled has reached every agent and
\* protocol it was aimed at; one that failed midway has reached no others.
THEOREM FanOutIsWhole == Spec => []FanOut
<1>1. EventInv => FanOut
  BY DEF EventInv, FanOut, AimedAndReached, Reached
<1> QED BY <1>1, InitEventInv, EventInvStep, PTL DEF Spec

-----------------------------------------------------------------------------
(* The newest event is kept *)

Mine(k) == {e \in Events : KeyOf[e] = k /\ settled[e] > 0}

\* What is true of the rows of an entity that was settled event by event.
Orderly(k) ==
  /\ Mine(k) = {} => rows[k] = <<>>
  /\ Mine(k) # {} =>
       /\ Len(rows[k]) = 1
       /\ rows[k][1].at \in Mine(k) \cap rows[k][1].payload
       /\ \A e \in Mine(k) : e <= rows[k][1].at
       /\ rows[k][1].version = Cardinality(Mine(k))

\* The row a resolver read still exists: rows are never deleted.
SeenRows == \A s \in Servers : listener[s].pc = "resolving" => listener[s].seenRow \in 0 .. Len(rows[Key(s)])

NewestInv == SeenRows /\ \A k \in Keys \ disturbed : Orderly(k)

LEMMA MineTyped ==
  ASSUME NEW k
  PROVE  Mine(k) \subseteq Events /\ Events \subseteq Nat /\ IsFiniteSet(Mine(k)) /\ Cardinality(Mine(k)) \in Nat
<1>1. IsFiniteSet(Events) /\ Events \subseteq Nat /\ Mine(k) \subseteq Events
  BY EventsAssumption, FS_Interval DEF Events, Mine
<1> QED BY <1>1, FS_Subset, FS_CardinalityType

\* The keys, and the rows and the seen row of a listener that is resolving.
LEMMA RowsTyped ==
  ASSUME EventInv
  PROVE  /\ \A e \in Events : KeyOf[e] \in Keys
         /\ \A k \in Keys : rows[k] \in Seq(Row) /\ Len(rows[k]) \in Nat
         /\ \A s \in Servers : Handling(s) => Event(s) \in Events /\ Key(s) \in Keys
         /\ \A s \in Servers : listener[s].pc = "resolving" => settled[Event(s)] = 0
<1>1. TypeOK
  BY DEF EventInv
<1>2. \A e \in Events : KeyOf[e] \in Keys
  BY DEF Keys
<1>3. \A k \in Keys : rows[k] \in Seq(Row) /\ Len(rows[k]) \in Nat
  <2>1. rows \in [Keys -> Seq(Row)]
    BY <1>1 DEF TypeOK
  <2> QED BY <2>1, LenProperties
<1>4. ASSUME NEW s \in Servers, Handling(s) PROVE Event(s) \in Events /\ Key(s) \in Keys
  <2>1. listener[s].batch # <<>>
    BY <1>4 DEF EventInv, DeliveredOnce
  <2> QED BY <1>1, <1>2, <2>1, HeadOfBatch DEF Key
<1>5. ASSUME NEW s \in Servers, listener[s].pc = "resolving" PROVE settled[Event(s)] = 0
  <2>1. listener[s].batch # <<>>
    BY <1>5 DEF EventInv, DeliveredOnce, Handling
  <2> QED BY <1>1, <1>5, <2>1, HeadOfBatch DEF EventInv, SettledOnce
<1> QED BY <1>2, <1>3, <1>4, <1>5

\* Steps that settle nothing.
LEMMA NothingSettled ==
  ASSUME NewestInv, UNCHANGED <<rows, settled, disturbed>>, SeenRows' PROVE NewestInv'
<1>1. \A k : Mine(k)' = Mine(k)
  BY DEF Mine
<1> QED BY <1>1 DEF NewestInv, Orderly

\* A step that leaves the listeners that are resolving as they are, or ends them.
LEMMA SeenRowsKept ==
  ASSUME SeenRows, UNCHANGED rows,
         \A s \in Servers : UNCHANGED listener[s] \/ listener'[s].pc # "resolving"
  PROVE  SeenRows'
<1>1. ASSUME NEW s \in Servers, listener'[s].pc = "resolving" PROVE listener'[s].seenRow \in 0 .. Len(rows'[Key(s)'])
  <2>1. UNCHANGED listener[s]
    BY <1>1
  <2> QED BY <1>1, <2>1 DEF SeenRows, Key, Event
<1> QED BY <1>1 DEF SeenRows

LEMMA CommitKeepsOrder ==
  ASSUME EventInv, NewestInv, NEW s \in Servers, CommitEntity(s) PROVE NewestInv'
<1>e. PICK e, k, i, seen : e = Event(s) /\ k = Key(s) /\ i = listener[s].seenRow /\ seen = listener[s].seen
  OBVIOUS
<1>n. PICK new : new = IF i = 0 THEN Append(rows[k], [payload |-> {e}, at |-> e, version |-> 1])
                       ELSE [rows[k] EXCEPT ![i] = Stored(rows[k][i], e, seen)]
  OBVIOUS
<1>0. /\ listener[s].pc = "resolving" /\ e \in Events /\ k \in Keys /\ settled[e] = 0 /\ k = KeyOf[e]
      /\ rows[k] \in Seq(Row) /\ Len(rows[k]) \in Nat /\ i \in 0 .. Len(rows[k])
      /\ rows \in [Keys -> Seq(Row)] /\ settled \in [Events -> Nat] /\ TypeOK
  <2>1. listener[s].pc = "resolving"
    BY DEF CommitEntity
  <2> QED BY <1>e, <2>1, RowsTyped DEF Handling, Key, NewestInv, SeenRows, EventInv, TypeOK
<1>1. /\ rows' = [rows EXCEPT ![k] = new]
      /\ settled' = [settled EXCEPT ![e] = @ + 1]
      /\ disturbed' = IF e < seen.at \/ (i = 0 /\ rows[k] # <<>>) \/ (i # 0 /\ rows[k][i] # seen)
                      THEN disturbed \cup {k} ELSE disturbed
      /\ listener' = [listener EXCEPT ![s].pc = "resolved"]
  BY <1>e, <1>n DEF CommitEntity
<1>2. Mine(k)' = Mine(k) \cup {e} /\ e \notin Mine(k) /\ \A q \in Keys \ {k} : Mine(q)' = Mine(q)
  BY <1>0, <1>1 DEF Mine
<1>3. rows'[k] = new /\ \A q \in Keys \ {k} : rows'[q] = rows[q]
  BY <1>0, <1>1
<1>4. SeenRows'
  <2>1. Len(rows'[k]) \in Nat /\ Len(rows'[k]) >= Len(rows[k])
    <3>1. CASE i = 0
      <4>1. rows'[k] = Append(rows[k], [payload |-> {e}, at |-> e, version |-> 1])
        BY <1>3, <1>n, <3>1
      <4>2. \A x : Len(Append(rows[k], x)) = Len(rows[k]) + 1
        BY <1>0
      <4> QED BY <1>0, <4>1, <4>2
    <3>2. CASE i # 0
      <4>1. rows'[k] = [rows[k] EXCEPT ![i] = Stored(rows[k][i], e, seen)]
        BY <1>3, <1>n, <3>2
      <4>2. Len(rows'[k]) = Len(rows[k])
        BY <1>0, <3>2, <4>1
      <4> QED BY <1>0, <4>2
    <3> QED BY <3>1, <3>2
  <2>2. ASSUME NEW t \in Servers, listener'[t].pc = "resolving" PROVE listener'[t].seenRow \in 0 .. Len(rows'[Key(t)'])
    <3>1. t # s
      BY <1>1, <2>2, <1>0 DEF TypeOK
    <3>2. listener'[t] = listener[t] /\ Key(t)' = Key(t)
      BY <1>0, <1>1, <3>1 DEF Key, Event, TypeOK
    <3>3. Key(t) \in Keys /\ listener[t].seenRow \in 0 .. Len(rows[Key(t)]) /\ Len(rows[Key(t)]) \in Nat
      BY <2>2, <3>2, RowsTyped DEF NewestInv, SeenRows, Handling
    <3>4. Len(rows'[Key(t)]) \in Nat /\ Len(rows'[Key(t)]) >= Len(rows[Key(t)])
      BY <1>3, <2>1, <3>3
    <3>5. listener'[t].seenRow \in 0 .. Len(rows'[Key(t)])
      BY <3>2, <3>3, <3>4
    <3> QED BY <3>2, <3>5
  <2> QED BY <2>2 DEF SeenRows
<1>5. ASSUME NEW q \in Keys \ disturbed', q # k PROVE Orderly(q)'
  <2>1. q \in Keys \ disturbed /\ Orderly(q)
    BY <1>1, <1>5 DEF NewestInv
  <2>2. Mine(q)' = Mine(q) /\ rows'[q] = rows[q]
    BY <1>2, <1>3, <1>5
  <2> QED BY <2>1, <2>2 DEF Orderly
<1>6. ASSUME k \notin disturbed' PROVE Orderly(k)'
  <2>0. /\ Orderly(k) /\ ~(e < seen.at) /\ (i = 0 => rows[k] = <<>>) /\ (i # 0 => rows[k][i] = seen)
    BY <1>0, <1>1, <1>6 DEF NewestInv
  <2>1. Mine(k)' # {} /\ e \in Mine(k)'
    BY <1>2
  <2>2. Cardinality(Mine(k)') = Cardinality(Mine(k)) + 1
    BY <1>2, MineTyped, FS_AddElement
  <2>3. CASE i = 0
    <3>1. Len(rows[k]) = 0 /\ Mine(k) = {}
      BY <2>0, <2>3 DEF Orderly
    <3>2. Cardinality(Mine(k)) = 0
      BY <3>1, FS_EmptySet
    <3>3. Len(rows'[k]) = 1 /\ rows'[k][1] = [payload |-> {e}, at |-> e, version |-> 1]
      BY <1>0, <1>3, <1>n, <2>0, <2>3
    <3>4. Mine(k)' = {e}
      BY <1>2, <3>1
    <3> QED BY <1>0, <2>2, <3>2, <3>3, <3>4, MineTyped DEF Orderly
  <2>4. CASE i # 0
    <3>1. Mine(k) # {} /\ Len(rows[k]) = 1 /\ i = 1
      <4>1. rows[k] # <<>>
        BY <1>0, <2>4
      <4> QED BY <1>0, <2>0, <2>4, <4>1 DEF Orderly
    <3>2. Len(rows'[k]) = 1 /\ rows'[k][1] = Stored(seen, e, seen)
      BY <1>0, <1>3, <1>n, <2>0, <2>4, <3>1
    <3>3. e \in Stored(seen, e, seen).payload /\ Stored(seen, e, seen).at = e /\ Stored(seen, e, seen).version = seen.version + 1
      <4>1. seen.at \in Nat /\ e \in Nat
        BY <1>0, <2>0, <3>1, MineTyped DEF Orderly
      <4>2. e \in Resolved(e, seen)
        BY <2>0, <4>1 DEF Resolved
      <4> QED BY <4>2 DEF Stored
    <3>4. \A f \in Mine(k)' : f <= e
      BY <1>0, <1>2, <2>0, <3>1, MineTyped DEF Orderly
    <3>5. seen.version = Cardinality(Mine(k))
      BY <2>0, <2>4, <3>1 DEF Orderly
    <3> QED BY <2>1, <2>2, <3>2, <3>3, <3>4, <3>5 DEF Orderly
  <2> QED BY <2>3, <2>4
<1> QED BY <1>4, <1>5, <1>6 DEF NewestInv

LEMMA NewestInvStep == EventInv /\ NewestInv /\ [Next]_vars => NewestInv'
<1> SUFFICES ASSUME EventInv, NewestInv, [Next]_vars PROVE NewestInv'
  OBVIOUS
<1>0. SeenRows /\ listener \in [Servers -> Listener] /\ TypeOK
  BY DEF NewestInv, EventInv, TypeOK
<1>a. ASSUME UNCHANGED <<rows, settled, disturbed>>,
             \A t \in Servers : UNCHANGED listener[t] \/ listener'[t].pc # "resolving"
      PROVE  NewestInv'
  BY <1>0, <1>a, SeenRowsKept, NothingSettled
<1>b. ASSUME NEW s \in Servers PROVE NextEvent(s).pc = "loop" /\ NextEvent(s) = [listener[s] EXCEPT
               !.pc = "loop", !.batch = Tail(@), !.seenRow = 0, !.seen = NoRow, !.todo = {}]
  BY <1>0 DEF NextEvent, Listener
<1>1. CASE UNCHANGED vars
  BY <1>1, <1>a DEF vars
<1>2. ASSUME NEW s \in Servers, Emit(s) \/ EmitDone(s) \/ WatchEnds(s) \/ Webhook(s) \/ AddSyncSource(s) PROVE NewestInv'
  BY <1>2, <1>a DEF Emit, EmitDone, WatchEnds, Webhook, AddSyncSource
<1>3. ASSUME NEW s \in Servers, Start(s) \/ Stop(s) PROVE NewestInv'
  <2>1. [Down EXCEPT !.pc = "loop", !.starts = listener[s].starts + 1].pc # "resolving"
        /\ [Down EXCEPT !.starts = listener[s].starts].pc # "resolving"
    BY DEF Down
  <2> QED BY <1>0, <1>3, <1>a, <2>1 DEF Start, Stop
<1>4. ASSUME NEW s \in Servers, ReadBatch(s) PROVE NewestInv'
  <2>1. listener[s].pc = "loop" /\ UNCHANGED <<rows, settled, disturbed>>
    BY <1>4 DEF ReadBatch
  <2>2. UNCHANGED listener \/ \E b : listener' = [listener EXCEPT ![s].batch = b]
    BY <1>4 DEF ReadBatch
  <2>3. listener[s] \in Listener
    BY <1>0
  <2>4. \A b : [listener[s] EXCEPT !.batch = b].pc = "loop"
    BY <2>1, <2>3 DEF Listener
  <2> QED BY <1>0, <1>a, <2>1, <2>2, <2>4
<1>5. ASSUME NEW s \in Servers, Ignore(s) \/ HandlerFails(s) \/ HandlerDone(s) PROVE NewestInv'
  BY <1>0, <1>5, <1>a, <1>b DEF Ignore, HandlerFails, HandlerDone
<1>6. ASSUME NEW s \in Servers, ReadEntity(s) PROVE NewestInv'
  <2>1. listener[s].pc = "loop" /\ listener[s].batch # <<>> /\ UNCHANGED <<rows, settled, disturbed>>
    BY <1>6 DEF ReadEntity
  <2>2. PICK i \in 0 .. Len(rows[Key(s)]) :
          listener' = [listener EXCEPT ![s].pc = "resolving", ![s].seenRow = i,
                                       ![s].seen = IF i = 0 THEN NoRow ELSE rows[Key(s)][i]]
    BY <1>6 DEF ReadEntity
  <2>3. listener'[s].seenRow = i /\ listener'[s].batch = listener[s].batch
    BY <1>0, <2>2 DEF Listener
  <2>4. Key(s)' = Key(s)
    BY <2>3 DEF Key, Event
  <2>5. ASSUME NEW t \in Servers, t # s PROVE listener'[t] = listener[t] /\ Key(t)' = Key(t)
    BY <1>0, <2>2, <2>5 DEF Key, Event
  <2>6. SeenRows'
    BY <1>0, <2>1, <2>3, <2>4, <2>5 DEF SeenRows
  <2> QED BY <2>1, <2>6, NothingSettled
<1>7. ASSUME NEW s \in Servers, CommitEntity(s) PROVE NewestInv'
  BY <1>7, CommitKeepsOrder
<1>8. ASSUME NEW s \in Servers, ResolveTargets(s) PROVE NewestInv'
  <2>1. /\ UNCHANGED <<rows, settled, disturbed>>
        /\ \E p : listener' = [listener EXCEPT ![s].pc = "fanout", ![s].todo = p]
    BY <1>8 DEF ResolveTargets
  <2>2. \A p : [listener[s] EXCEPT !.pc = "fanout", !.todo = p].pc = "fanout"
    BY <1>0 DEF Listener
  <2> QED BY <1>0, <1>a, <2>1, <2>2
<1>9. ASSUME NEW s \in Servers, QueueMessage(s) PROVE NewestInv'
  <2>1. /\ listener[s].pc = "fanout" /\ UNCHANGED <<rows, settled, disturbed>>
        /\ \E pair : listener' = [listener EXCEPT ![s].todo = @ \ {pair}]
    BY <1>9 DEF QueueMessage
  <2>2. \A p : [listener[s] EXCEPT !.todo = p].pc = "fanout"
    BY <1>0, <2>1 DEF Listener
  <2> QED BY <1>0, <1>a, <2>1, <2>2
<1> QED
  BY <1>1, <1>2, <1>3, <1>4, <1>5, <1>6, <1>7, <1>8, <1>9 DEF Next, Handle

\* ConflictResolver.resolve: an entity whose events arrive in the order of their
\* stamps and are settled one at a time has one row, which holds the newest of
\* them and counts them, for any number of events and listeners.
THEOREM NewestIsKept == Spec => []NewestKept
<1>1. Init => NewestInv
  <2>1. ASSUME Init PROVE NewestInv
    <3>1. /\ \A s \in Servers : listener[s].pc = "down"
          /\ \A e \in Events : settled[e] = 0
          /\ \A k \in Keys : rows[k] = <<>>
      BY <2>1 DEF Init, Down
    <3>2. \A k \in Keys : Mine(k) = {}
      BY <3>1 DEF Mine
    <3> QED BY <3>1, <3>2 DEF NewestInv, SeenRows, Orderly
  <2> QED BY <2>1
<1>2. NewestInv => NewestKept
  <2>1. ASSUME NewestInv, NEW k \in Keys \ disturbed, Mine(k) # {}
        PROVE  /\ Len(rows[k]) = 1
               /\ (CHOOSE e \in Mine(k) : \A f \in Mine(k) : f <= e) \in rows[k][1].payload
               /\ rows[k][1].version = Cardinality(Mine(k))
    <3>1. /\ Len(rows[k]) = 1 /\ rows[k][1].version = Cardinality(Mine(k))
          /\ rows[k][1].at \in Mine(k) \cap rows[k][1].payload /\ \A f \in Mine(k) : f <= rows[k][1].at
      BY <2>1 DEF NewestInv, Orderly
    <3>2. PICK newest : newest = CHOOSE e \in Mine(k) : \A f \in Mine(k) : f <= e
      OBVIOUS
    <3>3. newest \in Mine(k) /\ \A f \in Mine(k) : f <= newest
      BY <3>1, <3>2
    <3>4. newest = rows[k][1].at
      BY <3>1, <3>3, MineTyped
    <3> QED BY <3>1, <3>2, <3>4
  <2> QED BY <2>1 DEF NewestKept, Mine
<1> QED BY <1>1, <1>2, InitEventInv, EventInvStep, NewestInvStep, PTL DEF Spec
=============================================================================
