------------------------------- MODULE Events -------------------------------
(***************************************************************************)
(* Events from a tool to the agents: sources publish them to a Redis       *)
(* stream (app/services/event_stream.py, polling_listener.py, cli_watch.py,*)
(* app/api/v1/events.py); each server's EventListener reads the stream as  *)
(* one consumer of a group, settles the entity's state with the            *)
(* ConflictResolver and queues a message for every target                  *)
(* (app/services/event_listener.py, conflict_resolver.py).                 *)
(*                                                                         *)
(* Every await of the handler is a point where it may raise - the database *)
(* fails, or SQLAlchemy refuses a row that the last commit expired - or    *)
(* where the process stops.                                                *)
(***************************************************************************)
EXTENDS Discovery, Sequences

CONSTANTS
  NumEvents,     \* bound: events that are ever emitted, numbered in that order
  Servers,       \* processes, each with one EventListener and its sources
  BatchSize,     \* EVENT_STREAM_BATCH
  MaxLen,        \* EVENT_STREAM_MAXLEN
  MaxStarts,     \* bound: how often each process is started
  KeyOf,         \* the entity key of each event
  MergedEvents,  \* the events whose policy is "merge"; the others' is last_write_wins
  TargetOf,      \* target_agent_id of each event, as a set; {} when it has none
  Known          \* the events that carry the id of a registered tool

Events == 1 .. NumEvents
Keys == {KeyOf[e] : e \in Events}

ASSUME EventsAssumption ==
  /\ NumEvents \in Nat /\ BatchSize \in Nat \ {0} /\ MaxLen \in Nat \ {0}
  /\ MaxStarts \in Nat
  /\ MergedEvents \subseteq Events /\ Known \subseteq Events
  /\ TargetOf \in [Events -> SUBSET Agents]
  /\ DOMAIN KeyOf = Events

VARIABLES
  emitted,       \* the clock: events stamped so far
  stream,        \* the stream's entries, in order; a trimmed one keeps its place
  oldest,        \* the first entry that is not trimmed
  cursor,        \* the group's last-delivered-id: what ">" starts after
  configured,    \* whether the tool's exec_params name an event source
  source,        \* the polling or CLI task of each process
  listener,      \* what the listener of each process is doing
  rows,          \* entity_states: the rows of each entity key
  messages,      \* the agent messages queued, as <<event, agent, protocol>>
  settled,       \* history: how often each event reached the resolver's commit
  ended,         \* history: how the handling of an event ended
  aimed,         \* history: the agents and protocols an event was to reach
  disturbed      \* history: keys with a late event or with resolutions that overlapped

vars == <<emitted, stream, oldest, cursor, configured, source, listener, rows, messages,
          settled, ended, aimed, disturbed>>
streamVars == <<stream, oldest, cursor>>
sourceVars == <<emitted, configured, source>>

-----------------------------------------------------------------------------

Entries == {stream[i] : i \in 1 .. Len(stream)}
Read == {stream[i] : i \in 1 .. cursor}

\* seen: the row the resolver read (0: none), and its values then.
Row == [payload: SUBSET Events, at: 0 .. NumEvents, version: Nat]
NoRow == [payload |-> {}, at |-> 0, version |-> 0]

\* "loop": between two events; "resolving": the tool and the entity are read;
\* "resolved": the entity is committed; "fanout": the targets are known.
ListenerPC == {"down", "loop", "resolving", "resolved", "fanout"}

Listener == [pc: ListenerPC, starts: 0 .. MaxStarts, batch: Seq(Events), seenRow: Nat, seen: Row,
             todo: SUBSET (Agents \X Protocols)]

Down == [pc |-> "down", starts |-> 0, batch |-> <<>>, seenRow |-> 0, seen |-> NoRow, todo |-> {}]

Endings == {"unread", "ignored", "handled", "failed", "lost"}

TypeOK ==
  /\ emitted \in 0 .. NumEvents
  /\ stream \in Seq(Events)
  /\ oldest \in 1 .. Len(stream) + 1
  /\ cursor \in 0 .. Len(stream)
  /\ configured \in BOOLEAN
  /\ source \in [Servers -> [pc: {"off", "waiting", "publishing"}, event: 0 .. NumEvents]]
  /\ \A s \in Servers : source[s].pc = "publishing" <=> source[s].event # 0
  /\ listener \in [Servers -> Listener]
  /\ rows \in [Keys -> Seq(Row)]
  /\ messages \subseteq Events \X Agents \X Protocols
  /\ settled \in [Events -> Nat]
  /\ ended \in [Events -> Endings]
  /\ aimed \in [Events -> SUBSET (Agents \X Protocols)]
  /\ disturbed \subseteq Keys

Init ==
  /\ emitted = 0
  /\ stream = <<>> /\ oldest = 1 /\ cursor = 0
  /\ configured = FALSE
  /\ source = [s \in Servers |-> [pc |-> "off", event |-> 0]]
  /\ listener = [s \in Servers |-> Down]
  /\ rows = [k \in Keys |-> <<>>]
  /\ messages = {}
  /\ settled = [e \in Events |-> 0]
  /\ ended = [e \in Events |-> "unread"]
  /\ aimed = [e \in Events |-> {}]
  /\ disturbed = {}

Up(s) == listener[s].pc # "down"
Handling(s) == listener[s].pc \in {"resolving", "resolved", "fanout"}
Event(s) == Head(listener[s].batch)

-----------------------------------------------------------------------------
(* EventStream.publish *)

\* XADD with an approximate MAXLEN drops entries off the front, as many as it
\* likes as long as MaxLen are left.  A failure is logged and the event gone.
Publish(e) ==
  \/ UNCHANGED streamVars
  \/ /\ stream' = Append(stream, e)
     /\ oldest' \in {i \in oldest .. Len(stream) + 1 : i = oldest \/ Len(stream) + 2 - i >= MaxLen}
     /\ UNCHANGED cursor

-----------------------------------------------------------------------------
(* Sources.  An event is stamped where it is made and published on a       *)
(* thread, so that events may reach the stream out of the stamps' order.   *)

\* _poll_loop and _run_watch have data: _ingest_event stamps it.
Emit(s) ==
  /\ source[s].pc = "waiting" /\ emitted < NumEvents
  /\ emitted' = emitted + 1
  /\ source' = [source EXCEPT ![s] = [pc |-> "publishing", event |-> emitted + 1]]
  /\ UNCHANGED <<streamVars, configured, listener, rows, messages, settled, ended, aimed, disturbed>>

\* (mutant) The published event is not forgotten.
EmitAgain(s) ==
  /\ source[s].pc = "publishing"
  /\ Publish(source[s].event)
  /\ source' = [source EXCEPT ![s].pc = IF Up(s) THEN "waiting" ELSE "off"]
  /\ UNCHANGED <<emitted, configured, listener, rows, messages, settled, ended, aimed, disturbed>>

\* The thread publishes, though the task that started it may be cancelled.
EmitDone(s) ==
  /\ source[s].pc = "publishing"
  /\ Publish(source[s].event)
  /\ source' = [source EXCEPT ![s] = [pc |-> IF Up(s) THEN "waiting" ELSE "off", event |-> 0]]
  /\ UNCHANGED <<emitted, configured, listener, rows, messages, settled, ended, aimed, disturbed>>

\* The watched command ends, or could not be started; a poll has no end.
WatchEnds(s) ==
  /\ source[s].pc = "waiting"
  /\ source' = [source EXCEPT ![s].pc = "off"]
  /\ UNCHANGED <<emitted, streamVars, configured, listener, rows, messages, settled, ended, aimed, disturbed>>

\* POST /events/webhook/{tool_id} stamps and publishes in one go.
Webhook(s) ==
  /\ Up(s) /\ emitted < NumEvents
  /\ emitted' = emitted + 1
  /\ Publish(emitted + 1)
  /\ UNCHANGED <<configured, source, listener, rows, messages, settled, ended, aimed, disturbed>>

\* POST /events/sync stores the source and then fails: no code sets
\* app.state.event_listener, so the listeners are not restarted.  A second
\* source is appended to the very list the row was loaded with, the row
\* compares equal and is not written: configured stays what it is.
AddSyncSource(s) ==
  /\ Up(s)
  /\ configured' = TRUE
  /\ UNCHANGED <<emitted, streamVars, source, listener, rows, messages, settled, ended, aimed, disturbed>>

-----------------------------------------------------------------------------
(* EventListener.start and stop, and the death of the process *)

\* start makes sure of the group (a second XGROUP CREATE changes nothing) and
\* starts the sources the database names at that moment.
Start(s) ==
  /\ ~Up(s) /\ listener[s].starts < MaxStarts
  /\ listener' = [listener EXCEPT ![s] = [Down EXCEPT !.pc = "loop", !.starts = listener[s].starts + 1]]
  /\ source' = [source EXCEPT ![s].pc = IF @ = "off" /\ configured THEN "waiting" ELSE @]
  /\ UNCHANGED <<emitted, streamVars, configured, rows, messages, settled, ended, aimed, disturbed>>

\* A cancelled loop drops what is left of its batch, which nobody reads again;
\* so does a crash.  A publishing thread outlives the one, not the other.
Stop(s) ==
  /\ Up(s)
  /\ listener' = [listener EXCEPT ![s] = [Down EXCEPT !.starts = listener[s].starts]]
  /\ \E crash \in BOOLEAN :
       source' = [source EXCEPT ![s] =
         IF @.pc = "publishing" /\ ~crash THEN @ ELSE [pc |-> "off", event |-> 0]]
  /\ ended' = [e \in Events |-> IF \E i \in DOMAIN listener[s].batch : listener[s].batch[i] = e
                                THEN "lost" ELSE ended[e]]
  /\ UNCHANGED <<emitted, streamVars, configured, rows, messages, settled, aimed, disturbed>>

-----------------------------------------------------------------------------
(* EventStream.read and the consume loop *)

\* (mutant) The pending entries of the consumer are read again.
UndeliveredOrPending == {i \in 1 .. Len(stream) : i >= oldest}

\* What XREADGROUP ">" hands out: entries after the last one delivered to any
\* consumer of the group.
Undelivered == {i \in 1 .. Len(stream) : i > cursor /\ i >= oldest}

\* The first BatchSize of them.
NextBatch == {i \in Undelivered : Cardinality({j \in Undelivered : j <= i}) <= BatchSize}

\* The group moves on when Redis answers.  An answer that does not arrive, or
\* arrives at a loop that was cancelled meanwhile, is lost with its events.
ReadBatch(s) ==
  /\ listener[s].pc = "loop" /\ listener[s].batch = <<>>
  /\ \E first, last \in NextBatch :
     LET batch == SubSeq(stream, first, last) IN
     /\ NextBatch \subseteq first .. last
     /\ cursor' = last
     /\ \/ /\ listener' = [listener EXCEPT ![s].batch = batch]
           /\ UNCHANGED ended
        \/ /\ ended' = [e \in Events |-> IF \E i \in DOMAIN batch : batch[i] = e THEN "lost" ELSE ended[e]]
           /\ UNCHANGED listener
  /\ UNCHANGED <<sourceVars, stream, oldest, rows, messages, settled, aimed, disturbed>>

\* The event is done: the loop turns to the next one.  Its acknowledgement is
\* a coroutine that asyncio.to_thread creates and nobody awaits: no XACK.
NextEvent(s) == [listener[s] EXCEPT !.pc = "loop", !.batch = Tail(@), !.seenRow = 0, !.seen = NoRow, !.todo = {}]

\* _handle_event returns at once for an event that names no registered tool.
Ignore(s) ==
  /\ listener[s].pc = "loop" /\ listener[s].batch # <<>>
  /\ Event(s) \notin Known
  /\ listener' = [listener EXCEPT ![s] = NextEvent(s)]
  /\ ended' = [ended EXCEPT ![Event(s)] = "ignored"]
  /\ UNCHANGED <<sourceVars, streamVars, rows, messages, settled, aimed, disturbed>>

\* (mutant) The try block is around the whole batch.
FailDropsBatch(s) ==
  /\ Handling(s)
  /\ listener' = [listener EXCEPT ![s] = [NextEvent(s) EXCEPT !.batch = <<>>]]
  /\ ended' = [ended EXCEPT ![Event(s)] = "failed"]
  /\ UNCHANGED <<sourceVars, streamVars, rows, messages, settled, aimed, disturbed>>

\* An exception is logged; what was committed stays.
HandlerFails(s) ==
  /\ Handling(s)
  /\ listener' = [listener EXCEPT ![s] = NextEvent(s)]
  /\ ended' = [ended EXCEPT ![Event(s)] = "failed"]
  /\ UNCHANGED <<sourceVars, streamVars, rows, messages, settled, aimed, disturbed>>

-----------------------------------------------------------------------------
(* ConflictResolver.resolve *)

Key(s) == KeyOf[Event(s)]

\* The tool, its metadata and then the entity are read: only the last can
\* change under the handler.  entity_key is not unique: if two listeners
\* inserted a row each, the one that first() returns is the database's choice.
ReadEntity(s) ==
  /\ listener[s].pc = "loop" /\ listener[s].batch # <<>>
  /\ Event(s) \in Known
  /\ \E i \in 0 .. Len(rows[Key(s)]) :
       /\ i = 0 <=> rows[Key(s)] = <<>>
       /\ listener' = [listener EXCEPT ![s].pc = "resolving", ![s].seenRow = i,
                                       ![s].seen = IF i = 0 THEN NoRow ELSE rows[Key(s)][i]]
  /\ UNCHANGED <<sourceVars, streamVars, rows, messages, settled, ended, aimed, disturbed>>

\* (mutant) The comparison of the stamps is the wrong way round.
OlderWins(e, seen) == IF e \in MergedEvents THEN seen.payload \cup {e}
                      ELSE IF e <= seen.at THEN {e} ELSE seen.payload

\* The payload the resolver stores, as the events it comes from.
Resolved(e, seen) == IF e \in MergedEvents THEN seen.payload \cup {e}
                     ELSE IF e >= seen.at THEN {e} ELSE seen.payload

\* The UPDATE writes the columns that changed against the reading: a payload
\* that lost is not written.  updated_at is the event's stamp, won or lost.
Stored(row, e, seen) ==
  [payload |-> IF Resolved(e, seen) = seen.payload THEN row.payload ELSE Resolved(e, seen),
   at |-> e, version |-> seen.version + 1]

CommitEntity(s) ==
  /\ listener[s].pc = "resolving"
  /\ LET e == Event(s)  k == Key(s)  i == listener[s].seenRow  seen == listener[s].seen IN
     /\ rows' = [rows EXCEPT ![k] =
          IF i = 0 THEN Append(rows[k], [payload |-> {e}, at |-> e, version |-> 1])
          ELSE [rows[k] EXCEPT ![i] = Stored(rows[k][i], e, seen)]]
     /\ settled' = [settled EXCEPT ![e] = @ + 1]
     /\ disturbed' = IF e < seen.at \/ (i = 0 /\ rows[k] # <<>>) \/ (i # 0 /\ rows[k][i] # seen)
                     THEN disturbed \cup {k} ELSE disturbed
  /\ listener' = [listener EXCEPT ![s].pc = "resolved"]
  /\ UNCHANGED <<sourceVars, streamVars, messages, ended, aimed>>

-----------------------------------------------------------------------------
(* EventListener._dispatch *)

\* The agent the event names, or every active one.
Targets(e, active) == IF TargetOf[e] # {} THEN TargetOf[e] ELSE active

\* The ping loops of all servers rewrite is_active all the time: the agents
\* found active are those of some round.
ResolveTargets(s) ==
  /\ listener[s].pc = "resolved"
  /\ \E active \in PingRound(Agents) :
     LET pairs == {pair \in Targets(Event(s), active) \X Protocols : pair[2] \in Speaks[pair[1]]} IN
     /\ listener' = [listener EXCEPT ![s].pc = "fanout", ![s].todo = pairs]
     /\ aimed' = [aimed EXCEPT ![Event(s)] = pairs]
  /\ UNCHANGED <<sourceVars, streamVars, rows, messages, settled, ended, disturbed>>

\* _queue_agent_message: a task and its message in one commit per pair.
QueueMessage(s) ==
  /\ listener[s].pc = "fanout"
  /\ \E pair \in listener[s].todo :
       /\ messages' = messages \cup {<<Event(s), pair[1], pair[2]>>}
       /\ listener' = [listener EXCEPT ![s].todo = @ \ {pair}]
  /\ UNCHANGED <<sourceVars, streamVars, rows, settled, ended, aimed, disturbed>>

\* (mutant) The dispatch returns after the first message.
FanOutStopsEarly(s) == Cardinality(listener[s].todo) <= 1

FanOutComplete(s) == listener[s].todo = {}

HandlerDone(s) ==
  /\ listener[s].pc = "fanout" /\ FanOutComplete(s)
  /\ listener' = [listener EXCEPT ![s] = NextEvent(s)]
  /\ ended' = [ended EXCEPT ![Event(s)] = "handled"]
  /\ UNCHANGED <<sourceVars, streamVars, rows, messages, settled, aimed, disturbed>>

-----------------------------------------------------------------------------

Handle(s) ==
  Ignore(s) \/ ReadEntity(s) \/ CommitEntity(s) \/ ResolveTargets(s) \/ QueueMessage(s) \/ HandlerDone(s)

Next ==
  \/ \E s \in Servers :
       \/ Emit(s) \/ EmitDone(s) \/ WatchEnds(s) \/ Webhook(s) \/ AddSyncSource(s)
       \/ Start(s) \/ Stop(s)
       \/ ReadBatch(s) \/ Handle(s) \/ HandlerFails(s)

\* A loop that has work goes on with it: the event loop runs, calls return.
Fairness == \A s \in Servers : WF_vars(ReadBatch(s)) /\ WF_vars(Handle(s))

Spec == Init /\ [][Next]_vars /\ Fairness

-----------------------------------------------------------------------------
(* Properties *)

\* An event is settled at most once and reaches the agents it was aimed at, no
\* others: what a group delivered it never delivers again, to whichever
\* consumer, after whichever restart (EventStream.read asks for ">").
AtMostOnce ==
  /\ \A e \in Events : settled[e] <= 1
  /\ \A s \in Servers : \A i \in DOMAIN listener[s].batch : ended[listener[s].batch[i]] = "unread"

\* The fan-out is as good as its ending says: an event that ended without an
\* exception has a message for every agent and protocol it was aimed at; one
\* that failed or was lost midway has some of them, never others
\* (_dispatch commits once per agent and protocol).
FanOut ==
  \A e \in Events :
    LET reached == {<<m[2], m[3]>> : m \in {n \in messages : n[1] = e}} IN
    /\ reached \subseteq aimed[e]
    /\ ended[e] = "handled" => reached = aimed[e]
    /\ ended[e] \in {"unread", "ignored"} /\ settled[e] = 0 => reached = {}

\* While the events of an entity arrive in the order of their stamps and are
\* settled one at a time, the entity has one row, whose payload holds the
\* newest of them and whose version counts them (ConflictResolver.resolve; it
\* takes no lock and stamps the row with losers too, so more is not true).
NewestKept ==
  \A k \in Keys \ disturbed :
    LET mine == {e \in Events : KeyOf[e] = k /\ settled[e] > 0} IN
    mine # {} =>
      /\ Len(rows[k]) = 1
      /\ (CHOOSE e \in mine : \A f \in mine : f <= e) \in rows[k][1].payload
      /\ rows[k][1].version = Cardinality(mine)

Trimmed(e) == \E i \in 1 .. oldest - 1 : stream[i] = e

\* An event in the stream is dealt with - handled, ignored, failed and logged,
\* or lost with the process that had read it - unless it is trimmed first or
\* no listener is left: an exception of one event does not hold up the next.
\* As only NumEvents are emitted, this is that the stream is always worked off.
StreamIsWorkedOff ==
  []<>(\/ \A e \in Entries : ended[e] # "unread" \/ Trimmed(e)
       \/ \A s \in Servers : ~Up(s))
=============================================================================
