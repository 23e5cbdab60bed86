----------------------------- MODULE LogStreams -----------------------------
(***************************************************************************)
(* A core's output on its way to the clients that read it: the log bus,    *)
(* the goroutine of Runner.Logs (pump), that of Backend.LogStream (relay), *)
(* and the handler StreamBackendLogs.  Lines are numbered as they come.    *)
(***************************************************************************)
EXTENDS Naturals, Sequences

CONSTANTS Streams,
          Kept,         \* lines the bus keeps (maxLines)
          Capacity,     \* of the channels
          MaxLines      \* bound

ASSUME LogsAssumption == {Kept, Capacity, MaxLines} \subseteq Nat \ {0}

VARIABLES
    line,               \* the last line published
    sub, src, out,      \* the channels: bus to pump to relay to handler
    pump, relay,        \* where the goroutines are
    backlog,            \* the pump: what is left of the snapshot
    hand,               \* the relay: the line it sends, or none
    handler, client,    \* the handler; is the client there?
    \* history, read by the properties only
    got,                \* lines sent to the client
    since,              \* the last line when the stream began
    missed              \* streams for which the bus dropped a line

logVars == <<line, sub, src, out, pump, relay, backlog, hand, handler, client, got, since, missed>>

Lines == 1..MaxLines

LogsTypeOK ==
    /\ line \in 0..MaxLines
    /\ {sub, src, out, backlog, hand, got} \subseteq [Streams -> Seq(Lines)]
    /\ \A s \in Streams : \A channel \in {sub[s], src[s], out[s]} : Len(channel) <= Capacity
    /\ pump \in [Streams -> {"off", "snapshot", "forward"}]
    /\ relay \in [Streams -> {"off", "select", "send"}]
    /\ handler \in [Streams -> {"none", "sending", "returned"}]
    /\ client \in [Streams -> BOOLEAN]
    /\ since \in [Streams -> 0..MaxLines]
    /\ missed \subseteq Streams

Each(x) == [s \in Streams |-> x]

LogsInit ==
    /\ line = 0 /\ missed = {}
    /\ sub = Each(<<>>) /\ src = Each(<<>>) /\ out = Each(<<>>) /\ got = Each(<<>>)
    /\ backlog = Each(<<>>) /\ hand = Each(<<>>)
    /\ pump = Each("off") /\ relay = Each("off") /\ handler = Each("none")
    /\ client = Each(FALSE) /\ since = Each(0)

\* ... and it is so again when the process has gone.
LogsReset ==
    /\ line' = 0 /\ missed' = {}
    /\ sub' = Each(<<>>) /\ src' = Each(<<>>) /\ out' = Each(<<>>) /\ got' = Each(<<>>)
    /\ backlog' = Each(<<>>) /\ hand' = Each(<<>>)
    /\ pump' = Each("off") /\ relay' = Each("off") /\ handler' = Each("none")
    /\ client' = Each(FALSE) /\ since' = Each(0)

\* Faulty variant: a channel that holds one line more.
HasRoomPlusOne(channel) == Len(channel) <= Capacity
HasRoom(channel) == Len(channel) < Capacity

\* LogBus.Subscribe comes before the goroutine of Logs starts.  Faulty variant:
\* after the snapshot has been sent.
ListensLate(s) == pump[s] = "forward" /\ backlog[s] = <<>>
Listens(s) == pump[s] # "off"

\* LogBus.Publish: a subscriber without room misses the line.
Publish ==
    /\ line < MaxLines /\ line' = line + 1
    /\ sub' = [s \in Streams |-> IF Listens(s) /\ HasRoom(sub[s]) THEN Append(sub[s], line + 1)
                                 ELSE sub[s]]
    /\ missed' = missed \cup {s \in Streams : pump[s] # "off" /\ ~HasRoom(sub[s])}
    /\ UNCHANGED <<src, out, pump, relay, backlog, hand, handler, client, got, since>>

\* StreamBackendLogs, with LogStream and Logs up to where goroutines take over.
Open(s) ==
    /\ handler[s] = "none" /\ handler' = [handler EXCEPT ![s] = "sending"]
    /\ \E first \in {"snapshot", "forward"} : pump' = [pump EXCEPT ![s] = first]
    /\ relay' = [relay EXCEPT ![s] = "select"]
    /\ client' = [client EXCEPT ![s] = TRUE]
    /\ since' = [since EXCEPT ![s] = line]
    /\ UNCHANGED <<line, sub, src, out, backlog, hand, got, missed>>

\* The last lines of the buffer.
Snapshot(s) ==
    /\ pump[s] = "snapshot" /\ pump' = [pump EXCEPT ![s] = "forward"]
    /\ LET first == IF line > Kept THEN line - Kept ELSE 0
       IN backlog' = [backlog EXCEPT ![s] = [i \in 1..(line - first) |-> first + i]]
    /\ UNCHANGED <<line, sub, src, out, relay, hand, handler, client, got, since, missed>>

\* First the snapshot, then what is published.  The pump never ends.
Pump(s) ==
    /\ pump[s] = "forward" /\ HasRoom(src[s])
    /\ \/ /\ backlog[s] # <<>>
          /\ src' = [src EXCEPT ![s] = Append(@, Head(backlog[s]))]
          /\ backlog' = [backlog EXCEPT ![s] = Tail(@)] /\ sub' = sub
       \/ /\ backlog[s] = <<>> /\ sub[s] # <<>>
          /\ src' = [src EXCEPT ![s] = Append(@, Head(sub[s]))]
          /\ sub' = [sub EXCEPT ![s] = Tail(@)] /\ backlog' = backlog
    /\ UNCHANGED <<line, out, pump, relay, hand, handler, client, got, since, missed>>

RelayTakes(s) ==
    /\ relay[s] = "select" /\ src[s] # <<>>
    /\ hand' = [hand EXCEPT ![s] = <<Head(src[s])>>] /\ src' = [src EXCEPT ![s] = Tail(@)]
    /\ relay' = [relay EXCEPT ![s] = "send"]
    /\ UNCHANGED <<line, sub, out, pump, backlog, handler, client, got, since, missed>>

\* It waits here for room, whether the client is there or not.
RelaySends(s) ==
    /\ relay[s] = "send" /\ HasRoom(out[s])
    /\ out' = [out EXCEPT ![s] = @ \o hand[s]] /\ hand' = [hand EXCEPT ![s] = <<>>]
    /\ relay' = [relay EXCEPT ![s] = "select"]
    /\ UNCHANGED <<line, sub, src, pump, backlog, handler, client, got, since, missed>>

\* The relay sees that the stream's context is over, and closes the channel.
\* Faulty variant: only when the pump closes its own.
SourceClosed(s) == pump[s] = "off"
ContextDone(s) == ~client[s]

RelayEnds(s) ==
    /\ relay[s] = "select" /\ ContextDone(s)
    /\ relay' = [relay EXCEPT ![s] = "off"]
    /\ UNCHANGED <<line, sub, src, out, pump, backlog, hand, handler, client, got, since, missed>>

\* stream.Send fails once the client has gone.
Send(s) ==
    /\ handler[s] = "sending" /\ out[s] # <<>>
    /\ out' = [out EXCEPT ![s] = Tail(@)]
    /\ IF client[s]
       THEN got' = [got EXCEPT ![s] = Append(@, Head(out[s]))] /\ handler' = handler
       ELSE handler' = [handler EXCEPT ![s] = "returned"] /\ got' = got
    /\ UNCHANGED <<line, sub, src, pump, relay, backlog, hand, client, since, missed>>

OutClosed(s) ==
    /\ handler[s] = "sending" /\ out[s] = <<>> /\ relay[s] = "off"
    /\ handler' = [handler EXCEPT ![s] = "returned"]
    /\ UNCHANGED <<line, sub, src, out, pump, relay, backlog, hand, client, got, since, missed>>

Leave(s) ==
    /\ client[s] /\ client' = [client EXCEPT ![s] = FALSE]
    /\ UNCHANGED <<line, sub, src, out, pump, relay, backlog, hand, handler, got, since, missed>>

Pumping(s) == Snapshot(s) \/ Pump(s)
Relaying(s) == RelayTakes(s) \/ RelaySends(s) \/ RelayEnds(s)
Handling(s) == Send(s) \/ OutClosed(s)

-----------------------------------------------------------------------------
ElementsOf(seq) == {seq[i] : i \in 1..Len(seq)}

\* Where a line of stream s can be.
Carried(s) == UNION {ElementsOf(q) : q \in {got[s], out[s], hand[s], src[s], backlog[s], sub[s]}}

\* A stream has all lines, from some line that was there when it began to the
\* last, delivered or on their way, unless it was too slow for the bus; also
\* where the snapshot and the subscription meet (Runner.Logs,
\* xray/runner.go:175-194, hysteria2/runner.go:132-148, singbox/runner.go:164-180).
NoGap ==
    \A s \in Streams \ missed :
        handler[s] = "sending" /\ client[s] /\ pump[s] # "snapshot" =>
            \E first \in 1..(since[s] + 1) : Carried(s) = first..line

-----------------------------------------------------------------------------
(* The inductive invariant behind NoGap *)

\* A stream that was never opened carries nothing.
NotOpened(s) ==
    /\ pump[s] = "off" /\ relay[s] = "off" /\ handler[s] = "none" /\ ~client[s]
    /\ \A channel \in {sub[s], src[s], out[s], backlog[s], hand[s], got[s]} : channel = <<>>

\* The relay has a line in hand only while it sends it, the pump has nothing of
\* a snapshot that it has not taken.
InHand(s) ==
    /\ handler[s] = "none" => NotOpened(s)
    /\ handler[s] # "none" => pump[s] # "off"
    /\ Len(hand[s]) <= 1 /\ (relay[s] # "send" => hand[s] = <<>>)
    /\ pump[s] = "snapshot" => backlog[s] = <<>>
    /\ since[s] <= line

\* Until the pump has taken the snapshot, the lines are those that have been
\* published since; from then on they go back to one that was there before.
Reached(s) ==
    s \notin missed /\ handler[s] = "sending" /\ client[s] =>
        IF pump[s] = "snapshot"
        THEN Carried(s) = (since[s] + 1)..line
        ELSE \E first \in 1..(since[s] + 1) : Carried(s) = first..line

LogsInv == \A s \in Streams : InHand(s) /\ Reached(s)
=============================================================================
