--------------------------- MODULE ProgramProofs ---------------------------
(***************************************************************************)
(* Proofs about the log streams and the program, for any number of streams *)
(* and backends, any capacity of the channels and size of the log buffer.  *)
(***************************************************************************)
EXTENDS Program, SequenceTheorems, TLAPS

-----------------------------------------------------------------------------
(* The lines in a channel *)

LEMMA ElementsEmpty == ElementsOf(<<>>) = {}
  BY DEF ElementsOf

LEMMA ElementsAppend ==
    ASSUME NEW S, NEW q \in Seq(S), NEW x \in S
    PROVE  ElementsOf(Append(q, x)) = ElementsOf(q) \cup {x}
  <1>1. /\ Len(Append(q, x)) = Len(q) + 1 /\ Len(q) \in Nat
        /\ \A i \in 1..Len(q) : Append(q, x)[i] = q[i]
        /\ Append(q, x)[Len(q) + 1] = x
    BY AppendProperties, LenProperties
  <1>2. 1..(Len(q) + 1) = (1..Len(q)) \cup {Len(q) + 1}
    BY <1>1
  <1>3. QED
    BY <1>1, <1>2 DEF ElementsOf

LEMMA ElementsHeadTail ==
    ASSUME NEW S, NEW q \in Seq(S), q # <<>>
    PROVE  ElementsOf(q) = {Head(q)} \cup ElementsOf(Tail(q))
  <1>1. /\ Len(q) \in Nat \ {0} /\ Len(Tail(q)) = Len(q) - 1 /\ Head(q) = q[1]
        /\ \A i \in 1..Len(Tail(q)) : Tail(q)[i] = q[i + 1]
    BY HeadTailProperties, EmptySeq, LenProperties
  <1>2. \A i \in 1..Len(q) : i = 1 \/ (i - 1 \in 1..Len(Tail(q)) /\ q[i] = Tail(q)[i - 1])
    BY <1>1
  <1>3. \A i \in 1..Len(Tail(q)) : i + 1 \in 1..Len(q)
    BY <1>1
  <1>4. 1 \in 1..Len(q)
    BY <1>1
  <1>5. ASSUME NEW x \in ElementsOf(q)
        PROVE  x \in {Head(q)} \cup ElementsOf(Tail(q))
    <2>1. PICK i \in 1..Len(q) : x = q[i]
      BY <1>5 DEF ElementsOf
    <2>2. CASE i = 1
      BY <1>1, <2>1, <2>2
    <2>3. CASE i - 1 \in 1..Len(Tail(q)) /\ q[i] = Tail(q)[i - 1]
      BY <2>1, <2>3 DEF ElementsOf
    <2>4. QED
      BY <1>2, <2>2, <2>3
  <1>6. ASSUME NEW x \in {Head(q)} \cup ElementsOf(Tail(q))
        PROVE  x \in ElementsOf(q)
    <2>1. CASE x = Head(q)
      BY <1>1, <1>4, <2>1 DEF ElementsOf
    <2>2. CASE x \in ElementsOf(Tail(q))
      <3>1. PICK i \in 1..Len(Tail(q)) : x = Tail(q)[i]
        BY <2>2 DEF ElementsOf
      <3>2. x = q[i + 1]
        BY <1>1, <3>1
      <3>3. QED
        BY <1>3, <3>2 DEF ElementsOf
    <2>3. QED
      BY <1>6, <2>1, <2>2
  <1>7. QED
    BY <1>5, <1>6

LEMMA ElementsConcat ==
    ASSUME NEW S, NEW p \in Seq(S), NEW q \in Seq(S)
    PROVE  ElementsOf(p \o q) = ElementsOf(p) \cup ElementsOf(q)
  <1>1. /\ Len(p \o q) = Len(p) + Len(q) /\ Len(p) \in Nat /\ Len(q) \in Nat
        /\ \A i \in 1..(Len(p) + Len(q)) :
              (p \o q)[i] = IF i <= Len(p) THEN p[i] ELSE q[i - Len(p)]
    BY ConcatProperties, LenProperties
  <1>2. \A i \in 1..Len(p) : i \in 1..(Len(p) + Len(q)) /\ (p \o q)[i] = p[i]
    BY <1>1
  <1>3. \A i \in 1..Len(q) :
           i + Len(p) \in 1..(Len(p) + Len(q)) /\ (p \o q)[i + Len(p)] = q[i]
    BY <1>1
  <1>4. \A i \in 1..(Len(p) + Len(q)) :
           \/ i \in 1..Len(p)
           \/ i - Len(p) \in 1..Len(q) /\ (p \o q)[i] = q[i - Len(p)]
    BY <1>1
  <1>5. Len(p) + Len(q) = Len(p \o q)
    BY <1>1
  <1>6. ASSUME NEW x \in ElementsOf(p \o q)
        PROVE  x \in ElementsOf(p) \cup ElementsOf(q)
    <2>1. PICK i \in 1..(Len(p) + Len(q)) : x = (p \o q)[i]
      BY <1>5, <1>6 DEF ElementsOf
    <2>2. CASE i \in 1..Len(p)
      BY <1>2, <2>1, <2>2 DEF ElementsOf
    <2>3. CASE i - Len(p) \in 1..Len(q) /\ (p \o q)[i] = q[i - Len(p)]
      BY <2>1, <2>3 DEF ElementsOf
    <2>4. QED
      BY <1>4, <2>2, <2>3
  <1>7. ASSUME NEW x \in ElementsOf(p)
        PROVE  x \in ElementsOf(p \o q)
    BY <1>2, <1>5 DEF ElementsOf
  <1>8. ASSUME NEW x \in ElementsOf(q)
        PROVE  x \in ElementsOf(p \o q)
    <2>1. PICK i \in 1..Len(q) : x = q[i]
      BY <1>8 DEF ElementsOf
    <2>2. QED
      BY <1>3, <1>5, <2>1 DEF ElementsOf
  <1>9. QED
    BY <1>6, <1>7, <1>8

LEMMA ElementsOne ==
    ASSUME NEW x
    PROVE  ElementsOf(<<x>>) = {x}
  BY DEF ElementsOf

\* The sequence of the n lines after line f.
LEMMA ElementsRun ==
    ASSUME NEW f \in Nat, NEW n \in Nat, NEW q, q = [i \in 1..n |-> f + i], f + n <= MaxLines
    PROVE  q \in Seq(Lines) /\ ElementsOf(q) = (f + 1)..(f + n)
  <1>1. MaxLines \in Nat
    BY LogsAssumption
  <1>2. q \in [1..n -> Lines]
    BY <1>1 DEF Lines
  <1>3. q \in Seq(Lines)
    BY <1>2, SeqDef
  <1>4. Len(q) = n
    <2>1. DOMAIN q = 1..n /\ DOMAIN q = 1..Len(q) /\ Len(q) \in Nat
      BY <1>2, <1>3, LenProperties
    <2>2. QED
      BY <2>1
  <1>5. \A x \in (f + 1)..(f + n) : x - f \in 1..n /\ q[x - f] = x
    OBVIOUS
  <1>6. \A j \in 1..n : q[j] \in (f + 1)..(f + n)
    OBVIOUS
  <1>7. ElementsOf(q) = (f + 1)..(f + n)
    <2>1. ASSUME NEW x \in ElementsOf(q) PROVE x \in (f + 1)..(f + n)
      BY <1>4, <1>6 DEF ElementsOf
    <2>2. ASSUME NEW x \in (f + 1)..(f + n) PROVE x \in ElementsOf(q)
      BY <1>4, <1>5 DEF ElementsOf
    <2>3. QED
      BY <2>1, <2>2
  <1>8. QED
    BY <1>3, <1>7

\* With one line in a channel more, or its first line less.
LEMMA Longer ==
    ASSUME NEW q \in Seq(Lines), NEW x \in Lines, HasRoom(q)
    PROVE  /\ Append(q, x) \in Seq(Lines) /\ Len(Append(q, x)) <= Capacity
           /\ ElementsOf(Append(q, x)) = ElementsOf(q) \cup {x}
  <1>1. Append(q, x) \in Seq(Lines) /\ Len(Append(q, x)) = Len(q) + 1 /\ Len(q) \in Nat
    BY AppendProperties, LenProperties
  <1>2. Capacity \in Nat
    BY LogsAssumption
  <1>3. QED
    BY <1>1, <1>2, ElementsAppend DEF HasRoom

LEMMA Shorter ==
    ASSUME NEW q \in Seq(Lines), q # <<>>
    PROVE  /\ Tail(q) \in Seq(Lines) /\ Head(q) \in Lines
           /\ Len(q) <= Capacity => Len(Tail(q)) <= Capacity
           /\ ElementsOf(q) = {Head(q)} \cup ElementsOf(Tail(q))
  <1>1. Tail(q) \in Seq(Lines) /\ Head(q) \in Lines /\ Len(Tail(q)) = Len(q) - 1 /\ Len(q) \in Nat
    BY HeadTailProperties, LenProperties
  <1>2. Capacity \in Nat
    BY LogsAssumption
  <1>3. QED
    BY <1>1, <1>2, ElementsHeadTail

LEMMA Joined ==
    ASSUME NEW p \in Seq(Lines), NEW q \in Seq(Lines), HasRoom(p), Len(q) <= 1
    PROVE  /\ p \o q \in Seq(Lines) /\ Len(p \o q) <= Capacity
           /\ ElementsOf(p \o q) = ElementsOf(p) \cup ElementsOf(q)
  <1>1. Len(p \o q) = Len(p) + Len(q) /\ Len(p) \in Nat /\ Len(q) \in Nat
    BY ConcatProperties, LenProperties
  <1>2. Capacity \in Nat
    BY LogsAssumption
  <1>3. Len(p \o q) <= Capacity
    BY <1>1, <1>2 DEF HasRoom
  <1>4. QED
    BY <1>3, ConcatProperties, ElementsConcat

LEMMA CarriedAlt ==
    ASSUME NEW s
    PROVE  Carried(s) = ElementsOf(got[s]) \cup ElementsOf(out[s]) \cup ElementsOf(hand[s])
                        \cup ElementsOf(src[s]) \cup ElementsOf(backlog[s]) \cup ElementsOf(sub[s])
  BY DEF Carried

-----------------------------------------------------------------------------
(* Steps of one stream *)

\* The type invariant in two parts, channel by channel.
ChannelsOK ==
    /\ line \in 0..MaxLines
    /\ sub \in [Streams -> Seq(Lines)] /\ src \in [Streams -> Seq(Lines)]
    /\ out \in [Streams -> Seq(Lines)] /\ backlog \in [Streams -> Seq(Lines)]
    /\ hand \in [Streams -> Seq(Lines)] /\ got \in [Streams -> Seq(Lines)]
    /\ \A s \in Streams : /\ Len(sub[s]) <= Capacity /\ Len(src[s]) <= Capacity
                          /\ Len(out[s]) <= Capacity

ControlOK ==
    /\ pump \in [Streams -> {"off", "snapshot", "forward"}]
    /\ relay \in [Streams -> {"off", "select", "send"}]
    /\ handler \in [Streams -> {"none", "sending", "returned"}]
    /\ client \in [Streams -> BOOLEAN]
    /\ since \in [Streams -> 0..MaxLines]
    /\ missed \subseteq Streams

LEMMA ChannelTypes ==
    /\ LogsTypeOK <=> ChannelsOK /\ ControlOK
    /\ LogsTypeOK' <=> ChannelsOK' /\ ControlOK'
  BY DEF LogsTypeOK, ChannelsOK, ControlOK

\* Nothing of stream t changes.
Untouched(t) ==
    /\ sub'[t] = sub[t] /\ src'[t] = src[t] /\ out'[t] = out[t] /\ backlog'[t] = backlog[t]
    /\ hand'[t] = hand[t] /\ got'[t] = got[t] /\ pump'[t] = pump[t] /\ relay'[t] = relay[t]
    /\ handler'[t] = handler[t] /\ client'[t] = client[t] /\ since'[t] = since[t]

LEMMA UntouchedKeeps ==
    ASSUME NEW t \in Streams, InHand(t), Reached(t), Untouched(t), line' = line, missed' = missed
    PROVE  InHand(t)' /\ Reached(t)'
  <1>1. Carried(t)' = Carried(t)
    BY DEF Untouched, Carried
  <1>2. Reached(t)'
    BY <1>1 DEF Untouched, Reached
  <1>3. NotOpened(t) => NotOpened(t)'
    BY DEF Untouched, NotOpened
  <1>4. InHand(t)'
    BY <1>3 DEF Untouched, InHand
  <1>5. QED
    BY <1>2, <1>4

\* A stream steps: lines move, and its end may have come.
LEMMA StreamMoves ==
    ASSUME LogsInv, NEW s \in Streams, \A t \in Streams \ {s} : Untouched(t),
           line' = line, missed' = missed, since'[s] = since[s], pump'[s] = pump[s],
           handler[s] # "none", handler'[s] \in {"sending", "returned"},
           relay'[s] # "send" => hand'[s] = <<>>, Len(hand'[s]) <= 1, pump[s] = "snapshot" => backlog'[s] = <<>>,
           handler'[s] = "sending" /\ client'[s] =>
              handler[s] = "sending" /\ client[s] /\ Carried(s)' = Carried(s)
    PROVE  LogsInv'
  <1>1. \A t \in Streams : InHand(t) /\ Reached(t)
    BY DEF LogsInv
  <1>2. Reached(s)'
    BY <1>1 DEF Reached
  <1>3. InHand(s)'
    BY <1>1 DEF InHand
  <1>4. QED
    BY <1>1, <1>2, <1>3, UntouchedKeeps DEF LogsInv

\* The pump takes the buffer of the bus.
LEMMA SnapshotKeeps ==
    ASSUME LogsTypeOK, LogsInv, NEW s \in Streams, Snapshot(s)
    PROVE  LogsTypeOK' /\ LogsInv'
  <1> DEFINE first == IF line > Kept THEN line - Kept ELSE 0
             lines == [i \in 1..(line - first) |-> first + i]
  <1>1. \A t \in Streams : InHand(t) /\ Reached(t)
    BY DEF LogsInv
  <1>2. ChannelsOK /\ ControlOK
    BY ChannelTypes
  <1>3. /\ pump[s] = "snapshot" /\ pump' = [pump EXCEPT ![s] = "forward"]
        /\ backlog' = [backlog EXCEPT ![s] = lines]
        /\ UNCHANGED <<line, sub, src, out, relay, hand, handler, client, got, since, missed>>
    BY DEF Snapshot
  <1>4. /\ line \in 0..MaxLines /\ line - first \in Nat /\ first \in 0..line /\ MaxLines \in Nat
    BY <1>2, LogsAssumption DEF ChannelsOK
  <1>5. lines \in Seq(Lines) /\ ElementsOf(lines) = (first + 1)..line
    <2> HIDE DEF first
    <2>1. first + (line - first) = line /\ first \in Nat /\ line <= MaxLines
      BY <1>4
    <2>2. QED
      BY <1>4, <2>1, ElementsRun
  <1> HIDE DEF lines, first
  <1>6. LogsTypeOK'
    <2>1. ChannelsOK'
      BY <1>2, <1>3, <1>5 DEF ChannelsOK
    <2>2. ControlOK'
      BY <1>2, <1>3 DEF ControlOK
    <2>3. QED
      BY <2>1, <2>2, ChannelTypes
  <1>7. \A t \in Streams \ {s} : InHand(t)' /\ Reached(t)'
    <2>1. \A t \in Streams \ {s} : Untouched(t)
      BY <1>2, <1>3 DEF ChannelsOK, ControlOK, Untouched
    <2>2. QED
      BY <1>1, <1>3, <2>1, UntouchedKeeps
  <1>8. pump'[s] = "forward" /\ backlog'[s] = lines
    BY <1>2, <1>3 DEF ChannelsOK, ControlOK
  <1>9. InHand(s)'
    BY <1>1, <1>3, <1>8 DEF InHand, NotOpened
  <1>10. Reached(s)'
    <2>1. SUFFICES ASSUME s \notin missed, handler[s] = "sending", client[s]
                   PROVE  \E f \in 1..(since[s] + 1) : Carried(s)' = f..line
      BY <1>3, <1>8 DEF Reached
    <2>2. /\ Carried(s) = (since[s] + 1)..line /\ backlog[s] = <<>>
          /\ since[s] \in Nat /\ since[s] <= line
      BY <1>1, <1>2, <1>3, <2>1 DEF Reached, InHand, ControlOK
    <2>3. Carried(s)' = Carried(s) \cup ElementsOf(lines)
      <3>1. Carried(s)' = ElementsOf(got[s]) \cup ElementsOf(out[s]) \cup ElementsOf(hand[s])
                \cup ElementsOf(src[s]) \cup ElementsOf(lines) \cup ElementsOf(sub[s])
        BY <1>3, <1>8 DEF Carried
      <3>2. QED
        BY <2>2, <3>1, ElementsEmpty, CarriedAlt
    <2>4. Carried(s)' = ((since[s] + 1)..line) \cup ((first + 1)..line)
      BY <1>5, <2>2, <2>3
    <2>5. CASE since[s] <= first
      <3>1. Carried(s)' = (since[s] + 1)..line
        BY <1>4, <2>2, <2>4, <2>5
      <3>2. QED
        BY <2>2, <3>1
    <2>6. CASE first < since[s]
      <3>1. Carried(s)' = (first + 1)..line
        BY <1>4, <2>2, <2>4, <2>6
      <3>2. first + 1 \in 1..(since[s] + 1)
        BY <1>4, <2>2, <2>6
      <3>3. QED
        BY <3>1, <3>2
    <2>7. QED
      BY <1>4, <2>2, <2>5, <2>6
  <1>11. QED
    BY <1>6, <1>7, <1>9, <1>10 DEF LogsInv

\* The pump hands a line on.
LEMMA PumpKeeps ==
    ASSUME LogsTypeOK, LogsInv, NEW s \in Streams, Pump(s)
    PROVE  LogsTypeOK' /\ LogsInv'
  <1>1. InHand(s) /\ ChannelsOK /\ ControlOK
    BY ChannelTypes DEF LogsInv
  <1>2. /\ pump[s] = "forward" /\ HasRoom(src[s])
        /\ UNCHANGED <<line, out, pump, relay, hand, handler, client, got, since, missed>>
    BY DEF Pump
  <1>3. /\ ChannelsOK' /\ \A t \in Streams \ {s} : Untouched(t)
        /\ ElementsOf(src'[s]) \cup ElementsOf(backlog'[s]) \cup ElementsOf(sub'[s])
           = ElementsOf(src[s]) \cup ElementsOf(backlog[s]) \cup ElementsOf(sub[s])
    <2>1. CASE backlog[s] # <<>>
      <3>1. /\ src' = [src EXCEPT ![s] = Append(@, Head(backlog[s]))]
            /\ backlog' = [backlog EXCEPT ![s] = Tail(@)] /\ sub' = sub
        BY <2>1 DEF Pump
      <3>2. /\ Tail(backlog[s]) \in Seq(Lines) /\ Head(backlog[s]) \in Lines
            /\ ElementsOf(backlog[s]) = {Head(backlog[s])} \cup ElementsOf(Tail(backlog[s]))
        BY <1>1, <2>1, Shorter DEF ChannelsOK
      <3>3. LET q == Append(src[s], Head(backlog[s])) IN
            /\ q \in Seq(Lines) /\ Len(q) <= Capacity
            /\ ElementsOf(q) = ElementsOf(src[s]) \cup {Head(backlog[s])}
        BY <1>1, <1>2, <3>2, Longer DEF ChannelsOK
      <3>4. ChannelsOK'
        BY <1>1, <1>2, <3>1, <3>2, <3>3 DEF ChannelsOK
      <3>5. QED
        BY <1>1, <1>2, <3>1, <3>2, <3>3, <3>4 DEF ChannelsOK, Untouched
    <2>2. CASE backlog[s] = <<>>
      <3>1. /\ src' = [src EXCEPT ![s] = Append(@, Head(sub[s]))] /\ sub[s] # <<>>
            /\ sub' = [sub EXCEPT ![s] = Tail(@)] /\ backlog' = backlog
        BY <2>2 DEF Pump
      <3>2. /\ Tail(sub[s]) \in Seq(Lines) /\ Head(sub[s]) \in Lines
            /\ Len(Tail(sub[s])) <= Capacity
            /\ ElementsOf(sub[s]) = {Head(sub[s])} \cup ElementsOf(Tail(sub[s]))
        BY <1>1, <3>1, Shorter DEF ChannelsOK
      <3>3. LET q == Append(src[s], Head(sub[s])) IN
            /\ q \in Seq(Lines) /\ Len(q) <= Capacity
            /\ ElementsOf(q) = ElementsOf(src[s]) \cup {Head(sub[s])}
        BY <1>1, <1>2, <3>2, Longer DEF ChannelsOK
      <3>4. ChannelsOK'
        BY <1>1, <1>2, <3>1, <3>2, <3>3 DEF ChannelsOK
      <3>5. QED
        BY <1>1, <1>2, <3>1, <3>2, <3>3, <3>4 DEF ChannelsOK, Untouched
    <2>3. QED
      BY <2>1, <2>2
  <1>4. Carried(s)' = Carried(s)
    <2>1. Carried(s)' = ElementsOf(got[s]) \cup ElementsOf(out[s]) \cup ElementsOf(hand[s])
              \cup ElementsOf(src'[s]) \cup ElementsOf(backlog'[s]) \cup ElementsOf(sub'[s])
      BY <1>2 DEF Carried
    <2>2. QED
      BY <1>3, <2>1, CarriedAlt
  <1>5. handler[s] \in {"sending", "returned"}
    BY <1>1, <1>2 DEF InHand, NotOpened, ControlOK
  <1>6. LogsInv'
    BY <1>1, <1>2, <1>3, <1>4, <1>5, StreamMoves DEF InHand
  <1>7. ControlOK'
    BY <1>1, <1>2 DEF ControlOK
  <1>8. QED
    BY <1>3, <1>6, <1>7, ChannelTypes

\* The relay takes a line, hands it on, or ends once the client has gone.
LEMMA RelayingKeeps ==
    ASSUME LogsTypeOK, LogsInv, NEW s \in Streams, Relaying(s)
    PROVE  LogsTypeOK' /\ LogsInv'
  <1>1. InHand(s) /\ ChannelsOK /\ ControlOK
    BY ChannelTypes DEF LogsInv
  <1>2. UNCHANGED <<line, sub, pump, backlog, handler, client, got, since, missed>>
    BY DEF Relaying, RelayTakes, RelaySends, RelayEnds
  <1>3. handler[s] \in {"sending", "returned"}
    BY <1>1 DEF Relaying, RelayTakes, RelaySends, RelayEnds, InHand, NotOpened, ControlOK
  <1>4. /\ ChannelsOK' /\ ControlOK' /\ \A t \in Streams \ {s} : Untouched(t)
        /\ relay'[s] # "send" => hand'[s] = <<>>
        /\ Len(hand'[s]) <= 1
        /\ client[s] => ElementsOf(src'[s]) \cup ElementsOf(hand'[s]) \cup ElementsOf(out'[s])
                        = ElementsOf(src[s]) \cup ElementsOf(hand[s]) \cup ElementsOf(out[s])
    <2>1. CASE RelayTakes(s)
      <3>1. /\ relay[s] = "select" /\ src[s] # <<>> /\ out' = out
            /\ hand' = [hand EXCEPT ![s] = <<Head(src[s])>>]
            /\ src' = [src EXCEPT ![s] = Tail(@)]
            /\ relay' = [relay EXCEPT ![s] = "send"]
        BY <2>1 DEF RelayTakes
      <3>2. /\ Tail(src[s]) \in Seq(Lines) /\ Head(src[s]) \in Lines
            /\ Len(Tail(src[s])) <= Capacity
            /\ ElementsOf(src[s]) = {Head(src[s])} \cup ElementsOf(Tail(src[s]))
        BY <1>1, <3>1, Shorter DEF ChannelsOK
      <3>3. /\ <<Head(src[s])>> \in Seq(Lines) /\ Len(<<Head(src[s])>>) = 1
            /\ ElementsOf(<<Head(src[s])>>) = {Head(src[s])}
        BY <3>2, ElementsOne
      <3>4. ElementsOf(hand[s]) = {}
        BY <1>1, <3>1, ElementsEmpty DEF InHand
      <3>5. ChannelsOK'
        BY <1>1, <1>2, <3>1, <3>2, <3>3 DEF ChannelsOK
      <3>6. ControlOK' /\ relay'[s] = "send"
        BY <1>1, <1>2, <3>1 DEF ControlOK
      <3>7. \A t \in Streams \ {s} : Untouched(t)
        BY <1>1, <1>2, <3>1 DEF ChannelsOK, ControlOK, Untouched
      <3>8. hand'[s] = <<Head(src[s])>> /\ src'[s] = Tail(src[s]) /\ out'[s] = out[s]
        BY <1>1, <3>1 DEF ChannelsOK
      <3>9. QED
        BY <3>2, <3>3, <3>4, <3>5, <3>6, <3>7, <3>8
    <2>2. CASE RelaySends(s)
      <3>1. /\ relay[s] = "send" /\ HasRoom(out[s]) /\ src' = src
            /\ out' = [out EXCEPT ![s] = @ \o hand[s]] /\ hand' = [hand EXCEPT ![s] = <<>>]
            /\ relay' = [relay EXCEPT ![s] = "select"]
        BY <2>2 DEF RelaySends
      <3>2. /\ out[s] \o hand[s] \in Seq(Lines)
            /\ Len(out[s] \o hand[s]) <= Capacity
            /\ ElementsOf(out[s] \o hand[s]) = ElementsOf(out[s]) \cup ElementsOf(hand[s])
        <4>1. out[s] \in Seq(Lines) /\ hand[s] \in Seq(Lines) /\ Len(hand[s]) <= 1
          BY <1>1 DEF ChannelsOK, InHand
        <4>2. QED
          BY <3>1, <4>1, Joined
      <3>3. <<>> \in Seq(Lines) /\ Len(<<>>) = 0 /\ ElementsOf(<<>>) = {}
        BY ElementsEmpty
      <3>4. ChannelsOK'
        BY <1>1, <1>2, <3>1, <3>2, <3>3 DEF ChannelsOK
      <3>5. ControlOK'
        BY <1>1, <1>2, <3>1 DEF ControlOK
      <3>6. QED
        BY <1>1, <1>2, <3>1, <3>2, <3>3, <3>4, <3>5 DEF ChannelsOK, ControlOK, Untouched
    <2>3. CASE RelayEnds(s)
      <3>1. /\ relay[s] = "select" /\ relay' = [relay EXCEPT ![s] = "off"]
            /\ UNCHANGED <<src, hand, out>>
        BY <2>3 DEF RelayEnds
      <3>2. ChannelsOK' /\ ControlOK'
        BY <1>1, <1>2, <3>1 DEF ChannelsOK, ControlOK
      <3>3. QED
        BY <1>1, <1>2, <3>1, <3>2 DEF ControlOK, Untouched, InHand
    <2>4. QED
      BY <2>1, <2>2, <2>3 DEF Relaying
  <1>5. client[s] => Carried(s)' = Carried(s)
    <2>1. Carried(s)' = ElementsOf(got[s]) \cup ElementsOf(out'[s]) \cup ElementsOf(hand'[s])
              \cup ElementsOf(src'[s]) \cup ElementsOf(backlog[s]) \cup ElementsOf(sub[s])
      BY <1>2 DEF Carried
    <2>2. QED
      BY <1>4, <2>1, CarriedAlt
  <1>6. LogsInv'
    BY <1>1, <1>2, <1>3, <1>4, <1>5, StreamMoves DEF InHand
  <1>7. QED
    BY <1>4, <1>6, ChannelTypes

\* The handler sends a line, or returns when it cannot or when the relay ended.
LEMMA HandlingKeeps ==
    ASSUME LogsTypeOK, LogsInv, NEW s \in Streams, Handling(s)
    PROVE  LogsTypeOK' /\ LogsInv'
  <1>1. InHand(s) /\ ChannelsOK /\ ControlOK
    BY ChannelTypes DEF LogsInv
  <1>2. /\ handler[s] = "sending"
        /\ UNCHANGED <<line, sub, src, pump, relay, backlog, hand, client, since, missed>>
    BY DEF Handling, Send, OutClosed
  <1>3. CASE Send(s)
    <2>1. out[s] # <<>> /\ out' = [out EXCEPT ![s] = Tail(@)]
      BY <1>3 DEF Send
    <2>2. /\ Tail(out[s]) \in Seq(Lines) /\ Head(out[s]) \in Lines
          /\ Len(Tail(out[s])) <= Capacity
          /\ ElementsOf(out[s]) = {Head(out[s])} \cup ElementsOf(Tail(out[s]))
      BY <1>1, <2>1, Shorter DEF ChannelsOK
    <2>3. CASE client[s]
      <3>1. got' = [got EXCEPT ![s] = Append(@, Head(out[s]))] /\ handler' = handler
        BY <1>3, <2>3 DEF Send
      <3>2. /\ Append(got[s], Head(out[s])) \in Seq(Lines)
            /\ ElementsOf(Append(got[s], Head(out[s]))) = ElementsOf(got[s]) \cup {Head(out[s])}
        BY <1>1, <2>2, AppendProperties, ElementsAppend DEF ChannelsOK
      <3>3. ChannelsOK' /\ ControlOK'
        BY <1>1, <1>2, <2>1, <2>2, <3>1, <3>2 DEF ChannelsOK, ControlOK
      <3>4. \A t \in Streams \ {s} : Untouched(t)
        BY <1>1, <1>2, <2>1, <3>1 DEF ChannelsOK, Untouched
      <3>5. Carried(s)' = Carried(s)
        <4>1. Carried(s)' = ElementsOf(got'[s]) \cup ElementsOf(out'[s]) \cup ElementsOf(hand[s])
                  \cup ElementsOf(src[s]) \cup ElementsOf(backlog[s]) \cup ElementsOf(sub[s])
          BY <1>2 DEF Carried
        <4>2. got'[s] = Append(got[s], Head(out[s])) /\ out'[s] = Tail(out[s])
          BY <1>1, <2>1, <3>1 DEF ChannelsOK
        <4>3. QED
          BY <2>2, <3>2, <4>1, <4>2, CarriedAlt
      <3>6. LogsInv'
        BY <1>1, <1>2, <2>3, <3>1, <3>4, <3>5, StreamMoves DEF InHand
      <3>7. QED
        BY <3>3, <3>6, ChannelTypes
    <2>4. CASE ~client[s]
      <3>1. handler' = [handler EXCEPT ![s] = "returned"] /\ got' = got
        BY <1>3, <2>4 DEF Send
      <3>2. ChannelsOK' /\ ControlOK'
        BY <1>1, <1>2, <2>1, <2>2, <3>1 DEF ChannelsOK, ControlOK
      <3>3. \A t \in Streams \ {s} : Untouched(t)
        BY <1>1, <1>2, <2>1, <3>1 DEF ChannelsOK, ControlOK, Untouched
      <3>4. handler'[s] = "returned"
        BY <1>1, <3>1 DEF ControlOK
      <3>5. LogsInv'
        BY <1>1, <1>2, <3>3, <3>4, StreamMoves DEF InHand
      <3>6. QED
        BY <3>2, <3>5, ChannelTypes
    <2>5. QED
      BY <2>3, <2>4
  <1>4. CASE OutClosed(s)
    <2>1. handler' = [handler EXCEPT ![s] = "returned"] /\ UNCHANGED <<out, got>>
      BY <1>4 DEF OutClosed
    <2>2. ChannelsOK' /\ ControlOK'
      BY <1>1, <1>2, <2>1 DEF ChannelsOK, ControlOK
    <2>3. \A t \in Streams \ {s} : Untouched(t)
      BY <1>1, <1>2, <2>1 DEF ControlOK, Untouched
    <2>4. handler'[s] = "returned"
      BY <1>1, <2>1 DEF ControlOK
    <2>5. LogsInv'
      BY <1>1, <1>2, <2>3, <2>4, StreamMoves DEF InHand
    <2>6. QED
      BY <2>2, <2>5, ChannelTypes
  <1>5. QED
    BY <1>3, <1>4 DEF Handling

LEMMA LeaveKeeps ==
    ASSUME LogsTypeOK, LogsInv, NEW s \in Streams, Leave(s)
    PROVE  LogsTypeOK' /\ LogsInv'
  <1>1. InHand(s) /\ ChannelsOK /\ ControlOK
    BY ChannelTypes DEF LogsInv
  <1>2. /\ client[s] /\ client' = [client EXCEPT ![s] = FALSE]
        /\ UNCHANGED <<line, sub, src, out, pump, relay, backlog, hand, handler, got, since, missed>>
    BY DEF Leave
  <1>3. ChannelsOK' /\ ControlOK'
    BY <1>1, <1>2 DEF ChannelsOK, ControlOK
  <1>4. \A t \in Streams \ {s} : Untouched(t)
    BY <1>1, <1>2 DEF ControlOK, Untouched
  <1>5. ~client'[s] /\ handler[s] \in {"sending", "returned"}
    BY <1>1, <1>2 DEF ControlOK, InHand, NotOpened
  <1>6. LogsInv'
    BY <1>1, <1>2, <1>4, <1>5, StreamMoves DEF InHand
  <1>7. QED
    BY <1>3, <1>6, ChannelTypes

\* A stream begins with nothing on its way.
LEMMA OpenKeeps ==
    ASSUME LogsTypeOK, LogsInv, NEW s \in Streams, Open(s)
    PROVE  LogsTypeOK' /\ LogsInv'
  <1>1. ChannelsOK /\ ControlOK /\ \A t \in Streams : InHand(t) /\ Reached(t)
    BY ChannelTypes DEF LogsInv
  <1>2. /\ handler[s] = "none" /\ handler' = [handler EXCEPT ![s] = "sending"]
        /\ \E p \in {"snapshot", "forward"} : pump' = [pump EXCEPT ![s] = p]
        /\ relay' = [relay EXCEPT ![s] = "select"]
        /\ client' = [client EXCEPT ![s] = TRUE] /\ since' = [since EXCEPT ![s] = line]
        /\ UNCHANGED <<line, sub, src, out, backlog, hand, got, missed>>
    BY DEF Open
  <1>3. ChannelsOK' /\ ControlOK'
    BY <1>1, <1>2 DEF ChannelsOK, ControlOK
  <1>4. \A t \in Streams \ {s} : Untouched(t)
    BY <1>1, <1>2 DEF ControlOK, Untouched
  <1>5. NotOpened(s) /\ since'[s] = line /\ line \in Nat
    BY <1>1, <1>2 DEF InHand, ControlOK, ChannelsOK
  <1>6. InHand(s)'
    BY <1>1, <1>2, <1>5 DEF InHand, NotOpened, ControlOK
  <1>7. Reached(s)'
    <2>1. Carried(s)' = {}
      BY <1>2, <1>5, ElementsEmpty DEF Carried, NotOpened
    <2>2. (since'[s] + 1)..line = {} /\ since'[s] + 1 \in 1..(since'[s] + 1)
      BY <1>5
    <2>3. QED
      BY <1>2, <2>1, <2>2 DEF Reached
  <1>8. LogsInv'
    BY <1>1, <1>2, <1>4, <1>6, <1>7, UntouchedKeeps DEF LogsInv
  <1>9. QED
    BY <1>3, <1>8, ChannelTypes

\* A line is put into the channel of every stream that has room.
LEMMA PublishKeeps ==
    ASSUME LogsTypeOK, LogsInv, Publish
    PROVE  LogsTypeOK' /\ LogsInv'
  <1>1. ChannelsOK /\ ControlOK /\ \A t \in Streams : InHand(t) /\ Reached(t)
    BY ChannelTypes DEF LogsInv
  <1>2. /\ line < MaxLines /\ line' = line + 1
        /\ missed' = missed \cup {s \in Streams : pump[s] # "off" /\ ~HasRoom(sub[s])}
        /\ UNCHANGED <<src, out, pump, relay, backlog, hand, handler, client, got, since>>
    BY DEF Publish
  <1>3. \A s \in Streams :
           sub'[s] = IF Listens(s) /\ HasRoom(sub[s]) THEN Append(sub[s], line + 1) ELSE sub[s]
    BY DEF Publish
  <1>4. line \in Nat /\ MaxLines \in Nat /\ line + 1 \in Lines
    BY <1>1, <1>2, LogsAssumption DEF ChannelsOK, Lines
  <1>5. ASSUME NEW s \in Streams, Listens(s), HasRoom(sub[s])
        PROVE  /\ sub'[s] \in Seq(Lines) /\ Len(sub'[s]) <= Capacity
               /\ ElementsOf(sub'[s]) = ElementsOf(sub[s]) \cup {line + 1}
    <2>1. sub'[s] = Append(sub[s], line + 1) /\ sub[s] \in Seq(Lines)
      BY <1>1, <1>3, <1>5 DEF ChannelsOK
    <2>2. QED
      BY <1>4, <1>5, <2>1, Longer
  <1>6. ChannelsOK' /\ ControlOK'
    <2>1. sub' \in [Streams -> Seq(Lines)]
      <3>1. \A s \in Streams : sub'[s] \in Seq(Lines)
        BY <1>1, <1>3, <1>5 DEF ChannelsOK
      <3>2. sub' = [s \in Streams |-> sub'[s]]
        BY DEF Publish
      <3>3. QED
        BY <3>1, <3>2
    <2>2. \A s \in Streams : Len(sub'[s]) <= Capacity
      BY <1>1, <1>3, <1>5 DEF ChannelsOK
    <2>3. QED
      BY <1>1, <1>2, <1>4, <2>1, <2>2 DEF ChannelsOK, ControlOK
  <1>7. ASSUME NEW s \in Streams
        PROVE  InHand(s)'
    <2>1. NotOpened(s) => sub'[s] = sub[s]
      BY <1>3 DEF NotOpened, Listens
    <2>2. NotOpened(s) => NotOpened(s)'
      BY <1>2, <2>1 DEF NotOpened
    <2>3. since[s] \in Nat
      BY <1>1 DEF ControlOK
    <2>4. QED
      BY <1>1, <1>2, <1>4, <2>2, <2>3 DEF InHand
  <1>8. ASSUME NEW s \in Streams, s \notin missed', handler[s] = "sending", client[s]
        PROVE  /\ Carried(s)' = Carried(s) \cup {line + 1} /\ s \notin missed
               /\ since[s] \in Nat /\ since[s] <= line
    <2>1. Listens(s) /\ HasRoom(sub[s]) /\ s \notin missed
      BY <1>1, <1>2, <1>8 DEF InHand, Listens
    <2>2. Carried(s)' = ElementsOf(got[s]) \cup ElementsOf(out[s]) \cup ElementsOf(hand[s])
              \cup ElementsOf(src[s]) \cup ElementsOf(backlog[s]) \cup ElementsOf(sub'[s])
      BY <1>2 DEF Carried
    <2>3. ElementsOf(sub'[s]) = ElementsOf(sub[s]) \cup {line + 1}
      BY <1>5, <2>1
    <2>4. Carried(s)' = Carried(s) \cup {line + 1}
      BY <2>2, <2>3, CarriedAlt
    <2>5. QED
      BY <1>1, <2>1, <2>4 DEF InHand, ControlOK
  <1>9. ASSUME NEW s \in Streams
        PROVE  Reached(s)'
    <2>1. SUFFICES ASSUME s \notin missed', handler[s] = "sending", client[s]
                   PROVE  IF pump[s] = "snapshot"
                          THEN Carried(s)' = (since[s] + 1)..(line + 1)
                          ELSE \E f \in 1..(since[s] + 1) : Carried(s)' = f..(line + 1)
      BY <1>2 DEF Reached
    <2>2. Reached(s) /\ s \notin missed /\ since[s] \in Nat /\ since[s] <= line
      BY <1>1, <1>8, <2>1
    <2>3. \A f \in 1..(since[s] + 1) : (f..line) \cup {line + 1} = f..(line + 1)
      BY <1>4, <2>2
    <2>4. since[s] + 1 \in 1..(since[s] + 1)
      BY <2>2
    <2>5. QED
      BY <1>8, <2>1, <2>2, <2>3, <2>4 DEF Reached
  <1>10. QED
    BY <1>6, <1>7, <1>9, ChannelTypes DEF LogsInv

\* Before the first stream, and again when the process has gone.
LEMMA InitLogs ==
    ASSUME LogsInit
    PROVE  LogsTypeOK /\ LogsInv
  <1>1. <<>> \in Seq(Lines) /\ Len(<<>>) = 0
    OBVIOUS
  <1>2. /\ MaxLines \in Nat /\ Capacity \in Nat
    BY LogsAssumption
  <1>3. LogsTypeOK
    BY <1>1, <1>2, ChannelTypes DEF LogsInit, Each, ChannelsOK, ControlOK
  <1>4. ASSUME NEW s \in Streams PROVE InHand(s) /\ Reached(s)
    <2>1. NotOpened(s)
      BY DEF LogsInit, Each, NotOpened
    <2>2. QED
      BY <1>1, <2>1 DEF LogsInit, Each, InHand, Reached, NotOpened
  <1>5. QED
    BY <1>3, <1>4 DEF LogsInv

LEMMA ResetLogs ==
    ASSUME LogsReset
    PROVE  LogsTypeOK' /\ LogsInv'
  <1>1. <<>> \in Seq(Lines) /\ Len(<<>>) = 0
    OBVIOUS
  <1>2. /\ MaxLines \in Nat /\ Capacity \in Nat
    BY LogsAssumption
  <1>3. LogsTypeOK'
    BY <1>1, <1>2, ChannelTypes DEF LogsReset, Each, ChannelsOK, ControlOK
  <1>4. ASSUME NEW s \in Streams PROVE InHand(s)' /\ Reached(s)'
    <2>1. NotOpened(s)'
      BY DEF LogsReset, Each, NotOpened
    <2>2. QED
      BY <1>1, <2>1 DEF LogsReset, Each, InHand, Reached, NotOpened
  <1>5. QED
    BY <1>3, <1>4 DEF LogsInv

LEMMA IdleLogs ==
    ASSUME LogsTypeOK, LogsInv, UNCHANGED logVars
    PROVE  LogsTypeOK' /\ LogsInv'
  <1>1. /\ UNCHANGED <<line, sub, src, out, pump, relay, backlog, hand, handler, client>>
        /\ UNCHANGED <<got, since, missed>>
    BY DEF logVars
  <1>2. LogsTypeOK'
    BY <1>1 DEF LogsTypeOK
  <1>3. \A s \in Streams : InHand(s) /\ Reached(s) /\ Untouched(s)
    BY <1>1 DEF LogsInv, Untouched
  <1>4. QED
    BY <1>1, <1>2, <1>3, UntouchedKeeps DEF LogsInv

-----------------------------------------------------------------------------
(* The program *)

\* The type invariant of main's variables.
MainTypeOK ==
    /\ phase \in {"off", "starting", "key", "cert", "load", "serving", "draining",
                  "stopping", "exited"}
    /\ boots \in 0..MaxBoots /\ started \in 0..Len(Backends)
    /\ cores \subseteq Ends /\ restarting \subseteq Ends /\ monitored \subseteq Ends
    /\ toStop \subseteq Ends /\ strays \subseteq Ends
    /\ feed \in [Feeds -> {"none", "open", "ending"}]
    /\ key \in Files /\ cert \in Files
    /\ spoiled \in BOOLEAN

LEMMA MainTypes ==
    /\ TypeOK <=> LogsTypeOK /\ MainTypeOK
    /\ TypeOK' <=> LogsTypeOK' /\ MainTypeOK'
  BY DEF TypeOK, MainTypeOK

\* A step of a stream or of a core that prints leaves main alone.
LEMMA MainIdle ==
    ASSUME MainTypeOK, FilesInv, CoresInv, UNCHANGED mainVars
    PROVE  MainTypeOK' /\ FilesInv' /\ CoresInv'
  BY DEF mainVars, coreVars, fileVars, MainTypeOK, FilesInv, CoresInv, HasBoth, Loads

LEMMA StreamStepKeeps ==
    ASSUME IInv, \/ \E s \in Streams : OpenStream(s) \/ StreamStep(s) \/ ClientLeaves(s)
                 \/ Output
    PROVE  IInv'
  <1>1. LogsTypeOK /\ MainTypeOK /\ LogsInv /\ FilesInv /\ CoresInv /\ UNCHANGED mainVars
    BY MainTypes DEF IInv, OpenStream, StreamStep, ClientLeaves, Output
  <1>2. LogsTypeOK' /\ LogsInv'
    <2>1. CASE Output
      BY <1>1, <2>1, PublishKeeps DEF Output
    <2>2. ASSUME NEW s \in Streams, OpenStream(s) \/ StreamStep(s) \/ ClientLeaves(s)
          PROVE  LogsTypeOK' /\ LogsInv'
      <3>1. \/ Open(s) \/ Snapshot(s) \/ Pump(s) \/ Relaying(s) \/ Handling(s) \/ Leave(s)
        BY <2>2 DEF OpenStream, StreamStep, ClientLeaves, Pumping
      <3>2. QED
        BY <1>1, <3>1, OpenKeeps, SnapshotKeeps, PumpKeeps, RelayingKeeps, HandlingKeeps,
           LeaveKeeps
    <2>3. QED
      BY <2>1, <2>2
  <1>3. QED
    BY <1>1, <1>2, MainIdle, MainTypes DEF IInv

\* The end of the process, or its crash, wherever it was.
LEMMA EndingKeeps ==
    ASSUME IInv, Crash \/ Exit
    PROVE  IInv'
  <1>1. LogsTypeOK /\ MainTypeOK /\ FilesInv /\ CoresInv /\ LogsReset
    BY MainTypes DEF IInv, Crash, Down, Exit, ProcessEnds
  <1>2. CASE Crash
    <2>1. /\ phase # "off" /\ phase' = "off" /\ restarting' = {} /\ toStop' = {}
          /\ monitored' = {} /\ feed' = [f \in Feeds |-> "none"]
          /\ spoiled' = (spoiled \/ (phase \in {"key", "cert"} /\ cert # Missing))
          /\ UNCHANGED <<boots, started, cores, strays, key, cert>>
      BY <1>2 DEF Crash, Down, ProcessEnds
    <2>2. MainTypeOK' /\ CoresInv'
      BY <1>1, <2>1 DEF MainTypeOK, CoresInv
    <2>3. FilesInv'
      BY <1>1, <2>1 DEF MainTypeOK, FilesInv, HasBoth, Loads
    <2>4. QED
      BY <1>1, <2>2, <2>3, ResetLogs, MainTypes DEF IInv
  <1>3. CASE Exit
    <2>1. /\ phase = "stopping" /\ toStop = {} /\ phase' = "exited" /\ restarting' = {}
          /\ monitored' = {} /\ feed' = [f \in Feeds |-> "none"]
          /\ UNCHANGED <<boots, started, cores, strays, toStop, key, cert, spoiled>>
      BY <1>3 DEF Exit, ProcessEnds, fileVars
    <2>2. MainTypeOK' /\ CoresInv' /\ FilesInv'
      BY <1>1, <2>1 DEF MainTypeOK, CoresInv, FilesInv, HasBoth, Loads
    <2>3. QED
      BY <1>1, <2>2, ResetLogs, MainTypes DEF IInv
  <1>4. QED
    BY <1>2, <1>3

\* The steps of main, of restarts, of the streams that wait for their client and
\* of the supervisor.
LEMMA MainStepKeeps ==
    ASSUME IInv,
           \/ Boot \/ StartBackend \/ Ensure \/ Truncate \/ Write \/ Load \/ Drained
           \/ StopBackend \/ Signal
           \/ \E b \in Ends : BeginRestart(b) \/ EndRestart(b) \/ MonitorBegins(b) \/ MonitorEnds(b)
           \/ \E f \in Feeds : OpenFeed(f) \/ FeedLeaves(f) \/ FeedReturns(f)
    PROVE  IInv'
  <1> USE DEF coreVars, fileVars, MainTypeOK, FilesInv, CoresInv, HasBoth, Loads
  <1>1. LogsTypeOK /\ MainTypeOK /\ LogsInv /\ FilesInv /\ CoresInv /\ UNCHANGED logVars
    BY MainTypes DEF IInv, Boot, StartBackend, Ensure, Truncate, Write, Load, Drained,
       StopBackend, Signal, BeginRestart, EndRestart, MonitorBegins, MonitorEnds, OpenFeed,
       FeedLeaves, FeedReturns, SetFeed
  <1>2. LogsTypeOK' /\ LogsInv'
    BY <1>1, IdleLogs
  <1>3. MaxBoots \in Nat /\ Missing # Torn /\ Missing \notin 0..MaxBoots /\ Torn \notin 0..MaxBoots
        /\ Len(Backends) \in Nat
    BY BootsAssumption, FilesAssumption, BackendsAssumption, LenProperties
  <1> DEFINE Good == MainTypeOK' /\ FilesInv' /\ CoresInv'
  <1>4. ASSUME Boot PROVE Good
    BY <1>1, <1>3, <1>4 DEF Boot
  <1>5. ASSUME StartBackend PROVE Good
    <2>1. /\ phase = "starting" /\ started < Len(Backends) /\ started' = started + 1
          /\ cores' = cores \cup {Backends[started + 1]}
          /\ UNCHANGED <<phase, boots, restarting, monitored, toStop, feed, strays, key, cert,
                         spoiled>>
      BY <1>5 DEF StartBackend
    <2>2. started + 1 \in 1..Len(Backends)
      BY <1>1, <1>3, <2>1
    <2>3. Backends[started + 1] \in Ends
      BY <2>2 DEF Ends
    <2>4. QED
      BY <1>1, <1>3, <2>1, <2>2, <2>3
  <1>6. ASSUME Ensure PROVE Good
    BY <1>1, <1>3, <1>6 DEF Ensure
  <1>7. ASSUME Truncate PROVE Good
    BY <1>1, <1>3, <1>7 DEF Truncate, Files
  <1>8. ASSUME Write PROVE Good
    BY <1>1, <1>3, <1>8 DEF Write, Files
  <1>9. ASSUME Load PROVE Good
    BY <1>1, <1>9 DEF Load
  <1>10. ASSUME Drained PROVE Good
    BY <1>1, <1>10 DEF Drained, AllReturned
  <1>11. ASSUME StopBackend PROVE Good
    BY <1>1, <1>11 DEF StopBackend
  <1>12. ASSUME Signal PROVE Good
    BY <1>1, <1>12 DEF Signal
  <1>13. ASSUME NEW b \in Ends,
                BeginRestart(b) \/ EndRestart(b) \/ MonitorBegins(b) \/ MonitorEnds(b)
         PROVE  Good
    <2>2. CASE BeginRestart(b)
      BY <1>1, <2>2 DEF BeginRestart
    <2>3. CASE EndRestart(b)
      BY <1>1, <2>3 DEF EndRestart
    <2>4. CASE MonitorBegins(b)
      BY <1>1, <2>4 DEF MonitorBegins
    <2>5. CASE MonitorEnds(b)
      <3>1. /\ b \in monitored /\ monitored' \subseteq Ends /\ cores' \subseteq Ends
            /\ cores' \subseteq cores \cup {b}
            /\ UNCHANGED <<phase, boots, started, restarting, toStop, feed, key, cert, spoiled>>
        BY <1>1, <2>5 DEF MonitorEnds
      <3>2. CASE phase = "stopping" /\ b \notin toStop
        <4>1. strays' = strays \cup {b}
          BY <2>5, <3>2 DEF MonitorEnds
        <4>2. QED
          BY <1>1, <3>1, <4>1
      <3>3. CASE ~(phase = "stopping" /\ b \notin toStop)
        <4>1. strays' = strays
          BY <2>5, <3>3 DEF MonitorEnds
        <4>2. phase # "exited"
          BY <1>1, <3>1
        <4>3. QED
          BY <1>1, <3>1, <3>3, <4>1, <4>2
      <3>4. QED
        BY <3>2, <3>3
    <2>6. QED
      BY <1>13, <2>2, <2>3, <2>4, <2>5
  <1>14. ASSUME NEW f \in Feeds, OpenFeed(f) \/ FeedLeaves(f) \/ FeedReturns(f) PROVE Good
    BY <1>1, <1>14 DEF OpenFeed, FeedLeaves, FeedReturns, SetFeed
  <1> HIDE DEF Good
  <1>15. Good
    BY <1>4, <1>5, <1>6, <1>7, <1>8, <1>9, <1>10, <1>11, <1>12, <1>13, <1>14
  <1>16. MainTypeOK' /\ FilesInv' /\ CoresInv'
    BY <1>15 DEF Good
  <1> HIDE DEF MainTypeOK, FilesInv, CoresInv
  <1>17. QED
    BY <1>2, <1>16, MainTypes DEF IInv

LEMMA InitIInv ==
    ASSUME Init
    PROVE  IInv
  <1>1. LogsTypeOK /\ LogsInv
    BY InitLogs DEF Init
  <1>2. MaxBoots \in Nat /\ Len(Backends) \in Nat
    BY BootsAssumption, BackendsAssumption, LenProperties
  <1>3. MainTypeOK /\ CoresInv
    <2>1. 0 \in 0..MaxBoots /\ 0 \in 0..Len(Backends)
      BY <1>2
    <2>2. key \in Files /\ cert \in Files
      BY <2>1 DEF Init, Files
    <2>3. QED
      BY <2>1, <2>2 DEF Init, MainTypeOK, CoresInv
  <1>4. FilesInv
    <2>1. Missing # 0 /\ Torn # 0
      BY <1>2, FilesAssumption
    <2>2. QED
      BY <2>1 DEF Init, FilesInv, HasBoth, Loads
  <1>5. QED
    BY <1>1, <1>3, <1>4, MainTypes DEF IInv

-----------------------------------------------------------------------------
(* Theorems *)

\* The inductive invariant: the lines of every stream, the files of the key
\* pair, and the cores that are up while main stops its backends
\* (main.go:35-128, util/logbus.go, tlsutil/tls.go).
THEOREM ProgramInvariant == Spec => []IInv
  <1>1. Init => IInv
    BY InitIInv
  <1>2. ASSUME IInv, [Next]_vars PROVE IInv'
    <2>1. CASE UNCHANGED vars
      <3>1. UNCHANGED mainVars /\ UNCHANGED logVars
        BY <2>1 DEF vars
      <3>2. QED
        BY <1>2, <3>1, MainIdle, IdleLogs, MainTypes DEF IInv
    <2>2. CASE Next
      BY <1>2, <2>2, StreamStepKeeps, EndingKeeps, MainStepKeeps DEF Next, Main
    <2>3. QED
      BY <1>2, <2>1, <2>2
  <1>3. QED
    BY <1>1, <1>2, PTL DEF Spec

\* Every variable keeps its type; no channel holds more than its capacity.
THEOREM ProgramTypes == Spec => []TypeOK
  <1>1. IInv => TypeOK
    BY DEF IInv
  <1>2. QED
    BY <1>1, ProgramInvariant, PTL

\* No stream that keeps up with the bus loses a line, neither where snapshot
\* and subscription meet nor in the channels to the client (Runner.Logs,
\* Backend.LogStream, StreamBackendLogs), for any number of streams.
THEOREM StreamsHaveNoGap == Spec => []NoGap
  <1>1. IInv => NoGap
    BY DEF IInv, LogsInv, Reached, NoGap
  <1>2. QED
    BY <1>1, ProgramInvariant, PTL

\* A pair that is loaded fits, through any number of crashes and starts, but
\* for a crash between the two files over an old certificate (tls.go:18-60).
THEOREM KeyPairMatches == Spec => []PairMatches
  <1>1. IInv => PairMatches
    BY DEF IInv, FilesInv, PairMatches, HasBoth
  <1>2. QED
    BY <1>1, ProgramInvariant, PTL

\* No RestartBackend call, of any number of them, leaves a core behind an exit on
\* a signal: those that are still up a monitor put there after main's Stop, or
\* that Stop only interrupted (main.go:115-127, xray/runner.go:160-162).
THEOREM NoCallLeavesCore == Spec => []CallsLeaveNoCore
  <1>1. IInv => CallsLeaveNoCore
    BY DEF IInv, CoresInv, CallsLeaveNoCore
  <1>2. QED
    BY <1>1, ProgramInvariant, PTL
=============================================================================
