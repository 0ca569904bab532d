------------------------------ MODULE StreamHub ------------------------------
(***************************************************************************)
(* The stream hub (stream/hub.go) and the server-sent-events handlers that *)
(* subscribe to it (handlers_stream.go): publishers hand quotes and account*)
(* events to the hub, which copies each to the buffered channel of every   *)
(* subscriber of that kind and drops it where the buffer is full.          *)
(*                                                                         *)
(* PublishQuote reads the clock before it takes the hub's mutex; what it   *)
(* does under the mutex is one step.  A message is its kind, its symbol and*)
(* the clock reading it was published with.                                *)
(***************************************************************************)
EXTENDS Integers, Sequences

CONSTANTS
  Conns,        \* the SSE connections; one channel each
  Publishers,   \* goroutines that publish (none is wired in main.go yet)
  Quotes,       \* the symbols quoted
  Capacity,     \* the channel's buffer (32 in serveSSE)
  Throttle,     \* clock units between two quotes of a symbol (1 s)
  MaxClock      \* bound: the clock's last reading

ASSUME HubAssumption == Capacity \in Nat /\ Throttle \in Nat /\ MaxClock \in Nat

VARIABLES
  clock,        \* the hub's now()
  publishing,   \* what each publisher is about to publish, or NoMessage
  lastPublish,  \* per symbol the clock reading of the last quote, or Never
  subscribers,  \* per kind the connections in its subscriber map
  buffer,       \* each connection's channel
  streaming,    \* the kind a connection streams, or "off"
  shown         \* history: per connection and symbol the last quote written
                \* to the client, or Never

hubVars ==
  <<clock, publishing, lastPublish, subscribers, buffer, streaming, shown>>

Kinds == {"market", "account"}
Never == -1
NoMessage == [kind |-> "none"]

Messages ==
  [kind : {"market"}, symbol : Quotes, at : 0..MaxClock]
    \cup [kind : {"account"}]

HubTypeOK ==
  /\ clock \in 0..MaxClock
  /\ publishing \in [Publishers -> Messages \cup {NoMessage}]
  /\ lastPublish \in [Quotes -> 0..MaxClock \cup {Never}]
  /\ subscribers \in [Kinds -> SUBSET Conns]
  /\ buffer \in [Conns -> Seq(Messages)]
  /\ \A c \in Conns : Len(buffer[c]) <= Capacity
  /\ streaming \in [Conns -> Kinds \cup {"off"}]
  /\ shown \in [Conns -> [Quotes -> 0..MaxClock \cup {Never}]]

HubInit ==
  /\ clock = 0
  /\ publishing = [p \in Publishers |-> NoMessage]
  /\ lastPublish = [s \in Quotes |-> Never]
  /\ subscribers = [k \in Kinds |-> {}]
  /\ buffer = [c \in Conns |-> <<>>]
  /\ streaming = [c \in Conns |-> "off"]
  /\ shown = [c \in Conns |-> [s \in Quotes |-> Never]]

Tick ==
  /\ clock < MaxClock
  /\ clock' = clock + 1
  /\ UNCHANGED <<publishing, lastPublish, subscribers, buffer, streaming, shown>>

----------------------------------------------------------------------------
(* Publishers *)

\* The publisher reads the clock; it does not hold the mutex yet.
BeginPublish(p) ==
  /\ publishing[p] = NoMessage
  /\ \E m \in Messages :
       /\ m.kind = "market" => m.at = clock
       /\ publishing' = [publishing EXCEPT ![p] = m]
  /\ UNCHANGED <<clock, lastPublish, subscribers, buffer, streaming, shown>>

Room(c) == Len(buffer[c]) < Capacity

\* fanOut: a copy for every subscriber with room, nobody is waited for.
FanOut(kind, m) ==
  buffer' = [c \in Conns |->
    IF c \in subscribers[kind] /\ Room(c) THEN Append(buffer[c], m)
    ELSE buffer[c]]

\* Mutant of Throttled: a reading older than the last one passes.
ThrottledByDistance(m) ==
  LET last == lastPublish[m.symbol] IN
  /\ last # Never
  /\ m.at >= last
  /\ m.at - last < Throttle

\* The quote comes too soon after the symbol's last one, or its clock reading
\* is older than that.
Throttled(m) ==
  LET last == lastPublish[m.symbol] IN last # Never /\ m.at - last < Throttle

\* Mutant of PublishQuote: it waits until every subscriber has room.
PublishQuoteBlocking(p) ==
  LET m == publishing[p] IN
  /\ m.kind = "market"
  /\ \A c \in subscribers["market"] : Room(c)
  /\ IF Throttled(m) THEN UNCHANGED <<lastPublish, buffer>>
     ELSE /\ lastPublish' = [lastPublish EXCEPT ![m.symbol] = m.at]
          /\ FanOut("market", m)
  /\ publishing' = [publishing EXCEPT ![p] = NoMessage]
  /\ UNCHANGED <<clock, subscribers, streaming, shown>>

\* PublishQuote under the mutex.
PublishQuote(p) ==
  LET m == publishing[p] IN
  /\ m.kind = "market"
  /\ IF Throttled(m) THEN UNCHANGED <<lastPublish, buffer>>
     ELSE /\ lastPublish' = [lastPublish EXCEPT ![m.symbol] = m.at]
          /\ FanOut("market", m)
  /\ publishing' = [publishing EXCEPT ![p] = NoMessage]
  /\ UNCHANGED <<clock, subscribers, streaming, shown>>

\* PublishAccount: not throttled.
PublishAccount(p) ==
  LET m == publishing[p] IN
  /\ m.kind = "account"
  /\ FanOut("account", m)
  /\ publishing' = [publishing EXCEPT ![p] = NoMessage]
  /\ UNCHANGED <<clock, lastPublish, subscribers, streaming, shown>>

----------------------------------------------------------------------------
(* Connections *)

\* StreamMarket or StreamAccount: a new channel joins the kind's subscribers.
Subscribe(c) ==
  /\ streaming[c] = "off"
  /\ \E kind \in Kinds :
       /\ streaming' = [streaming EXCEPT ![c] = kind]
       /\ subscribers' = [subscribers EXCEPT ![kind] = @ \cup {c}]
  /\ buffer' = [buffer EXCEPT ![c] = <<>>]
  /\ shown' = [shown EXCEPT ![c] = [s \in Quotes |-> Never]]
  /\ UNCHANGED <<clock, publishing, lastPublish>>

\* serveSSE writes the next message to its client.
WriteEvent(c) ==
  /\ streaming[c] # "off"
  /\ buffer[c] # <<>>
  /\ LET m == Head(buffer[c]) IN
       shown' = IF m.kind = "market"
                THEN [shown EXCEPT ![c][m.symbol] = m.at] ELSE shown
  /\ buffer' = [buffer EXCEPT ![c] = Tail(@)]
  /\ UNCHANGED <<clock, publishing, lastPublish, subscribers, streaming>>

\* The client is gone (its context ended or a write failed): unsubscribe.
Disconnect(c) ==
  /\ streaming[c] # "off"
  /\ subscribers' = [subscribers EXCEPT ![streaming[c]] = @ \ {c}]
  /\ streaming' = [streaming EXCEPT ![c] = "off"]
  /\ UNCHANGED <<clock, publishing, lastPublish, buffer, shown>>

Publish(p) == PublishQuote(p) \/ PublishAccount(p)

HubNext ==
  \/ Tick
  \/ \E p \in Publishers : BeginPublish(p) \/ Publish(p)
  \/ \E c \in Conns : Subscribe(c) \/ WriteEvent(c) \/ Disconnect(c)

HubSpec == HubInit /\ [][HubNext]_hubVars

----------------------------------------------------------------------------
(* Properties *)

\* "Throttled to at most one update per symbol per throttle interval": on every
\* stream two quotes of a symbol are that far apart and in the order of their
\* clock readings, however publishers overtake each other on the mutex.
QuoteSpacing ==
  \A c \in Conns : \A i \in DOMAIN buffer[c] : buffer[c][i].kind = "market" =>
    LET m == buffer[c][i] IN
    /\ shown[c][m.symbol] # Never => m.at - shown[c][m.symbol] >= Throttle
    /\ \A j \in 1..(i - 1) :
         buffer[c][j].kind = "market" /\ buffer[c][j].symbol = m.symbol
           => m.at - buffer[c][j].at >= Throttle

\* A publisher is never held up by a subscriber that does not read: its message
\* goes to those with room and it returns.
PublishReturns ==
  \A p \in Publishers : publishing[p] # NoMessage ~> publishing[p] = NoMessage
=============================================================================
