------------------------------ MODULE Consumer ------------------------------
(***************************************************************************)
(* The event consumer, pkg/events/publisher.go: consumers of one queue,    *)
(* each with its channel and its loop processMessages, which answers one   *)
(* delivery after the other with Ack, Nack or Reject.                      *)
(*                                                                         *)
(* The broker and the client library are external: a queue hands its       *)
(* oldest message to any consumer that has fewer than Prefetch deliveries  *)
(* unanswered, puts a message it takes back where it was, and takes back   *)
(* what a channel has not answered when the channel closes.  Queues are    *)
(* independent of each other; one is enough.                               *)
(***************************************************************************)
EXTENDS Integers, Sequences, FiniteSets, SequencesExt

CONSTANTS
  Consumers,
  MaxMessage,     \* the messages are 1 .. MaxMessage, oldest first (a bound)
  Malformed,      \* messages that are not an event
  Poison,         \* messages whose handler fails every time
  Prefetch,       \* PrefetchCount, at least 1
  MaxStops,       \* bound: channels closed
  MaxFailures,    \* bound: handler errors that a retry may cure
  Null            \* no message

Messages == 1..MaxMessage

ASSUME MessagesAssumption ==
  /\ MaxMessage \in Nat
  /\ Malformed \subseteq Messages /\ Poison \subseteq Messages \ Malformed
  /\ Null \notin Messages

ASSUME BoundsAssumption ==
  Prefetch \in Nat \ {0} /\ MaxStops \in Nat /\ MaxFailures \in Nat

VARIABLES
  ready,      \* messages of the queue that no consumer has
  held,       \* per consumer, what its channel has not answered
  acked,      \* messages answered for good
  rejected,   \* messages dropped
  channel,    \* the consumer's AMQP channel is open
  ctx,        \* the context given to Start is live
  inbox,      \* deliveries in the Go channel msgs
  current,    \* the delivery in the loop
  phase,      \* what the loop does next; "ack", "requeue", "reject": answer so
  handled,    \* history: times the handler succeeded
  failures,   \* history: handler errors that a retry may cure
  stops       \* history: channels closed

answers == <<ready, held, acked, rejected>>
loop == <<inbox, current, phase>>
vars == <<ready, held, acked, rejected, channel, ctx, inbox, current, phase,
          handled, failures, stops>>

Init ==
  /\ ready = Messages
  /\ held = [c \in Consumers |-> {}]
  /\ acked = {}
  /\ rejected = {}
  /\ channel = [c \in Consumers |-> TRUE]
  /\ ctx = [c \in Consumers |-> TRUE]
  /\ inbox = [c \in Consumers |-> <<>>]
  /\ current = [c \in Consumers |-> Null]
  /\ phase = [c \in Consumers |-> "receive"]
  /\ handled = [m \in Messages |-> 0]
  /\ failures = 0
  /\ stops = 0

Goto(c, label) == phase' = [phase EXCEPT ![c] = label]

-----------------------------------------------------------------------------
(* The queue.                                                              *)

\* Mutant of Hand: Consume with auto-ack.
Hand_AutoAck(c, m) ==
  /\ acked' = acked \union {m}
  /\ UNCHANGED held

Hand(c, m) ==
  /\ held' = [held EXCEPT ![c] = @ \union {m}]
  /\ UNCHANGED acked

\* Mutant of Room: the prefetch count is off by one.
Room_OneMore(c) == Cardinality(held[c]) <= Prefetch

Room(c) == Cardinality(held[c]) < Prefetch

Deliver(c, m) ==
  /\ m \in ready /\ \A n \in ready : m <= n
  /\ channel[c]
  /\ Room(c)
  /\ ready' = ready \ {m}
  /\ Hand(c, m)
  /\ inbox' = [inbox EXCEPT ![c] = Append(@, m)]
  /\ UNCHANGED <<rejected, channel, ctx, current, phase, handled, failures, stops>>

-----------------------------------------------------------------------------
(* processMessages.                                                        *)

\* The library may still pass deliveries of a channel that has closed, and
\* select may take a delivery although the context has ended.
Receive(c) ==
  /\ phase[c] = "receive"
  /\ inbox[c] # <<>>
  /\ current' = [current EXCEPT ![c] = Head(inbox[c])]
  /\ inbox' = [inbox EXCEPT ![c] = Tail(@)]
  /\ Goto(c, "handle")
  /\ UNCHANGED <<answers, channel, ctx, handled, failures, stops>>

\* The loop ends with its context or its channel; what is in msgs stays there.
Leave(c) ==
  /\ phase[c] = "receive"
  /\ ~ctx[c] \/ ~channel[c]
  /\ Goto(c, "off")
  /\ UNCHANGED <<answers, channel, ctx, inbox, current, handled, failures, stops>>

\* Mutants of Refuse: a malformed message is skipped; of Succeed: a message
\* that was handled is requeued too.
Refuse_Skips(c) ==
  /\ current[c] \in Malformed
  /\ Goto(c, "receive")
  /\ current' = [current EXCEPT ![c] = Null]
  /\ UNCHANGED <<handled, failures>>

Refuse(c) ==
  /\ current[c] \in Malformed
  /\ Goto(c, "reject")
  /\ UNCHANGED <<current, handled, failures>>

Succeed_Requeues(c) ==
  /\ current[c] \notin Malformed \union Poison
  /\ handled' = [handled EXCEPT ![current[c]] = IF @ > MaxStops THEN @ ELSE @ + 1]
  /\ Goto(c, "requeue")
  /\ UNCHANGED <<current, failures>>

Succeed(c) ==
  /\ current[c] \notin Malformed \union Poison
  /\ handled' = [handled EXCEPT ![current[c]] = @ + 1]
  /\ Goto(c, "ack")
  /\ UNCHANGED <<current, failures>>

\* Mutant of Fail: a handler error is logged, and the delivery not answered.
Fail_Skips(c) ==
  /\ \/ current[c] \in Poison /\ UNCHANGED failures
     \/ /\ current[c] \notin Malformed \union Poison
        /\ failures < MaxFailures
        /\ failures' = failures + 1
  /\ Goto(c, "receive")
  /\ current' = [current EXCEPT ![c] = Null]
  /\ UNCHANGED handled

Fail(c) ==
  /\ \/ current[c] \in Poison /\ UNCHANGED failures
     \/ /\ current[c] \notin Malformed \union Poison
        /\ failures < MaxFailures
        /\ failures' = failures + 1
  /\ Goto(c, "requeue")
  /\ UNCHANGED <<current, handled>>

\* json.Unmarshal and the handler, which may run long.
Handle(c) ==
  /\ phase[c] = "handle"
  /\ Refuse(c) \/ Succeed(c) \/ Fail(c)
  /\ UNCHANGED <<answers, channel, ctx, inbox, stops>>

\* Ack, Nack or Reject; the error of an answer on a closed channel is ignored.
Settle(c) ==
  /\ phase[c] \in {"ack", "requeue", "reject"}
  /\ IF channel[c]
     THEN LET m == current[c] IN
          /\ held' = [held EXCEPT ![c] = @ \ {m}]
          /\ acked' = IF phase[c] = "ack" THEN acked \union {m} ELSE acked
          /\ ready' = IF phase[c] = "requeue" THEN ready \union {m} ELSE ready
          /\ rejected' = IF phase[c] = "reject" THEN rejected \union {m} ELSE rejected
     ELSE UNCHANGED answers
  /\ current' = [current EXCEPT ![c] = Null]
  /\ Goto(c, "receive")
  /\ UNCHANGED <<channel, ctx, inbox, handled, failures, stops>>

-----------------------------------------------------------------------------
(* Stop, the end of the context, crashes and restarts.                     *)

\* The queue takes back what the channel has not answered.
Release(c) ==
  /\ channel[c]
  /\ stops < MaxStops
  /\ stops' = stops + 1
  /\ channel' = [channel EXCEPT ![c] = FALSE]
  /\ ready' = ready \union held[c]
  /\ held' = [held EXCEPT ![c] = {}]
  /\ UNCHANGED <<acked, rejected, ctx, inbox, handled, failures>>

\* Stop closes the channel without waiting for the loop; so does a lost
\* connection, which nothing opens again.
Stop(c) == Release(c) /\ UNCHANGED <<current, phase>>

Crash(c) ==
  /\ Release(c)
  /\ current' = [current EXCEPT ![c] = Null]
  /\ Goto(c, "off")

Cancel(c) ==
  /\ ctx[c]
  /\ ctx' = [ctx EXCEPT ![c] = FALSE]
  /\ UNCHANGED <<answers, loop, channel, handled, failures, stops>>

\* A new process: NewRabbitMQConsumer, Subscribe and Start.
Start(c) ==
  /\ phase[c] = "off"
  /\ ~channel[c]
  /\ channel' = [channel EXCEPT ![c] = TRUE]
  /\ ctx' = [ctx EXCEPT ![c] = TRUE]
  /\ inbox' = [inbox EXCEPT ![c] = <<>>]
  /\ Goto(c, "receive")
  /\ UNCHANGED <<answers, current, handled, failures, stops>>

ProcessMessages(c) == Receive(c) \/ Handle(c) \/ Settle(c) \/ Leave(c)

Next ==
  \E c \in Consumers :
    \/ \E m \in Messages : Deliver(c, m)
    \/ ProcessMessages(c)
    \/ Stop(c)
    \/ Crash(c)
    \/ Cancel(c)
    \/ Start(c)

Spec == Init /\ [][Next]_vars

\* Loops are scheduled and handlers return; the broker delivers a message that
\* is again and again the oldest while a consumer has room.
FairSpec ==
  /\ Spec
  /\ \A c \in Consumers : WF_vars(ProcessMessages(c))
  /\ \A m \in Messages : SF_vars(\E c \in Consumers : Deliver(c, m))

-----------------------------------------------------------------------------
(* Properties.                                                             *)

TypeOK ==
  /\ {ready, acked, rejected} \subseteq SUBSET Messages
  /\ held \in [Consumers -> SUBSET Messages]
  /\ \A c \in Consumers : Cardinality(held[c]) <= Prefetch
  /\ {channel, ctx} \subseteq [Consumers -> BOOLEAN]
  /\ inbox \in [Consumers -> Seq(Messages)]
  /\ current \in [Consumers -> Messages \union {Null}]
  /\ phase \in [Consumers -> {"off", "receive", "handle", "ack", "requeue", "reject"}]
  /\ handled \in [Messages -> Nat]
  /\ failures \in 0..MaxFailures
  /\ stops \in 0..MaxStops

\* The loop forgets no delivery: what the broker waits for an answer about is
\* still in msgs or in the loop, and each delivery is there once.
NoDeliveryForgotten ==
  \A c \in Consumers : channel[c] =>
    /\ held[c] = Range(inbox[c]) \union ({current[c]} \ {Null})
    /\ Cardinality(held[c]) = Len(inbox[c]) + (IF current[c] = Null THEN 0 ELSE 1)

\* A message leaves the queue for good only after its handler succeeded, or
\* because it is no event: handler errors, stops and crashes lose nothing.
AnsweredRightly ==
  /\ \A m \in acked : handled[m] > 0
  /\ rejected \subseteq Malformed
  /\ ready \union acked \union rejected \union UNION {held[c] : c \in Consumers} = Messages

\* A handler succeeds twice for one event only when a channel was closed before
\* the answer went out, and then once more per channel closed.
DuplicatesNeedStops == \A m \in Messages : handled[m] <= 1 + stops

Running(c) == channel[c] /\ ctx[c]

\* Requeueing messages whose handler always fails does not keep the others from
\* being handled, as long as there are fewer of them than all consumers together
\* may hold; that many, and they take every place at the head of the queue.
EventsAreHandled ==
  Cardinality(Poison) < Prefetch * Cardinality(Consumers) =>
    ((\A c \in Consumers : []<>Running(c))
       => \A m \in Messages \ (Malformed \union Poison) : <>(m \in acked))
=============================================================================
