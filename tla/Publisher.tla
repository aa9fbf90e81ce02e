----------------------------- MODULE Publisher -----------------------------
(***************************************************************************)
(* The event publisher, pkg/events/publisher.go: PublishWithRouting called *)
(* by concurrent goroutines over one AMQP channel, and Close.  Publisher   *)
(* confirms are enabled, as in the default configuration.                  *)
(*                                                                         *)
(* All of them read the broker's confirmations from one Go channel, in     *)
(* whatever order they come to it.  The broker and the client library are  *)
(* external: messages reach the broker in the order they were sent, are    *)
(* confirmed in that order, and the goroutine that reads the connection    *)
(* stops when the Go channel of the confirmations is full.                 *)
(***************************************************************************)
EXTENDS Integers, Sequences, FiniteSets

CONSTANTS
  Publishers,     \* the goroutines calling Publish
  Events,         \* what they publish, each once (a bound)
  Capacity,       \* of the Go channel of confirmations; 100 in the source
  Faults,         \* the failures that may happen, see FaultKinds
  Null            \* no event

\* "cancel": the context of a caller ends while it waits for a confirmation
\* "write":  sending a message fails, whether or not it reaches the broker
\* "nack":   the broker refuses a message
\* "loss":   the connection is lost; nothing opens it again
FaultKinds == {"cancel", "write", "nack", "loss"}

Outcomes == {"none", "ok", "error", "cancelled", "closed"}

ASSUME CapacityAssumption == Capacity \in Nat \ {0}

ASSUME FaultsAssumption == Faults \subseteq FaultKinds

ASSUME NullAssumption == Null \notin Events

VARIABLES
  closed,     \* the closed flag
  closing,    \* Close holds the lock and waits for the channel to close
  link,       \* the AMQP channel: "open", "closed" or "lost"
  wire,       \* messages on their way to the broker
  acks,       \* confirmations on their way back
  confirms,   \* the Go channel of confirmations
  stored,     \* the events the broker has accepted
  refused,    \* the events the broker has refused
  abandoned,  \* history: events sent whose caller does not wait for them
  pc,         \* what a publisher does next
  job,        \* the event it publishes
  outcome     \* per event, what its publication returned

broker == <<wire, acks, confirms, stored, refused>>
vars == <<closed, closing, link, wire, acks, confirms, stored,
          refused, abandoned, pc, job, outcome>>

Init ==
  /\ closed = FALSE
  /\ closing = FALSE
  /\ link = "open"
  /\ wire = <<>>
  /\ acks = <<>>
  /\ confirms = <<>>
  /\ stored = {}
  /\ refused = {}
  /\ abandoned = {}
  /\ pc = [p \in Publishers |-> "idle"]
  /\ job = [p \in Publishers |-> Null]
  /\ outcome = [e \in Events |-> "none"]

Waiting == {p \in Publishers : pc[p] = "await"}

InProgress == {job[p] : p \in {q \in Publishers : pc[q] # "idle"}}

Goto(p, label) == pc' = [pc EXCEPT ![p] = label]

Return(p, result) ==
  /\ Goto(p, "idle")
  /\ outcome' = [outcome EXCEPT ![job[p]] = result]
  /\ UNCHANGED <<closed, closing, link, job>>

-----------------------------------------------------------------------------
(* PublishWithRouting.                                                     *)

\* The flag is read under the lock, which Close holds while it closes.
Begin(p, e) ==
  /\ pc[p] = "idle"
  /\ outcome[e] = "none" /\ e \notin InProgress
  /\ ~closing
  /\ job' = [job EXCEPT ![p] = e]
  /\ IF closed
     THEN outcome' = [outcome EXCEPT ![e] = "closed"] /\ UNCHANGED pc
     ELSE Goto(p, "send") /\ UNCHANGED outcome
  /\ UNCHANGED <<broker, abandoned, closed, closing, link>>

\* The lock was released, and Close may have taken it since: what is sent after
\* the broker has been told to close the channel is dropped without an error.
Send(p) ==
  /\ pc[p] = "send"
  /\ link = "open"
  /\ \/ wire' = Append(wire, job[p])
     \/ closing /\ UNCHANGED wire
  /\ Goto(p, "await")
  /\ UNCHANGED <<acks, confirms, stored, refused, abandoned, closed, closing, link,
                 job, outcome>>

SendFails(p) ==
  /\ pc[p] = "send"
  /\ \/ /\ link # "open" \/ "write" \in Faults
        /\ UNCHANGED <<wire, abandoned>>
     \/ /\ link = "open" /\ "write" \in Faults
        /\ wire' = Append(wire, job[p])
        /\ abandoned' = abandoned \union {job[p]}
  /\ Return(p, "error")
  /\ UNCHANGED <<acks, confirms, stored, refused>>

\* Mutants of TakeConfirm: the confirmation is left for others; whatever it
\* says counts as success.
TakeConfirm_Peeks(p) ==
  /\ pc[p] = "await"
  /\ confirms # <<>>
  /\ Return(p, IF Head(confirms).ack THEN "ok" ELSE "error")
  /\ UNCHANGED <<broker, abandoned>>

TakeConfirm_AnyAck(p) ==
  /\ pc[p] = "await"
  /\ confirms # <<>>
  /\ confirms' = Tail(confirms)
  /\ Return(p, "ok")
  /\ UNCHANGED <<wire, acks, stored, refused, abandoned>>

\* The next confirmation decides, whichever event it confirms.
TakeConfirm(p) ==
  /\ pc[p] = "await"
  /\ confirms # <<>>
  /\ confirms' = Tail(confirms)
  /\ Return(p, IF Head(confirms).ack THEN "ok" ELSE "error")
  /\ UNCHANGED <<wire, acks, stored, refused, abandoned>>

\* The library closes the Go channel with the AMQP channel: a zero confirmation.
TakeClosed(p) ==
  /\ pc[p] = "await"
  /\ confirms = <<>>
  /\ link # "open"
  /\ Return(p, "error")
  /\ UNCHANGED <<broker, abandoned>>

Cancel(p) ==
  /\ pc[p] = "await"
  /\ "cancel" \in Faults
  /\ Return(p, "cancelled")
  /\ abandoned' = abandoned \union {job[p]}
  /\ UNCHANGED broker

-----------------------------------------------------------------------------
(* Close, the broker and the library.                                      *)

Close ==
  /\ ~closed
  /\ closed' = TRUE
  /\ closing' = TRUE
  /\ UNCHANGED <<broker, abandoned, link, pc, job, outcome>>

\* Mutant of Closed: the connection is cut, whatever is on its way.
Closed_Cuts ==
  /\ closing
  /\ wire' = <<>>
  /\ acks' = <<>>
  /\ closing' = FALSE
  /\ link' = IF link = "open" THEN "closed" ELSE link
  /\ UNCHANGED <<confirms, stored, refused, abandoned, closed, pc, job, outcome>>

\* channel.Close waits for the broker's answer, which follows all it sent.
Closed ==
  /\ closing
  /\ wire = <<>>
  /\ acks = <<>>
  /\ closing' = FALSE
  /\ link' = IF link = "open" THEN "closed" ELSE link
  /\ UNCHANGED <<broker, abandoned, closed, pc, job, outcome>>

\* The broker decides; a message that a closing channel carried may be stored
\* without a confirmation.
Accept(ack) ==
  /\ wire # <<>>
  /\ ack \/ "nack" \in Faults
  /\ wire' = Tail(wire)
  /\ IF ack
     THEN stored' = stored \union {Head(wire)} /\ UNCHANGED refused
     ELSE refused' = refused \union {Head(wire)} /\ UNCHANGED stored
  /\ \/ acks' = Append(acks, [event |-> Head(wire), ack |-> ack])
     \/ closing /\ UNCHANGED acks
  /\ UNCHANGED <<confirms, abandoned, closed, closing, link, pc, job, outcome>>

\* Whatever is on its way is lost; the confirmations received stay.
Lose ==
  /\ "loss" \in Faults
  /\ link = "open"
  /\ link' = "lost"
  /\ wire' = <<>>
  /\ acks' = <<>>
  /\ UNCHANGED <<confirms, stored, refused, abandoned, closed, closing, pc, job,
                 outcome>>

\* Mutants of HasRoom: the Go channel has no buffer to speak of, or no bound.
HasRoom_OneSlot == confirms = <<>>

HasRoom_Always == TRUE

\* The Go channel NewRabbitMQPublisher makes.
HasRoom == Len(confirms) < Capacity

Notify ==
  /\ acks # <<>>
  /\ HasRoom
  /\ confirms' = Append(confirms, Head(acks))
  /\ acks' = Tail(acks)
  /\ UNCHANGED <<wire, stored, refused, abandoned, closed, closing, link, pc,
                 job, outcome>>

Publish(p) == Send(p) \/ SendFails(p) \/ TakeConfirm(p) \/ TakeClosed(p)

Next ==
  \/ \E p \in Publishers :
       \/ \E e \in Events : Begin(p, e)
       \/ Publish(p)
       \/ Cancel(p)
  \/ Close
  \/ Closed
  \/ \E ack \in BOOLEAN : Accept(ack)
  \/ Notify
  \/ Lose

Spec == Init /\ [][Next]_vars

\* Goroutines are scheduled, the broker answers, the library reads.
FairSpec ==
  /\ Spec
  /\ \A p \in Publishers : WF_vars(Publish(p))
  /\ WF_vars(Closed)
  /\ WF_vars(\E ack \in BOOLEAN : Accept(ack))
  /\ WF_vars(Notify)

-----------------------------------------------------------------------------
(* Properties.                                                             *)

TypeOK ==
  /\ {closed, closing} \subseteq BOOLEAN
  /\ link \in {"open", "closed", "lost"}
  /\ wire \in Seq(Events)
  /\ acks \in Seq([event : Events, ack : BOOLEAN])
  /\ confirms \in Seq([event : Events, ack : BOOLEAN])
  /\ Len(confirms) <= Capacity
  /\ stored \subseteq Events
  /\ refused \subseteq Events
  /\ abandoned \subseteq Events
  /\ pc \in [Publishers -> {"idle", "send", "await"}]
  /\ job \in [Publishers -> Events \union {Null}]
  /\ outcome \in [Events -> Outcomes]

\* A confirmation vouches for one publication at most: never more of them
\* succeed than the broker has accepted, although callers take each other's
\* confirmations and those of callers that gave up.
SuccessesAreStored ==
  Cardinality({e \in Events : outcome[e] = "ok"}) <= Cardinality(stored)

\* Confirmations that nobody waits for stay: as long as the channel is open,
\* the confirmations to come are those of the callers that wait and those of
\* the callers that gave up, who shift all later callers to other events'
\* confirmations for ever.
BacklogIsAbandoned ==
  ~closed /\ link = "open" =>
    Len(wire) + Len(acks) + Len(confirms) = Cardinality(Waiting) + Cardinality(abandoned)

\* "Wait for confirm": a publication that succeeds has been accepted.
OkMeansStored == \A e \in Events : outcome[e] = "ok" => e \in stored

\* A publication that has succeeded before Close has been sent: the broker
\* decides on its event, even if the publisher is closed meanwhile - unless the
\* connection is lost: the confirmation taken may have been another event's.
OkIsDecided ==
  \A e \in Events :
    (outcome[e] = "ok" /\ ~closed) ~> (e \in stored \union refused \/ link = "lost")

\* Close returns, unless more callers gave up than the Go channel has room for:
\* then the library's reader is stuck, and Close with it, holding the lock.
CloseReturns ==
  [](Cardinality(abandoned) <= Capacity) => (closing ~> ~closing)
=============================================================================
