--------------------------- MODULE ConsumerProofs ---------------------------
(***************************************************************************)
(* Theorems about Consumer, for any consumers, messages and prefetch count,*)
(* and with any number of stops and crashes: types, and that no message    *)
(* leaves the queue unhandled.                                             *)
(***************************************************************************)
EXTENDS Consumer, FiniteSetTheorems, TLAPS

USE MessagesAssumption, BoundsAssumption

Held == UNION {held[c] : c \in Consumers}

\* What the loop is about to answer follows from what it did to the delivery.
AnswersJustified ==
  \A c \in Consumers :
    /\ phase[c] \in {"handle", "ack", "requeue", "reject"} => current[c] \in Messages
    /\ phase[c] = "ack" => handled[current[c]] > 0
    /\ phase[c] = "reject" => current[c] \in Malformed

ConsumerInv == TypeOK /\ AnsweredRightly /\ AnswersJustified

Step(c) ==
  \/ \E m \in Messages : Deliver(c, m)
  \/ ProcessMessages(c) \/ Stop(c) \/ Crash(c) \/ Cancel(c) \/ Start(c)

\* What a channel has not answered is a finite set.
LEMMA HeldFinite ==
  ASSUME TypeOK, NEW c \in Consumers
  PROVE  held[c] \in SUBSET Messages /\ IsFiniteSet(held[c])
         /\ Cardinality(held[c]) \in Nat
<1>1. held[c] \in SUBSET Messages BY DEF TypeOK
<1>2. IsFiniteSet(Messages) BY FS_Interval DEF Messages
<1>3. IsFiniteSet(held[c]) BY <1>1, <1>2, FS_Subset
<1> QED BY <1>1, <1>3, FS_CardinalityType

LEMMA InitConsumerInv == Init => ConsumerInv
<1> SUFFICES ASSUME Init PROVE ConsumerInv OBVIOUS
<1>1. TypeOK
  <2>1. Cardinality({}) = 0 BY FS_EmptySet
  <2>2. \A c \in Consumers : Cardinality(held[c]) <= Prefetch BY <2>1 DEF Init
  <2>3. <<>> \in Seq(Messages) OBVIOUS
  <2> QED BY <2>2, <2>3 DEF Init, TypeOK
<1>2. AnsweredRightly
  <2>1. Held = {} BY DEF Init, Held
  <2> QED BY <2>1 DEF Init, AnsweredRightly, Held
<1>3. AnswersJustified BY DEF Init, AnswersJustified
<1> QED BY <1>1, <1>2, <1>3 DEF ConsumerInv

LEMMA StepTypeOK ==
  ASSUME ConsumerInv, NEW c \in Consumers, Step(c)
  PROVE  TypeOK'
<1> USE DEF ConsumerInv
<1>1. ASSUME NEW m \in Messages, Deliver(c, m) PROVE TypeOK'
  <2>1. Cardinality(held[c] \cup {m}) <= Prefetch
    <3>1. IsFiniteSet(held[c]) /\ Cardinality(held[c]) \in Nat BY HeldFinite
    <3>2. Cardinality(held[c] \cup {m})
            = IF m \in held[c] THEN Cardinality(held[c]) ELSE Cardinality(held[c]) + 1
      BY <3>1, FS_AddElement
    <3>3. Cardinality(held[c]) < Prefetch BY <1>1 DEF Deliver, Room
    <3> QED BY <3>1, <3>2, <3>3
  <2>2. held' \in [Consumers -> SUBSET Messages] BY <1>1 DEF Deliver, Hand, TypeOK
  <2>3. \A d \in Consumers : Cardinality(held'[d]) <= Prefetch
    BY <1>1, <2>1 DEF Deliver, Hand, TypeOK
  <2>4. inbox' \in [Consumers -> Seq(Messages)] BY <1>1 DEF Deliver, TypeOK
  <2> QED BY <1>1, <2>2, <2>3, <2>4 DEF Deliver, Hand, TypeOK
<1>2. CASE Receive(c)
  <2>1. inbox[c] \in Seq(Messages) /\ inbox[c] # <<>> BY <1>2 DEF Receive, TypeOK
  <2>2. Head(inbox[c]) \in Messages /\ Tail(inbox[c]) \in Seq(Messages) BY <2>1
  <2>3. /\ current' \in [Consumers -> Messages \union {Null}]
        /\ inbox' \in [Consumers -> Seq(Messages)]
    BY <1>2, <2>2 DEF Receive, TypeOK
  <2> QED BY <1>2, <2>3 DEF Receive, Goto, answers, TypeOK
<1>3. CASE Handle(c)
  <2>1. current[c] \in Messages BY <1>3 DEF Handle, AnswersJustified
  <2>2. CASE Refuse(c) BY <1>3, <2>2 DEF Handle, Refuse, Goto, answers, TypeOK
  <2>3. CASE Succeed(c)
    BY <1>3, <2>1, <2>3 DEF Handle, Succeed, Goto, answers, TypeOK
  <2>4. CASE Fail(c) BY <1>3, <2>4 DEF Handle, Fail, Goto, answers, TypeOK
  <2> QED BY <1>3, <2>2, <2>3, <2>4 DEF Handle
<1>4. CASE Settle(c)
  <2>1. current[c] \in Messages BY <1>4 DEF Settle, AnswersJustified
  <2>2. CASE channel[c]
    <3>1. held' = [held EXCEPT ![c] = @ \ {current[c]}] BY <1>4, <2>2 DEF Settle
    <3>2. Cardinality(held[c] \ {current[c]}) <= Prefetch
      <4>1. IsFiniteSet(held[c]) /\ Cardinality(held[c]) \in Nat BY HeldFinite
      <4>2. Cardinality(held[c] \ {current[c]})
              = IF current[c] \in held[c] THEN Cardinality(held[c]) - 1
                ELSE Cardinality(held[c])
        BY <4>1, FS_RemoveElement
      <4> QED BY <4>1, <4>2 DEF TypeOK
    <3>3. held' \in [Consumers -> SUBSET Messages] BY <3>1 DEF TypeOK
    <3>4. \A d \in Consumers : Cardinality(held'[d]) <= Prefetch
      BY <3>1, <3>2 DEF TypeOK
    <3>5. {ready', acked', rejected'} \subseteq SUBSET Messages
      BY <1>4, <2>1, <2>2 DEF Settle, TypeOK
    <3> QED BY <1>4, <3>3, <3>4, <3>5 DEF Settle, Goto, TypeOK
  <2>3. CASE ~channel[c] BY <1>4, <2>3 DEF Settle, Goto, answers, TypeOK
  <2> QED BY <2>2, <2>3
<1>5. CASE Leave(c) BY <1>5 DEF Leave, Goto, answers, TypeOK
<1>6. CASE Release(c) /\ current' \in [Consumers -> Messages \union {Null}]
           /\ phase' \in [Consumers -> {"off", "receive", "handle", "ack", "requeue", "reject"}]
  <2>1. held' \in [Consumers -> SUBSET Messages] BY <1>6 DEF Release, TypeOK
  <2>2. \A d \in Consumers : Cardinality(held'[d]) <= Prefetch
    BY <1>6, FS_EmptySet DEF Release, TypeOK
  <2>3. ready' \subseteq Messages BY <1>6 DEF Release, TypeOK
  <2> QED BY <1>6, <2>1, <2>2, <2>3 DEF Release, TypeOK
<1>7. CASE Stop(c) BY <1>6, <1>7 DEF Stop, TypeOK
<1>8. CASE Crash(c) BY <1>6, <1>8 DEF Crash, Goto, TypeOK
<1>9. CASE Cancel(c) BY <1>9 DEF Cancel, answers, loop, TypeOK
<1>10. CASE Start(c)
  <2>1. inbox' \in [Consumers -> Seq(Messages)] BY <1>10 DEF Start, TypeOK
  <2> QED BY <1>10, <2>1 DEF Start, Goto, answers, TypeOK
<1> QED BY <1>1, <1>2, <1>3, <1>4, <1>5, <1>7, <1>8, <1>9, <1>10
        DEF Step, ProcessMessages

\* Handlers only ever succeed more often.
LEMMA HandledGrows ==
  ASSUME ConsumerInv, NEW c \in Consumers, Step(c)
  PROVE  \A m \in Messages : handled[m] > 0 => handled'[m] > 0
<1>1. CASE handled' = handled BY <1>1
<1>2. CASE Succeed(c) /\ phase[c] = "handle"
  <2>1. current[c] \in Messages BY <1>2 DEF ConsumerInv, AnswersJustified
  <2> QED BY <1>2, <2>1 DEF Succeed, ConsumerInv, TypeOK
<1> QED BY <1>1, <1>2 DEF Step, Deliver, ProcessMessages, Receive, Handle, Refuse,
           Fail, Settle, Leave, Stop, Crash, Release, Cancel, Start

LEMMA StepAnswersJustified ==
  ASSUME ConsumerInv, NEW c \in Consumers, Step(c)
  PROVE  AnswersJustified'
<1> USE DEF ConsumerInv
<1>1. ASSUME NEW d \in Consumers, d # c \/ (phase' = phase /\ current' = current)
      PROVE  /\ phase'[d] = phase[d] /\ current'[d] = current[d]
    BY <1>1 DEF Step, Deliver, ProcessMessages, Receive, Handle, Refuse, Succeed,
           Fail, Settle, Leave, Stop, Crash, Release, Cancel, Start, Goto, loop, TypeOK
<1>2. ASSUME NEW d \in Consumers, phase'[d] = phase[d], current'[d] = current[d]
      PROVE  /\ phase'[d] \in {"handle", "ack", "requeue", "reject"} => current'[d] \in Messages
             /\ phase'[d] = "ack" => handled'[current'[d]] > 0
             /\ phase'[d] = "reject" => current'[d] \in Malformed
  BY <1>2, HandledGrows DEF AnswersJustified
<1>3. CASE Receive(c)
  <2>1. inbox[c] \in Seq(Messages) /\ inbox[c] # <<>> BY <1>3 DEF Receive, TypeOK
  <2>2. Head(inbox[c]) \in Messages BY <2>1
  <2>3. phase'[c] = "handle" /\ current'[c] \in Messages
    BY <1>3, <2>2 DEF Receive, Goto, TypeOK
  <2> QED BY <1>1, <1>2, <2>3 DEF AnswersJustified
<1>4. CASE Handle(c)
  <2>1. current[c] \in Messages /\ current' = current
    BY <1>4 DEF Handle, Refuse, Succeed, Fail, AnswersJustified
  <2>2. CASE Refuse(c)
    <3>1. phase'[c] = "reject" /\ current[c] \in Malformed
      BY <2>2 DEF Refuse, Goto, TypeOK
    <3> QED BY <1>1, <1>2, <2>1, <3>1 DEF AnswersJustified
  <2>3. CASE Succeed(c)
    <3>1. phase'[c] = "ack" /\ handled'[current[c]] > 0
      BY <2>1, <2>3 DEF Succeed, Goto, TypeOK
    <3> QED BY <1>1, <1>2, <2>1, <3>1 DEF AnswersJustified
  <2>4. CASE Fail(c)
    <3>1. phase'[c] = "requeue" BY <2>4 DEF Fail, Goto, TypeOK
    <3> QED BY <1>1, <1>2, <2>1, <3>1 DEF AnswersJustified
  <2> QED BY <1>4, <2>2, <2>3, <2>4 DEF Handle
<1>5. CASE phase' = phase /\ current' = current
  BY <1>1, <1>2, <1>5 DEF AnswersJustified
<1>6. CASE phase'[c] \in {"receive", "off"} BY <1>1, <1>2, <1>6 DEF AnswersJustified
<1>7. Receive(c) \/ Handle(c) \/ (phase' = phase /\ current' = current)
        \/ phase'[c] \in {"receive", "off"}
  BY DEF Step, Deliver, ProcessMessages, Settle, Leave, Stop, Crash, Release,
         Cancel, Start, Goto, loop, TypeOK
<1> QED BY <1>3, <1>4, <1>5, <1>6, <1>7

LEMMA StepAnsweredRightly ==
  ASSUME ConsumerInv, NEW c \in Consumers, Step(c)
  PROVE  AnsweredRightly'
<1> USE DEF ConsumerInv
<1>0. TypeOK /\ TypeOK' BY StepTypeOK
<1>1. ready \union acked \union rejected \union Held = Messages
  BY DEF AnsweredRightly, Held
<1>2. ready' \union acked' \union rejected' \union Held' \subseteq Messages
  BY <1>0 DEF TypeOK, Held
<1>3. CASE UNCHANGED answers
  <2>1. acked' = acked /\ rejected' = rejected /\ ready' = ready /\ Held' = Held
    BY <1>3 DEF answers, Held
  <2>2. \A m \in acked : m \in Messages /\ handled[m] > 0
    BY <1>0 DEF TypeOK, AnsweredRightly
  <2>3. \A m \in acked' : handled'[m] > 0 BY <2>1, <2>2, HandledGrows
  <2> QED BY <1>1, <2>1, <2>3 DEF AnsweredRightly, Held
<1>4. ASSUME NEW m \in Messages, Deliver(c, m) PROVE AnsweredRightly'
  <2>1. held' = [held EXCEPT ![c] = @ \union {m}] BY <1>4 DEF Deliver, Hand
  <2>2. Held \union {m} \subseteq Held' BY <2>1 DEF Held, TypeOK
  <2>3. ready' \union {m} = ready \union {m} /\ acked' = acked /\ rejected' = rejected
    BY <1>4 DEF Deliver, Hand
  <2>4. ready' \union acked' \union rejected' \union Held' = Messages
    BY <1>1, <1>2, <2>2, <2>3
  <2> QED BY <1>4, <2>3, <2>4 DEF Deliver, AnsweredRightly, Held
<1>5. CASE Settle(c) /\ channel[c]
  <2> DEFINE m == current[c]
  <2>1. m \in Messages BY <1>5 DEF Settle, AnswersJustified
  <2>2. held' = [held EXCEPT ![c] = @ \ {m}] BY <1>5 DEF Settle
  <2>3. Held \subseteq Held' \union {m} BY <2>2 DEF Held, TypeOK
  <2>4. ready \union acked \union rejected \union {m}
          = ready' \union acked' \union rejected'
    BY <1>5 DEF Settle
  <2>5. ready' \union acked' \union rejected' \union Held' = Messages
    BY <1>1, <1>2, <2>3, <2>4
  <2>6. \A n \in acked' : handled'[n] > 0
    BY <1>5, <2>1 DEF Settle, AnsweredRightly, AnswersJustified
  <2>7. rejected' \subseteq Malformed
    BY <1>5 DEF Settle, AnsweredRightly, AnswersJustified
  <2> QED BY <2>5, <2>6, <2>7 DEF AnsweredRightly, Held
<1>6. CASE Release(c)
  <2>1. ready' = ready \union held[c] /\ held' = [held EXCEPT ![c] = {}]
    BY <1>6 DEF Release
  <2>2. Held \subseteq Held' \union held[c] BY <2>1 DEF Held, TypeOK
  <2>3. ready' \union acked' \union rejected' \union Held' = Messages
    BY <1>1, <1>2, <1>6, <2>1, <2>2 DEF Release
  <2> QED BY <1>6, <2>3 DEF Release, AnsweredRightly, Held
<1> QED BY <1>3, <1>4, <1>5, <1>6 DEF Step, ProcessMessages, Receive, Handle, Leave,
           Settle, Stop, Crash, Cancel, Start

-----------------------------------------------------------------------------

\* The types, what was answered, and what is about to be answered.
THEOREM ConsumerInvariant == Spec => []ConsumerInv
<1>1. ConsumerInv /\ [Next]_vars => ConsumerInv'
  <2> SUFFICES ASSUME ConsumerInv, [Next]_vars PROVE ConsumerInv' OBVIOUS
  <2>1. CASE UNCHANGED vars
    BY <2>1 DEF vars, ConsumerInv, TypeOK, AnsweredRightly, AnswersJustified
  <2>2. ASSUME NEW c \in Consumers, Step(c) PROVE ConsumerInv'
    BY <2>2, StepTypeOK, StepAnsweredRightly, StepAnswersJustified DEF ConsumerInv
  <2> QED BY <2>1, <2>2 DEF Next, Step
<1> QED BY <1>1, InitConsumerInv, PTL DEF Spec

\* The consumer keeps its types, and never holds more than the prefetch count.
THEOREM ConsumerTypeCorrect == Spec => []TypeOK
BY ConsumerInvariant, PTL DEF ConsumerInv

\* Whatever handlers, stops and crashes do, a message leaves the queue for good
\* only after its handler succeeded or because it is malformed.
THEOREM NothingUnhandled == Spec => []AnsweredRightly
BY ConsumerInvariant, PTL DEF ConsumerInv

-----------------------------------------------------------------------------
(* Where a message is.                                                     *)

\* Nothing is in the loop while it waits or is off, and a closed channel holds
\* nothing.
Idle == \A c \in Consumers :
  /\ phase[c] \in {"receive", "off"} => current[c] = Null
  /\ ~channel[c] => held[c] = {}

\* A message that a consumer holds is neither in the queue nor held by another.
OneHolder == \A c, d \in Consumers :
  /\ held[c] \cap ready = {}
  /\ c # d => held[c] \cap held[d] = {}

\* Of one channel, open or closed, the loop sees each delivery once.
SeenOnce == \A c \in Consumers :
  /\ \A i, j \in DOMAIN inbox[c] : inbox[c][i] = inbox[c][j] => i = j
  /\ \A i \in DOMAIN inbox[c] : inbox[c][i] # current[c]

PlacesInv == Idle /\ OneHolder /\ SeenOnce /\ NoDeliveryForgotten

\* The same for one consumer, for the consumers that a step is not about.
PlaceOf(c) ==
  /\ phase[c] \in {"receive", "off"} => current[c] = Null
  /\ ~channel[c] => held[c] = {}
  /\ \A i, j \in DOMAIN inbox[c] : inbox[c][i] = inbox[c][j] => i = j
  /\ \A i \in DOMAIN inbox[c] : inbox[c][i] # current[c]
  /\ channel[c] =>
       /\ held[c] = Range(inbox[c]) \union ({current[c]} \ {Null})
       /\ Cardinality(held[c]) = Len(inbox[c]) + (IF current[c] = Null THEN 0 ELSE 1)

LEMMA PlacesAreSeparate ==
  PlacesInv <=> OneHolder /\ \A c \in Consumers : PlaceOf(c)
BY DEF PlacesInv, Idle, SeenOnce, NoDeliveryForgotten, PlaceOf

LEMMA RangeAppend ==
  ASSUME NEW s \in Seq(Messages), NEW m \in Messages
  PROVE  Range(Append(s, m)) = Range(s) \union {m}
<1>1. \A x : x \in Range(Append(s, m)) => x \in Range(s) \union {m} BY DEF Range
<1>2. m \in Range(Append(s, m))
  <2>1. Append(s, m)[Len(s) + 1] = m /\ Len(s) + 1 \in DOMAIN Append(s, m) OBVIOUS
  <2> QED BY <2>1 DEF Range
<1>3. ASSUME NEW x \in Range(s) PROVE x \in Range(Append(s, m))
  <2>1. PICK i \in DOMAIN s : s[i] = x BY DEF Range
  <2>2. i \in DOMAIN Append(s, m) /\ Append(s, m)[i] = x BY <2>1
  <2> QED BY <2>2 DEF Range
<1> QED BY <1>1, <1>2, <1>3

LEMMA RangeHeadTail ==
  ASSUME NEW s \in Seq(Messages), s # <<>>
  PROVE  Range(s) = Range(Tail(s)) \union {Head(s)}
<1>1. ASSUME NEW x \in Range(s) PROVE x \in Range(Tail(s)) \union {Head(s)}
  <2>1. PICK i \in DOMAIN s : s[i] = x BY DEF Range
  <2>2. CASE i = 1 BY <2>1, <2>2
  <2>3. CASE i # 1
    <3>1. i - 1 \in DOMAIN Tail(s) /\ Tail(s)[i - 1] = x BY <2>1, <2>3
    <3> QED BY <3>1 DEF Range
  <2> QED BY <2>2, <2>3
<1>2. Head(s) \in Range(s)
  <2>1. 1 \in DOMAIN s /\ s[1] = Head(s) OBVIOUS
  <2> QED BY <2>1 DEF Range
<1>3. ASSUME NEW x \in Range(Tail(s)) PROVE x \in Range(s)
  <2>1. PICK i \in DOMAIN Tail(s) : Tail(s)[i] = x BY DEF Range
  <2>2. i + 1 \in DOMAIN s /\ s[i + 1] = x BY <2>1
  <2> QED BY <2>2 DEF Range
<1> QED BY <1>1, <1>2, <1>3

LEMMA InitPlaces == Init => PlacesInv
<1> SUFFICES ASSUME Init PROVE PlacesInv OBVIOUS
<1>1. Range(<<>>) = {} BY DEF Range
<1>2. Cardinality({}) = 0 BY FS_EmptySet
<1>3. \A c \in Consumers : held[c] = {} /\ inbox[c] = <<>> /\ current[c] = Null
  BY DEF Init
<1>4. OneHolder BY <1>3 DEF OneHolder
<1>5. ASSUME NEW c \in Consumers PROVE PlaceOf(c)
  <2>1. DOMAIN inbox[c] = {} /\ Len(inbox[c]) = 0 BY <1>3
  <2>2. held[c] = Range(inbox[c]) \union ({current[c]} \ {Null}) BY <1>1, <1>3
  <2>3. Cardinality(held[c]) = Len(inbox[c]) + (IF current[c] = Null THEN 0 ELSE 1)
    <3>1. Cardinality(held[c]) = 0 /\ current[c] = Null BY <1>2, <1>3
    <3>2. 0 = 0 + 0 OBVIOUS
    <3> QED BY <2>1, <3>1, <3>2
  <2> QED BY <1>3, <2>1, <2>2, <2>3 DEF PlaceOf
<1> QED BY <1>4, <1>5, PlacesAreSeparate

\* A consumer whom a step leaves alone.
LEMMA OthersStay ==
  ASSUME TypeOK, NEW c \in Consumers, Step(c), NEW d \in Consumers, d # c
  PROVE  /\ held'[d] = held[d] /\ channel'[d] = channel[d] /\ inbox'[d] = inbox[d]
         /\ current'[d] = current[d] /\ phase'[d] = phase[d]
<1>1. UNCHANGED held \/ held' = [held EXCEPT ![c] = held'[c]]
  BY DEF Step, Deliver, Hand, ProcessMessages, Receive, Handle, Settle, Leave, Stop,
         Crash, Release, Cancel, Start, answers, TypeOK
<1>2. UNCHANGED channel \/ channel' = [channel EXCEPT ![c] = channel'[c]]
  BY DEF Step, Deliver, ProcessMessages, Receive, Handle, Settle, Leave, Stop,
         Crash, Release, Cancel, Start, TypeOK
<1>3. UNCHANGED inbox \/ inbox' = [inbox EXCEPT ![c] = inbox'[c]]
  BY DEF Step, Deliver, ProcessMessages, Receive, Handle, Settle, Leave, Stop,
         Crash, Release, Cancel, Start, loop, TypeOK
<1>4. UNCHANGED current \/ current' = [current EXCEPT ![c] = current'[c]]
  BY DEF Step, Deliver, ProcessMessages, Receive, Handle, Refuse, Succeed, Fail,
         Settle, Leave, Stop, Crash, Release, Cancel, Start, loop, TypeOK
<1>5. UNCHANGED phase \/ phase' = [phase EXCEPT ![c] = phase'[c]]
  BY DEF Step, Deliver, ProcessMessages, Receive, Handle, Refuse, Succeed, Fail,
         Settle, Leave, Stop, Crash, Release, Cancel, Start, loop, Goto, TypeOK
<1>6. held'[d] = held[d] BY <1>1 DEF TypeOK
<1>7. channel'[d] = channel[d] BY <1>2 DEF TypeOK
<1>8. inbox'[d] = inbox[d] BY <1>3 DEF TypeOK
<1>9. current'[d] = current[d] BY <1>4 DEF TypeOK
<1>10. phase'[d] = phase[d] BY <1>5 DEF TypeOK
<1> QED BY <1>6, <1>7, <1>8, <1>9, <1>10

\* What the loop holds of an open channel is unanswered, and a message of the
\* queue is new to every open channel.
LEMMA InLoopIsHeld ==
  ASSUME PlacesInv, NEW c \in Consumers, channel[c]
  PROVE  /\ current[c] # Null => current[c] \in held[c]
         /\ \A i \in DOMAIN inbox[c] : inbox[c][i] \in held[c]
<1>1. held[c] = Range(inbox[c]) \union ({current[c]} \ {Null})
  BY DEF PlacesInv, NoDeliveryForgotten
<1>2. \A i \in DOMAIN inbox[c] : inbox[c][i] \in Range(inbox[c]) BY DEF Range
<1> QED BY <1>1, <1>2

\* Deliver hands over a message of the queue; an answer and a closing channel
\* give one back, or drop it.
LEMMA StepOneHolder ==
  ASSUME ConsumerInv, PlacesInv, NEW c \in Consumers, Step(c)
  PROVE  OneHolder'
<1> USE DEF ConsumerInv
<1>0. \A d \in Consumers : held[d] \cap ready = {}
      /\ \A e \in Consumers : d # e => held[d] \cap held[e] = {}
  BY DEF PlacesInv, OneHolder
<1>1. CASE UNCHANGED answers BY <1>0, <1>1 DEF answers, OneHolder
<1>2. ASSUME NEW m \in Messages, Deliver(c, m) PROVE OneHolder'
  <2>1. m \in ready BY <1>2 DEF Deliver
  <2>2. held' = [held EXCEPT ![c] = @ \union {m}] /\ ready' = ready \ {m}
    BY <1>2 DEF Deliver, Hand
  <2>3. \A d \in Consumers : held'[d] = IF d = c THEN held[d] \union {m} ELSE held[d]
    BY <2>2 DEF TypeOK
  <2> QED BY <1>0, <2>1, <2>2, <2>3 DEF OneHolder
<1>3. CASE Settle(c) /\ channel[c]
  <2>1. current[c] \in held[c]
    BY <1>3, InLoopIsHeld DEF Settle, AnswersJustified
  <2>2. \A d \in Consumers :
          held'[d] = IF d = c THEN held[d] \ {current[c]} ELSE held[d]
    BY <1>3 DEF Settle, TypeOK
  <2>3. ready' \subseteq ready \union {current[c]} BY <1>3 DEF Settle
  <2>4. \A d \in Consumers : current[c] \notin held'[d] /\ held'[d] \subseteq held[d]
    BY <1>0, <2>1, <2>2
  <2>5. \A d \in Consumers : held'[d] \cap ready' = {}
    BY <1>0, <2>3, <2>4
  <2>6. \A d, e \in Consumers : d # e => held'[d] \cap held'[e] = {}
    BY <1>0, <2>4
  <2> QED BY <2>5, <2>6 DEF OneHolder
<1>4. CASE Release(c)
  <2>1. \A d \in Consumers : held'[d] = IF d = c THEN {} ELSE held[d]
    BY <1>4 DEF Release, TypeOK
  <2>2. ready' = ready \union held[c] BY <1>4 DEF Release
  <2> QED BY <1>0, <2>1, <2>2 DEF OneHolder
<1> QED BY <1>1, <1>2, <1>3, <1>4 DEF Step, ProcessMessages, Receive, Handle, Leave,
           Settle, Stop, Crash, Cancel, Start

LEMMA StepPlaceOf ==
  ASSUME ConsumerInv, PlacesInv, NEW c \in Consumers, Step(c)
  PROVE  PlaceOf(c)'
<1> USE DEF ConsumerInv
<1>0. PlaceOf(c) /\ inbox[c] \in Seq(Messages) BY PlacesAreSeparate DEF TypeOK
<1>f. IsFiniteSet(held[c]) /\ Cardinality(held[c]) \in Nat BY HeldFinite
<1>1. ASSUME NEW m \in Messages, Deliver(c, m) PROVE PlaceOf(c)'
  <2>1. m \in ready /\ channel[c] /\ channel' = channel /\ current' = current
        /\ phase' = phase
    BY <1>1 DEF Deliver
  <2>2. held'[c] = held[c] \union {m} /\ inbox'[c] = Append(inbox[c], m)
    BY <1>1 DEF Deliver, Hand, TypeOK
  <2>3. m \notin held[c] BY <2>1 DEF PlacesInv, OneHolder
  <2>4. Cardinality(held[c] \union {m}) = Cardinality(held[c]) + 1
    BY <1>f, <2>3, FS_AddElement
  <2>5. Range(inbox'[c]) = Range(inbox[c]) \union {m} BY <1>0, <2>2, RangeAppend
  <2>6. m # current[c] /\ \A i \in DOMAIN inbox[c] : inbox[c][i] # m
    BY <2>1, <2>3, InLoopIsHeld DEF Messages
  <2>7. /\ \A i \in DOMAIN inbox'[c] :
             inbox'[c][i] = IF i = Len(inbox[c]) + 1 THEN m ELSE inbox[c][i]
        /\ DOMAIN inbox'[c] = DOMAIN inbox[c] \union {Len(inbox[c]) + 1}
        /\ Len(inbox'[c]) = Len(inbox[c]) + 1
    BY <1>0, <2>2
  <2>8. \A i, j \in DOMAIN inbox'[c] : inbox'[c][i] = inbox'[c][j] => i = j
    BY <1>0, <2>6, <2>7 DEF PlaceOf
  <2>9. \A i \in DOMAIN inbox'[c] : inbox'[c][i] # current'[c]
    BY <1>0, <2>1, <2>6, <2>7 DEF PlaceOf
  <2>10. held'[c] = Range(inbox'[c]) \union ({current'[c]} \ {Null})
    BY <1>0, <2>1, <2>2, <2>5 DEF PlaceOf
  <2>11. Cardinality(held'[c])
           = Len(inbox'[c]) + (IF current'[c] = Null THEN 0 ELSE 1)
    <3>1. Cardinality(held[c])
            = Len(inbox[c]) + (IF current[c] = Null THEN 0 ELSE 1)
      BY <1>0, <2>1 DEF PlaceOf
    <3>2. Cardinality(held'[c]) = Cardinality(held[c]) + 1 BY <2>2, <2>4
    <3>3. current'[c] = current[c] BY <2>1
    <3>4. Len(inbox[c]) \in Nat BY <1>0
    <3>5. CASE current[c] = Null
      <4>1. Cardinality(held[c]) = Len(inbox[c]) BY <3>1, <3>4, <3>5
      <4> QED BY <2>7, <3>2, <3>3, <3>4, <3>5, <4>1
    <3>6. CASE current[c] # Null
      <4>1. Cardinality(held[c]) = Len(inbox[c]) + 1 BY <3>1, <3>4, <3>6
      <4> QED BY <2>7, <3>2, <3>3, <3>4, <3>6, <4>1
    <3> QED BY <3>5, <3>6
  <2> QED BY <1>0, <2>1, <2>8, <2>9, <2>10, <2>11 DEF PlaceOf
<1>2. CASE Receive(c)
  <2> DEFINE s == inbox[c]
  <2>1. s # <<>> /\ current[c] = Null /\ held' = held /\ channel' = channel
    BY <1>0, <1>2 DEF Receive, answers, PlaceOf
  <2>2. current'[c] = Head(s) /\ inbox'[c] = Tail(s) /\ phase'[c] = "handle"
    BY <1>2 DEF Receive, Goto, TypeOK
  <2>3. Head(s) \in Messages /\ Len(Tail(s)) = Len(s) - 1 BY <1>0, <2>1
  <2>4. \A i \in DOMAIN Tail(s) : i + 1 \in DOMAIN s /\ i + 1 # 1 /\ Tail(s)[i] = s[i + 1]
    BY <1>0, <2>1
  <2>5. 1 \in DOMAIN s /\ s[1] = Head(s) BY <1>0, <2>1
  <2>6. \A i, j \in DOMAIN s : s[i] = s[j] => i = j BY <1>0 DEF PlaceOf
  <2>7. \A i \in DOMAIN Tail(s) : Tail(s)[i] # Head(s)
    BY <2>4, <2>5, <2>6
  <2>8. \A i, j \in DOMAIN Tail(s) : Tail(s)[i] = Tail(s)[j] => i = j
    <3> SUFFICES ASSUME NEW i \in DOMAIN Tail(s), NEW j \in DOMAIN Tail(s),
                        Tail(s)[i] = Tail(s)[j]
                 PROVE  i = j
      OBVIOUS
    <3>1. i + 1 = j + 1 BY <2>4, <2>6
    <3>2. i \in Int /\ j \in Int BY <1>0, <2>1
    <3> QED BY <3>1, <3>2
  <2>9. Range(s) = Range(Tail(s)) \union {Head(s)} BY <1>0, <2>1, RangeHeadTail
  <2>10. channel'[c] => held'[c] = Range(Tail(s)) \union ({Head(s)} \ {Null})
    BY <1>0, <2>1, <2>3, <2>9 DEF PlaceOf
  <2>11. channel'[c] => Cardinality(held'[c]) = Len(Tail(s)) + 1
    BY <1>0, <2>1, <2>3 DEF PlaceOf
  <2> HIDE DEF s
  <2> QED BY <1>0, <2>1, <2>2, <2>3, <2>7, <2>8, <2>10, <2>11 DEF PlaceOf
<1>3. CASE Handle(c)
  <2>1. /\ held' = held /\ channel' = channel /\ inbox' = inbox /\ current' = current
        /\ phase'[c] \in {"ack", "requeue", "reject"}
    BY <1>3 DEF Handle, Refuse, Succeed, Fail, Goto, answers, TypeOK
  <2> QED BY <1>0, <2>1 DEF PlaceOf
<1>4. CASE Settle(c)
  <2> DEFINE m == current[c]
  <2>1. m \in Messages /\ m # Null BY <1>4 DEF Settle, AnswersJustified
  <2>2. current'[c] = Null /\ phase'[c] = "receive" /\ channel' = channel /\ inbox' = inbox
    BY <1>4 DEF Settle, Goto, TypeOK
  <2>3. \A i \in DOMAIN inbox[c] : inbox[c][i] # Null BY <1>0
  <2>4. CASE ~channel[c] BY <1>0, <1>4, <2>2, <2>3, <2>4 DEF Settle, answers, PlaceOf
  <2>5. CASE channel[c]
    <3>1. held'[c] = held[c] \ {m} BY <1>4, <2>5 DEF Settle, TypeOK
    <3>2. m \in held[c] BY <2>1, <2>5, InLoopIsHeld
    <3>3. Cardinality(held'[c]) = Cardinality(held[c]) - 1
      <4>1. Cardinality(held[c] \ {m})
              = IF m \in held[c] THEN Cardinality(held[c]) - 1 ELSE Cardinality(held[c])
        BY <1>f, FS_RemoveElement
      <4> QED BY <3>1, <3>2, <4>1
    <3>4. m \notin Range(inbox[c]) BY <1>0 DEF PlaceOf, Range
    <3>5. held'[c] = Range(inbox[c]) BY <1>0, <2>1, <2>5, <3>1, <3>4 DEF PlaceOf
    <3>6. Cardinality(held'[c]) = Len(inbox[c])
      BY <1>0, <2>1, <2>5, <3>3 DEF PlaceOf
    <3> QED BY <1>0, <2>2, <2>3, <2>5, <3>5, <3>6 DEF PlaceOf
  <2> QED BY <2>4, <2>5
<1>5. CASE Leave(c)
  <2>1. held' = held /\ channel' = channel /\ inbox' = inbox /\ current' = current
        /\ phase[c] = "receive"
    BY <1>5 DEF Leave, answers
  <2> QED BY <1>0, <2>1 DEF PlaceOf
<1>6. CASE Stop(c)
  <2>1. ~channel'[c] /\ held'[c] = {} /\ inbox' = inbox /\ current' = current
        /\ phase' = phase
    BY <1>6 DEF Stop, Release, TypeOK
  <2> QED BY <1>0, <2>1 DEF PlaceOf
<1>7. CASE Crash(c)
  <2>1. ~channel'[c] /\ held'[c] = {} /\ inbox' = inbox /\ current'[c] = Null
    BY <1>7 DEF Crash, Release, TypeOK
  <2>2. \A i \in DOMAIN inbox[c] : inbox[c][i] # Null BY <1>0
  <2> QED BY <1>0, <2>1, <2>2 DEF PlaceOf
<1>8. CASE Cancel(c)
  <2>1. held' = held /\ channel' = channel /\ inbox' = inbox /\ current' = current
        /\ phase' = phase
    BY <1>8 DEF Cancel, answers, loop
  <2> QED BY <1>0, <2>1 DEF PlaceOf
<1>9. CASE Start(c)
  <2>1. channel'[c] /\ held'[c] = {} /\ inbox'[c] = <<>> /\ current'[c] = Null
    BY <1>0, <1>9 DEF Start, answers, PlaceOf, TypeOK
  <2>2. Range(<<>>) = {} BY DEF Range
  <2>3. Cardinality({}) = 0 BY FS_EmptySet
  <2> QED BY <2>1, <2>2, <2>3 DEF PlaceOf
<1> QED BY <1>1, <1>2, <1>3, <1>4, <1>5, <1>6, <1>7, <1>8, <1>9 DEF Step, ProcessMessages

LEMMA StepPlaces ==
  ASSUME ConsumerInv, PlacesInv, NEW c \in Consumers, Step(c)
  PROVE  PlacesInv'
<1>1. ASSUME NEW d \in Consumers, d # c PROVE PlaceOf(d)'
  <2>1. PlaceOf(d) BY PlacesAreSeparate
  <2>2. /\ held'[d] = held[d] /\ channel'[d] = channel[d] /\ inbox'[d] = inbox[d]
        /\ current'[d] = current[d] /\ phase'[d] = phase[d]
    BY <1>1, OthersStay DEF ConsumerInv
  <2> QED BY <2>1, <2>2 DEF PlaceOf
<1>2. OneHolder' /\ PlaceOf(c)' BY StepOneHolder, StepPlaceOf
<1>3. \A d \in Consumers : PlaceOf(d)' BY <1>1, <1>2
<1> QED BY <1>2, <1>3 DEF PlacesInv, Idle, SeenOnce, NoDeliveryForgotten, PlaceOf, OneHolder

-----------------------------------------------------------------------------
(* How often a message can still be handled.                               *)

\* The consumers that may still handle m, or requeue it.
Owing(m) == {c \in Consumers :
  \/ m \in Range(inbox[c])
  \/ m = current[c] /\ phase[c] \in {"handle", "requeue"}}

Waiting(m) == IF m \in ready THEN 1 ELSE 0

\* What is past and what is to come exceed one only by the closed channels:
\* each of them puts a message back that a loop may have finished, or may yet
\* finish.
Credit(m) ==
  /\ IsFiniteSet(Owing(m))
  /\ handled[m] + Cardinality(Owing(m)) + Waiting(m) <= 1 + stops

CreditInv == \A m \in Messages : Credit(m)

LEMMA InitCredit == Init => CreditInv
<1> SUFFICES ASSUME Init, NEW m \in Messages PROVE Credit(m) BY DEF CreditInv
<1>1. Owing(m) = {}
  <2>1. \A c \in Consumers : inbox[c] = <<>> /\ current[c] = Null BY DEF Init
  <2>2. Range(<<>>) = {} BY DEF Range
  <2> QED BY <2>1, <2>2 DEF Owing
<1>2. IsFiniteSet({}) /\ Cardinality({}) = 0 BY FS_EmptySet
<1> QED BY <1>1, <1>2 DEF Credit, Waiting, Init

\* Credit is kept by a step that lets no more consumers owe a message,
LEMMA CreditKept ==
  ASSUME TypeOK, NEW m \in Messages, Credit(m), Owing(m)' \subseteq Owing(m),
         handled'[m] = handled[m],
         Waiting(m)' <= Waiting(m) + (stops' - stops), stops' \in Nat
  PROVE  Credit(m)'
<1>1. IsFiniteSet(Owing(m)) /\ Cardinality(Owing(m)) \in Nat
  BY FS_CardinalityType DEF Credit
<1>2. IsFiniteSet(Owing(m)') /\ Cardinality(Owing(m)') <= Cardinality(Owing(m))
      /\ Cardinality(Owing(m)') \in Nat
  BY <1>1, FS_Subset, FS_CardinalityType
<1>3. Waiting(m) \in Nat /\ Waiting(m)' \in Nat BY DEF Waiting
<1>4. handled[m] \in Nat /\ stops \in Nat BY DEF TypeOK
<1>5. handled[m] + Cardinality(Owing(m)) + Waiting(m) <= 1 + stops BY DEF Credit
<1>6. handled'[m] + Cardinality(Owing(m)') + Waiting(m)' <= 1 + stops'
  BY <1>1, <1>2, <1>3, <1>4, <1>5
<1> QED BY <1>2, <1>6 DEF Credit

\* and by one that uses up what one consumer owes.
LEMMA CreditSpent ==
  ASSUME TypeOK, NEW m \in Messages, Credit(m), NEW c \in Owing(m),
         Owing(m)' \subseteq Owing(m) \ {c},
         handled'[m] + Waiting(m)' <= handled[m] + Waiting(m) + 1,
         stops' = stops, handled'[m] \in Nat
  PROVE  Credit(m)'
<1>1. IsFiniteSet(Owing(m)) /\ Cardinality(Owing(m)) \in Nat
  BY FS_CardinalityType DEF Credit
<1>2. IsFiniteSet(Owing(m) \ {c}) /\ Cardinality(Owing(m) \ {c}) = Cardinality(Owing(m)) - 1
  BY <1>1, FS_RemoveElement
<1>3. IsFiniteSet(Owing(m)') /\ Cardinality(Owing(m)') <= Cardinality(Owing(m)) - 1
      /\ Cardinality(Owing(m)') \in Nat
  BY <1>2, FS_Subset, FS_CardinalityType
<1>4. Waiting(m) \in Nat /\ Waiting(m)' \in Nat BY DEF Waiting
<1>5. handled[m] \in Nat /\ stops \in Nat BY DEF TypeOK
<1>6. handled[m] + Cardinality(Owing(m)) + Waiting(m) <= 1 + stops BY DEF Credit
<1>7. handled'[m] + Cardinality(Owing(m)') + Waiting(m)' <= 1 + stops'
  BY <1>1, <1>3, <1>4, <1>5, <1>6
<1> QED BY <1>3, <1>7 DEF Credit

LEMMA StepCredit ==
  ASSUME ConsumerInv, PlacesInv, CreditInv, NEW c \in Consumers, Step(c)
  PROVE  CreditInv'
<1> SUFFICES ASSUME NEW m \in Messages PROVE Credit(m)' BY DEF CreditInv, Messages
<1> USE DEF ConsumerInv
<1>0. Credit(m) /\ TypeOK' /\ PlaceOf(c) /\ inbox[c] \in Seq(Messages)
  BY StepTypeOK, PlacesAreSeparate DEF CreditInv, TypeOK
<1>a. stops \in Nat /\ stops' \in Nat /\ handled[m] \in Nat /\ handled'[m] \in Nat
  BY <1>0 DEF TypeOK
<1>b. Waiting(m) \in 0..1 /\ Waiting(m)' \in 0..1 BY DEF Waiting
<1>c. \A d \in Consumers : d # c => (d \in Owing(m)' <=> d \in Owing(m))
  BY OthersStay DEF Owing
<1>d. Owing(m) \subseteq Consumers /\ Owing(m)' \subseteq Consumers BY DEF Owing
\* It is enough that c owes no more than before.
<1>e. ASSUME c \in Owing(m)' => c \in Owing(m), handled' = handled,
             Waiting(m)' <= Waiting(m) + (stops' - stops)
      PROVE  Credit(m)'
  <2>1. Owing(m)' \subseteq Owing(m) BY <1>c, <1>d, <1>e
  <2> QED BY <1>0, <1>a, <1>e, <2>1, CreditKept
<1>f. ASSUME c \in Owing(m), c \notin Owing(m)', stops' = stops,
             handled'[m] + Waiting(m)' <= handled[m] + Waiting(m) + 1
      PROVE  Credit(m)'
  <2>1. Owing(m)' \subseteq Owing(m) \ {c} BY <1>c, <1>d, <1>f
  <2> QED BY <1>0, <1>a, <1>f, <2>1, CreditSpent
<1>1. ASSUME NEW n \in Messages, Deliver(c, n) PROVE Credit(m)'
  <2>1. inbox'[c] = Append(inbox[c], n) /\ ready' = ready \ {n} /\ n \in ready
        /\ current' = current /\ phase' = phase /\ handled' = handled /\ stops' = stops
    BY <1>1 DEF Deliver, TypeOK
  <2>2. Range(inbox'[c]) = Range(inbox[c]) \union {n} BY <1>0, <2>1, RangeAppend
  <2>3. CASE n # m
    <3>1. c \in Owing(m)' => c \in Owing(m) BY <2>1, <2>2, <2>3 DEF Owing
    <3>2. Waiting(m)' = Waiting(m) BY <2>1, <2>3 DEF Waiting
    <3> QED BY <1>a, <1>b, <1>e, <2>1, <3>1, <3>2
  <2>4. CASE n = m
    <3>1. Waiting(m) = 1 /\ Waiting(m)' = 0 BY <2>1, <2>4 DEF Waiting
    <3>2. Owing(m)' \subseteq Owing(m) \union {c} BY <1>c, <1>d
    <3>3. IsFiniteSet(Owing(m)) /\ Cardinality(Owing(m)) \in Nat
      BY <1>0, FS_CardinalityType DEF Credit
    <3>4. IsFiniteSet(Owing(m) \union {c})
          /\ Cardinality(Owing(m) \union {c}) <= Cardinality(Owing(m)) + 1
          /\ Cardinality(Owing(m) \union {c}) \in Nat
      <4>1. IsFiniteSet(Owing(m) \union {c})
            /\ Cardinality(Owing(m) \union {c})
                 = IF c \in Owing(m) THEN Cardinality(Owing(m))
                   ELSE Cardinality(Owing(m)) + 1
        BY <3>3, FS_AddElement
      <4> QED BY <3>3, <4>1
    <3>5. IsFiniteSet(Owing(m)') /\ Cardinality(Owing(m)') \in Nat
          /\ Cardinality(Owing(m)') <= Cardinality(Owing(m)) + 1
      BY <3>2, <3>3, <3>4, FS_Subset, FS_CardinalityType
    <3>6. handled[m] + Cardinality(Owing(m)) + 1 <= 1 + stops BY <1>0, <3>1 DEF Credit
    <3>7. handled'[m] + Cardinality(Owing(m)') + Waiting(m)' <= 1 + stops'
      BY <1>a, <2>1, <3>1, <3>3, <3>5, <3>6
    <3> QED BY <3>5, <3>7 DEF Credit
  <2> QED BY <2>3, <2>4
<1>2. CASE Receive(c)
  <2>1. /\ current'[c] = Head(inbox[c]) /\ inbox'[c] = Tail(inbox[c])
        /\ inbox[c] # <<>>
        /\ ready' = ready /\ handled' = handled /\ stops' = stops
    BY <1>2 DEF Receive, answers, TypeOK
  <2>2. Range(inbox[c]) = Range(inbox'[c]) \union {current'[c]}
    BY <1>0, <2>1, RangeHeadTail
  <2>3. c \in Owing(m)' => c \in Owing(m) BY <2>2 DEF Owing
  <2>4. Waiting(m)' = Waiting(m) BY <2>1 DEF Waiting
  <2> QED BY <1>a, <1>b, <1>e, <2>1, <2>3, <2>4
<1>3. CASE Handle(c)
  <2>1. phase[c] = "handle" /\ current[c] \in Messages /\ current' = current
        /\ inbox' = inbox /\ ready' = ready /\ stops' = stops
    BY <1>3 DEF Handle, Refuse, Succeed, Fail, answers, AnswersJustified
  <2>2. Waiting(m)' = Waiting(m) BY <2>1 DEF Waiting
  <2>3. CASE handled' = handled
    <3>1. c \in Owing(m)' => c \in Owing(m) BY <2>1 DEF Owing
    <3> QED BY <1>a, <1>b, <1>e, <2>1, <2>2, <2>3, <3>1
  <2>4. CASE Succeed(c)
    <3>1. phase'[c] = "ack" BY <2>4 DEF Succeed, Goto, TypeOK
    <3>2. CASE m # current[c]
      <4>1. handled'[m] = handled[m] BY <2>1, <2>4, <3>2 DEF Succeed, TypeOK
      <4>2. c \in Owing(m)' => c \in Owing(m) BY <2>1, <3>1, <3>2 DEF Owing
      <4>3. Owing(m)' \subseteq Owing(m) BY <1>c, <1>d, <4>2
      <4> QED BY <1>0, <1>a, <1>b, <2>1, <2>2, <4>1, <4>3, CreditKept
    <3>3. CASE m = current[c]
      <4>1. handled'[m] = handled[m] + 1 BY <2>1, <2>4, <3>3 DEF Succeed, TypeOK
      <4>2. c \in Owing(m) BY <2>1, <3>3 DEF Owing
      <4>3. m \notin Range(inbox[c]) BY <1>0, <3>3 DEF PlaceOf, Range
      <4>4. c \notin Owing(m)' BY <2>1, <3>1, <4>3 DEF Owing
      <4> QED BY <1>a, <1>b, <1>f, <2>1, <2>2, <4>1, <4>2, <4>4
    <3> QED BY <3>2, <3>3
  <2> QED BY <1>3, <2>3, <2>4 DEF Handle, Refuse, Fail
<1>4. CASE Settle(c)
  <2>1. current[c] \in Messages /\ current'[c] = Null /\ inbox' = inbox
        /\ handled' = handled /\ stops' = stops
    BY <1>4 DEF Settle, AnswersJustified, TypeOK
  <2>2. c \in Owing(m)' => c \in Owing(m) BY <2>1 DEF Owing, Messages
  <2>3. CASE ready' \subseteq ready
    <3>1. Waiting(m)' <= Waiting(m) BY <2>3 DEF Waiting
    <3> QED BY <1>a, <1>b, <1>e, <2>1, <2>2, <3>1
  <2>4. CASE phase[c] = "requeue" /\ ready' = ready \union {current[c]}
    <3>1. CASE m # current[c]
      <4>1. Waiting(m)' = Waiting(m) BY <2>4, <3>1 DEF Waiting
      <4> QED BY <1>a, <1>b, <1>e, <2>1, <2>2, <4>1
    <3>2. CASE m = current[c]
      <4>1. c \in Owing(m) BY <2>4, <3>2 DEF Owing
      <4>2. m \notin Range(inbox[c]) BY <1>0, <3>2 DEF PlaceOf, Range
      <4>3. c \notin Owing(m)' BY <2>1, <4>2 DEF Owing, Messages
      <4> QED BY <1>a, <1>b, <1>f, <2>1, <4>1, <4>3
    <3> QED BY <3>1, <3>2
  <2> QED BY <1>4, <2>3, <2>4 DEF Settle, answers
<1>5. ASSUME inbox' = inbox, current' = current, phase'[c] = "off" \/ phase' = phase,
             ready' = ready, handled' = handled, stops' = stops
      PROVE  Credit(m)'
  <2>1. c \in Owing(m)' => c \in Owing(m) BY <1>5 DEF Owing
  <2>2. Waiting(m)' = Waiting(m) BY <1>5 DEF Waiting
  <2> QED BY <1>a, <1>b, <1>e, <1>5, <2>1, <2>2
<1>6. CASE Leave(c) BY <1>5, <1>6 DEF Leave, Goto, answers, TypeOK
<1>7. CASE Cancel(c) BY <1>5, <1>7 DEF Cancel, loop, answers
<1>8. ASSUME Stop(c) \/ Crash(c) PROVE Credit(m)'
  <2>1. inbox' = inbox /\ handled' = handled /\ stops' = stops + 1
    BY <1>8 DEF Stop, Crash, Release
  <2>2. (current' = current /\ phase' = phase) \/ phase'[c] = "off"
    BY <1>8 DEF Stop, Crash, Goto, TypeOK
  <2>3. c \in Owing(m)' => c \in Owing(m) BY <2>1, <2>2 DEF Owing
  <2> QED BY <1>a, <1>b, <1>e, <2>1, <2>3
<1>9. CASE Start(c)
  <2>1. inbox'[c] = <<>> /\ phase'[c] = "receive" /\ ready' = ready
        /\ handled' = handled /\ stops' = stops
    BY <1>9 DEF Start, Goto, answers, TypeOK
  <2>2. Range(<<>>) = {} BY DEF Range
  <2>3. c \notin Owing(m)' BY <2>1, <2>2 DEF Owing
  <2>4. Waiting(m)' = Waiting(m) BY <2>1 DEF Waiting
  <2> QED BY <1>a, <1>b, <1>e, <2>1, <2>3, <2>4
<1> QED BY <1>1, <1>2, <1>3, <1>4, <1>6, <1>7, <1>8, <1>9 DEF Step, ProcessMessages

-----------------------------------------------------------------------------

\* Each message is in one place, and what can still come of it is bounded.
THEOREM PlacesInvariant == Spec => [](PlacesInv /\ CreditInv)
<1>1. Init => PlacesInv /\ CreditInv BY InitPlaces, InitCredit
<1>2. ConsumerInv /\ PlacesInv /\ CreditInv /\ [Next]_vars => (PlacesInv /\ CreditInv)'
  <2> SUFFICES ASSUME ConsumerInv, PlacesInv, CreditInv, [Next]_vars
               PROVE  (PlacesInv /\ CreditInv)'
    OBVIOUS
  <2>1. CASE UNCHANGED vars
    <3>1. PlacesInv'
      BY <2>1 DEF vars, PlacesInv, Idle, OneHolder, SeenOnce, NoDeliveryForgotten
    <3>2. CreditInv' BY <2>1 DEF vars, CreditInv, Credit, Owing, Waiting
    <3> QED BY <3>1, <3>2
  <2>2. ASSUME NEW c \in Consumers, Step(c) PROVE (PlacesInv /\ CreditInv)'
    BY <2>2, StepPlaces, StepCredit
  <2> QED BY <2>1, <2>2 DEF Next, Step
<1> QED BY <1>1, <1>2, ConsumerInvariant, PTL DEF Spec

\* What the broker waits for an answer about is in msgs or in the loop, once,
\* for any prefetch count and however many channels close.
THEOREM NothingForgotten == Spec => []NoDeliveryForgotten
BY PlacesInvariant, PTL DEF PlacesInv

\* Only a closed channel makes a handler succeed once more for an event,
\* whatever the other consumers of the queue do.
THEOREM DuplicatesAreStops == Spec => []DuplicatesNeedStops
<1>1. ConsumerInv /\ CreditInv => DuplicatesNeedStops
  <2> SUFFICES ASSUME TypeOK, CreditInv, NEW m \in Messages
               PROVE  handled[m] <= 1 + stops
    BY DEF DuplicatesNeedStops, ConsumerInv
  <2>1. Credit(m) BY DEF CreditInv
  <2>2. Cardinality(Owing(m)) \in Nat /\ Waiting(m) \in Nat
    BY <2>1, FS_CardinalityType DEF Credit, Waiting
  <2>3. handled[m] \in Nat /\ stops \in Nat BY DEF TypeOK
  <2> QED BY <2>1, <2>2, <2>3 DEF Credit
<1> QED BY <1>1, ConsumerInvariant, PlacesInvariant, PTL
=============================================================================
