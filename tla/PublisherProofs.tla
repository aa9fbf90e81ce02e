-------------------------- MODULE PublisherProofs --------------------------
(***************************************************************************)
(* Theorems about the event publisher, for any publishers, events and      *)
(* failures and any room for confirmations.                                *)
(*                                                                         *)
(* Both properties count, and both are inductive only because an event is  *)
(* in one place at a time: sent once, decided once, confirmed once.  No    *)
(* set has to be finite but those that the steps fill one by one.          *)
(***************************************************************************)
EXTENDS Publisher, FiniteSetTheorems, TLAPS

Confirmation == [event : Events, ack : BOOLEAN]

Items(s) == {s[i] : i \in 1..Len(s)}

Distinct(s) == \A i, j \in 1..Len(s) : s[i] = s[j] => i = j

\* A publisher at work has an event of its own that has no outcome yet.
Owners ==
  /\ closing => closed
  /\ \A p \in Publishers :
       pc[p] # "idle" => job[p] \in Events /\ outcome[job[p]] = "none"
  /\ \A p, q \in Publishers :
       pc[p] # "idle" /\ pc[q] # "idle" /\ job[p] = job[q] => p = q

Fresh(e) == e \notin Items(wire) \union stored \union refused \union abandoned

\* What nobody has sent is nowhere; what is waited for is not abandoned.
Unsent ==
  /\ \A p \in Publishers :
       /\ pc[p] = "send" => Fresh(job[p])
       /\ pc[p] = "await" => job[p] \notin abandoned
  /\ \A e \in Events : outcome[e] = "none" /\ e \notin InProgress => Fresh(e)

Confirmed == Items(acks) \union Items(confirms)

\* An event is decided once and confirmed once, as it was decided.
Decided ==
  /\ Distinct(wire) /\ Distinct(acks) /\ Distinct(confirms)
  /\ Items(wire) \intersect (stored \union refused) = {}
  /\ stored \intersect refused = {}
  /\ Items(acks) \intersect Items(confirms) = {}
  /\ \A c \in Confirmed : c.event \in (IF c.ack THEN stored ELSE refused)

Succeeded == {e \in Events : outcome[e] = "ok"}

Vouching == {c \in Confirmed : c.ack}

\* Every success, and every success still to come, has an accepted event.
Vouched ==
  /\ IsFiniteSet(Succeeded) /\ IsFiniteSet(Vouching) /\ IsFiniteSet(stored)
  /\ Cardinality(Succeeded) + Cardinality(Vouching) <= Cardinality(stored)

Counted ==
  /\ IsFiniteSet(Waiting) /\ IsFiniteSet(abandoned)
  /\ BacklogIsAbandoned

PublisherInv ==
  TypeOK /\ Owners /\ Unsent /\ Decided /\ Vouched /\ Counted

-----------------------------------------------------------------------------
(* Sequences without repetition                                            *)

LEMMA Appending ==
  ASSUME NEW S, NEW s \in Seq(S), NEW x \in S
  PROVE  /\ Append(s, x) \in Seq(S)
         /\ Len(Append(s, x)) = Len(s) + 1
         /\ Items(Append(s, x)) = Items(s) \union {x}
         /\ Distinct(s) /\ x \notin Items(s) => Distinct(Append(s, x))
<1> DEFINE t == Append(s, x)
<1>1. /\ t \in Seq(S) /\ Len(s) \in Nat /\ Len(t) = Len(s) + 1
      /\ \A i \in 1..Len(s) : t[i] = s[i]
      /\ t[Len(s) + 1] = x
  OBVIOUS
<1> HIDE DEF t
<1>2. Items(t) = Items(s) \union {x}
  <2>1. \A i \in 1..Len(t) : t[i] \in Items(s) \union {x}
    BY <1>1 DEF Items
  <2>2. Items(s) \subseteq Items(t)
    BY <1>1 DEF Items
  <2>3. x \in Items(t)
    BY <1>1 DEF Items
  <2>. QED  BY <2>1, <2>2, <2>3 DEF Items
<1>3. Distinct(s) /\ x \notin Items(s) => Distinct(t)
  BY <1>1 DEF Distinct, Items
<1>. QED  BY <1>1, <1>2, <1>3 DEF t

LEMMA Taking ==
  ASSUME NEW S, NEW s \in Seq(S), s # <<>>
  PROVE  /\ Head(s) \in S /\ Head(s) \in Items(s)
         /\ Tail(s) \in Seq(S)
         /\ Len(s) \in Nat /\ Len(Tail(s)) = Len(s) - 1
         /\ Items(s) = Items(Tail(s)) \union {Head(s)}
         /\ Distinct(s) => Distinct(Tail(s)) /\ Head(s) \notin Items(Tail(s))
<1> DEFINE t == Tail(s)
<1>1. /\ Len(s) \in Nat /\ Len(s) > 0
      /\ Head(s) = s[1] /\ s[1] \in S
      /\ t \in Seq(S) /\ Len(t) = Len(s) - 1
      /\ \A i \in 1..Len(t) : t[i] = s[i + 1]
  OBVIOUS
<1> HIDE DEF t
<1>2. Head(s) \in Items(s)
  BY <1>1 DEF Items
<1>3. Items(t) \subseteq Items(s)
  <2>1. \A i \in 1..Len(t) : i + 1 \in 1..Len(s)
    BY <1>1
  <2>. QED  BY <1>1, <2>1 DEF Items
<1>4. \A i \in 1..Len(s) : s[i] \in Items(t) \union {Head(s)}
  <2>1. \A i \in 1..Len(s) : i # 1 => i - 1 \in 1..Len(t) /\ t[i - 1] = s[i]
    BY <1>1
  <2>. QED  BY <1>1, <2>1 DEF Items
<1>5. Distinct(s) => Distinct(t) /\ Head(s) \notin Items(t)
  <2>1. \A i \in 1..Len(t) : i + 1 \in 1..Len(s) /\ i + 1 # 1
    BY <1>1
  <2>. QED  BY <1>1, <2>1 DEF Items, Distinct
<1>. QED  BY <1>1, <1>2, <1>3, <1>4, <1>5 DEF t, Items

LEMMA NoItems ==
  Items(<<>>) = {} /\ Distinct(<<>>) /\ Len(<<>>) = 0
BY DEF Items, Distinct

-----------------------------------------------------------------------------
(* Initially                                                               *)

LEMMA InitPublisherInv == Init => PublisherInv
<1>. SUFFICES ASSUME Init PROVE PublisherInv
  OBVIOUS
<1>1. TypeOK /\ Owners
  <2>1. Len(confirms) <= Capacity
    BY CapacityAssumption, NoItems DEF Init
  <2>2. {closed, closing} \subseteq BOOLEAN
    BY DEF Init
  <2>3. TypeOK
    BY <2>1, <2>2 DEF Init, TypeOK, Outcomes
  <2>4. Owners
    BY DEF Init, Owners
  <2>. QED  BY <2>3, <2>4
<1>2. Unsent /\ Decided
  <2>1. /\ Items(wire) = {} /\ Items(acks) = {} /\ Items(confirms) = {}
        /\ Distinct(wire) /\ Distinct(acks) /\ Distinct(confirms)
    BY NoItems DEF Init
  <2>2. Unsent
    BY <2>1 DEF Init, Unsent, Fresh
  <2>3. Decided
    BY <2>1 DEF Init, Decided, Confirmed
  <2>. QED  BY <2>2, <2>3
<1>3. Succeeded = {} /\ Vouching = {} /\ Waiting = {}
  BY NoItems DEF Init, Succeeded, Vouching, Confirmed, Waiting
<1>4. Vouched /\ Counted
  BY <1>3, NoItems, FS_EmptySet DEF Init, Vouched, Counted, BacklogIsAbandoned
<1>. QED  BY <1>1, <1>2, <1>4 DEF PublisherInv

-----------------------------------------------------------------------------
(* What the steps have in common                                           *)

\* A publication ends: its publisher is free, its event has an outcome.
LEMMA Returning ==
  ASSUME PublisherInv, NEW p \in Publishers, pc[p] # "idle",
         NEW result \in Outcomes \ {"none"}, Return(p, result),
         abandoned' \subseteq abandoned \union {job[p]},
         \A e \in Events \ {job[p]} : Fresh(e) => Fresh(e)'
  PROVE  /\ pc' \in [Publishers -> {"idle", "send", "await"}]
         /\ outcome' \in [Events -> Outcomes]
         /\ Owners' /\ Unsent'
         /\ Waiting' = Waiting \ {p}
         /\ job[p] \in Events /\ job[p] \notin Succeeded
         /\ Succeeded' = IF result = "ok" THEN Succeeded \union {job[p]}
                         ELSE Succeeded
<1>1. /\ pc' = [pc EXCEPT ![p] = "idle"]
      /\ outcome' = [outcome EXCEPT ![job[p]] = result]
      /\ UNCHANGED <<closed, closing, job>>
  BY DEF Return, Goto
<1>2. /\ pc \in [Publishers -> {"idle", "send", "await"}]
      /\ outcome \in [Events -> Outcomes]
      /\ job[p] \in Events /\ outcome[job[p]] = "none"
  BY DEF PublisherInv, TypeOK, Owners
<1>3. /\ pc' \in [Publishers -> {"idle", "send", "await"}]
      /\ outcome' \in [Events -> Outcomes]
  BY <1>1, <1>2
<1>4. Owners'
  BY <1>1, <1>2 DEF PublisherInv, Owners
<1>5. Unsent'
  <2>1. ASSUME NEW q \in Publishers, pc'[q] # "idle"
        PROVE  /\ pc'[q] = pc[q] /\ job'[q] = job[q]
               /\ job[q] \in Events \ {job[p]}
    BY <1>1, <1>2, <2>1 DEF PublisherInv, Owners
  <2>2. ASSUME NEW q \in Publishers
        PROVE  /\ pc'[q] = "send" => Fresh(job[q])'
               /\ pc'[q] = "await" => job'[q] \notin abandoned'
    BY <2>1 DEF PublisherInv, Unsent
  <2>3. ASSUME NEW e \in Events, outcome'[e] = "none", e \notin InProgress'
        PROVE  Fresh(e)'
    <3>1. e # job[p] /\ outcome[e] = "none"
      BY <1>1, <1>2, <2>3 DEF Outcomes
    <3>2. e \notin InProgress
      BY <1>1, <1>2, <2>3, <3>1 DEF InProgress
    <3>. QED  BY <3>1, <3>2 DEF PublisherInv, Unsent
  <2>. QED  BY <2>2, <2>3 DEF Unsent
<1>6. Waiting' = Waiting \ {p}
  BY <1>1, <1>2 DEF Waiting
<1>7. /\ job[p] \notin Succeeded
      /\ Succeeded' = IF result = "ok" THEN Succeeded \union {job[p]}
                      ELSE Succeeded
  BY <1>1, <1>2 DEF Succeeded
<1>. QED  BY <1>2, <1>3, <1>4, <1>5, <1>6, <1>7

\* No publisher moves, and no unsent event appears anywhere.
LEMMA Unmoved ==
  ASSUME PublisherInv, UNCHANGED <<pc, job, outcome, abandoned>>,
         closing' => closed',
         \A e \in Events : Fresh(e) => Fresh(e)'
  PROVE  /\ Owners' /\ Unsent'
         /\ Waiting' = Waiting /\ Succeeded' = Succeeded
<1>1. Owners'
  BY DEF PublisherInv, Owners
<1>2. InProgress' = InProgress
  BY DEF InProgress
<1>3. Unsent'
  BY <1>2 DEF PublisherInv, Unsent, Owners
<1>. QED  BY <1>1, <1>3 DEF Waiting, Succeeded

\* The numbers that the counting is about.
LEMMA Numbers ==
  ASSUME PublisherInv
  PROVE  /\ Cardinality(Succeeded) \in Nat /\ Cardinality(Vouching) \in Nat
         /\ Cardinality(stored) \in Nat
         /\ Cardinality(Waiting) \in Nat /\ Cardinality(abandoned) \in Nat
         /\ Len(wire) \in Nat /\ Len(acks) \in Nat /\ Len(confirms) \in Nat
BY FS_CardinalityType DEF PublisherInv, Vouched, Counted, TypeOK

-----------------------------------------------------------------------------
(* PublishWithRouting                                                      *)

LEMMA BeginStep ==
  ASSUME PublisherInv, NEW p \in Publishers, NEW e \in Events, Begin(p, e)
  PROVE  PublisherInv'
<1>1. /\ UNCHANGED <<wire, acks, confirms, stored, refused, abandoned, closed,
                     closing, link>>
      /\ pc[p] = "idle" /\ outcome[e] = "none" /\ e \notin InProgress
      /\ job' = [job EXCEPT ![p] = e]
      /\ \/ outcome' = [outcome EXCEPT ![e] = "closed"] /\ UNCHANGED pc
         \/ pc' = [pc EXCEPT ![p] = "send"] /\ UNCHANGED outcome
  BY DEF Begin, broker, Goto
<1>2. /\ pc \in [Publishers -> {"idle", "send", "await"}]
      /\ job \in [Publishers -> Events \union {Null}]
      /\ outcome \in [Events -> Outcomes]
  BY DEF PublisherInv, TypeOK
<1>3. TypeOK'
  BY <1>1, <1>2 DEF PublisherInv, TypeOK, Outcomes
<1>4. \A q \in Publishers : pc[q] # "idle" => job[q] # e /\ q # p
  BY <1>1 DEF InProgress
<1>5. Owners'
  BY <1>1, <1>2, <1>4 DEF PublisherInv, Owners
<1>6. Unsent'
  <2>1. Fresh(e) /\ \A d : Fresh(d)' = Fresh(d)
    BY <1>1 DEF PublisherInv, Unsent, Fresh
  <2>2. ASSUME NEW d \in Events, outcome'[d] = "none", d \notin InProgress'
        PROVE  Fresh(d)'
    <3>1. d # e => outcome[d] = "none" /\ d \notin InProgress
      BY <1>1, <1>2, <1>4, <2>2 DEF InProgress
    <3>. QED  BY <2>1, <3>1 DEF PublisherInv, Unsent
  <2>3. \A q \in Publishers :
          /\ pc'[q] = "send" => Fresh(job'[q])
          /\ pc'[q] = "await" => job'[q] \notin abandoned
    BY <1>1, <1>2, <1>4, <2>1 DEF PublisherInv, Unsent
  <2>4. \A q \in Publishers :
          /\ pc'[q] = "send" => Fresh(job[q])'
          /\ pc'[q] = "await" => job'[q] \notin abandoned'
    BY <1>1, <2>3 DEF Fresh
  <2>. QED  BY <2>2, <2>4 DEF Unsent
<1>7. Decided'
  BY <1>1 DEF PublisherInv, Decided, Confirmed
<1>8. Waiting' = Waiting /\ Succeeded' = Succeeded /\ Vouching' = Vouching
  BY <1>1, <1>2 DEF Waiting, Succeeded, Vouching, Confirmed, Outcomes
<1>9. Vouched' /\ Counted'
  BY <1>1, <1>8 DEF PublisherInv, Vouched, Counted, BacklogIsAbandoned
<1>. QED  BY <1>3, <1>5, <1>6, <1>7, <1>9 DEF PublisherInv

LEMMA SendStep ==
  ASSUME PublisherInv, NEW p \in Publishers, Send(p)
  PROVE  PublisherInv'
<1>1. /\ pc[p] = "send" /\ link = "open"
      /\ pc' = [pc EXCEPT ![p] = "await"]
      /\ UNCHANGED <<acks, confirms, stored, refused, abandoned, closed,
                     closing, link, job, outcome>>
      /\ \/ wire' = Append(wire, job[p])
         \/ closing /\ wire' = wire
  BY DEF Send, Goto
<1>2. /\ pc \in [Publishers -> {"idle", "send", "await"}]
      /\ wire \in Seq(Events) /\ job[p] \in Events /\ Fresh(job[p])
  BY <1>1 DEF PublisherInv, TypeOK, Owners, Unsent
<1>3. /\ wire' \in Seq(Events) /\ Distinct(wire')
      /\ Items(wire') \subseteq Items(wire) \union {job[p]}
      /\ Len(wire') = Len(wire) + 1 \/ closing
  <2>1. CASE wire' = Append(wire, job[p])
    BY <1>2, <2>1, Appending DEF PublisherInv, Decided, Fresh
  <2>2. CASE closing /\ wire' = wire
    BY <1>2, <2>2 DEF PublisherInv, Decided
  <2>. QED  BY <1>1, <2>1, <2>2
<1>4. TypeOK'
  BY <1>1, <1>2, <1>3 DEF PublisherInv, TypeOK
<1>5. Owners'
  BY <1>1, <1>2 DEF PublisherInv, Owners
<1>6. Unsent'
  <2>1. \A d \in Events : d # job[p] /\ Fresh(d) => Fresh(d)'
    BY <1>1, <1>3 DEF Fresh
  <2>2. InProgress' = InProgress
    BY <1>1, <1>2 DEF InProgress
  <2>3. job[p] \in InProgress
    BY <1>1 DEF InProgress
  <2>4. \A d \in Events : outcome'[d] = "none" /\ d \notin InProgress' => Fresh(d)'
    BY <1>1, <2>1, <2>2, <2>3 DEF PublisherInv, Unsent
  <2>5. ASSUME NEW q \in Publishers, pc'[q] = "send"
        PROVE  Fresh(job[q])'
    <3>1. q # p /\ pc[q] = "send" /\ job[q] \in Events /\ job[q] # job[p]
      BY <1>1, <1>2, <2>5 DEF PublisherInv, Owners
    <3>2. Fresh(job[q])
      BY <3>1 DEF PublisherInv, Unsent
    <3>3. job'[q] = job[q]
      BY <1>1
    <3>. QED  BY <2>1, <3>1, <3>2, <3>3
  <2>6. \A q \in Publishers : pc'[q] = "await" => job'[q] \notin abandoned'
    BY <1>1, <1>2 DEF PublisherInv, Unsent, Fresh
  <2>. QED  BY <2>4, <2>5, <2>6 DEF Unsent
<1>7. Decided'
  BY <1>1, <1>2, <1>3 DEF PublisherInv, Decided, Confirmed, Fresh
<1>8. /\ Waiting' = Waiting \union {p} /\ p \notin Waiting
      /\ Succeeded' = Succeeded /\ Vouching' = Vouching
  BY <1>1, <1>2 DEF Waiting, Succeeded, Vouching, Confirmed
<1>9. Vouched'
  BY <1>1, <1>8 DEF PublisherInv, Vouched
<1>10. /\ IsFiniteSet(Waiting')
       /\ Cardinality(Waiting') = Cardinality(Waiting) + 1
  BY <1>8, FS_AddElement DEF PublisherInv, Counted
<1>11. Counted'
  <2>1. closing => closed'
    BY <1>1 DEF PublisherInv, Owners
  <2>2. /\ Cardinality(Waiting) \in Nat /\ Cardinality(abandoned) \in Nat
        /\ Len(wire) \in Nat /\ Len(acks) \in Nat /\ Len(confirms) \in Nat
    BY Numbers
  <2>3. ~closed' => /\ Len(wire') = Len(wire) + 1
                    /\ Len(acks') = Len(acks) /\ Len(confirms') = Len(confirms)
                    /\ abandoned' = abandoned /\ ~closed /\ link = "open"
    BY <1>1, <1>3, <2>1
  <2>4. BacklogIsAbandoned
    BY DEF PublisherInv, Counted
  <2>5. BacklogIsAbandoned'
    BY <1>10, <2>2, <2>3, <2>4, SMTT(30) DEF BacklogIsAbandoned
  <2>. QED  BY <1>1, <1>10, <2>5 DEF PublisherInv, Counted
<1>. QED  BY <1>4, <1>5, <1>6, <1>7, <1>9, <1>11 DEF PublisherInv

LEMMA SendFailsStep ==
  ASSUME PublisherInv, NEW p \in Publishers, SendFails(p)
  PROVE  PublisherInv'
<1> DEFINE sent == /\ link = "open" /\ wire' = Append(wire, job[p])
                   /\ abandoned' = abandoned \union {job[p]}
<1>1. /\ pc[p] = "send"
      /\ UNCHANGED <<acks, confirms, stored, refused, closed, closing, link, job>>
      /\ sent \/ UNCHANGED <<wire, abandoned>>
      /\ Return(p, "error")
  BY DEF SendFails, Return
<1>2. /\ wire \in Seq(Events) /\ job[p] \in Events /\ Fresh(job[p])
      /\ abandoned \subseteq Events
  BY <1>1 DEF PublisherInv, TypeOK, Owners, Unsent
<1>3. /\ wire' \in Seq(Events) /\ Distinct(wire')
      /\ Items(wire') \subseteq Items(wire) \union {job[p]}
      /\ sent => Len(wire') = Len(wire) + 1
  <2>1. CASE sent
    BY <1>2, <2>1, Appending DEF PublisherInv, Decided, Fresh
  <2>2. CASE UNCHANGED <<wire, abandoned>> /\ ~sent
    BY <1>2, <2>2 DEF PublisherInv, Decided
  <2>. QED  BY <1>1, <2>1, <2>2
<1>4. abandoned' \subseteq abandoned \union {job[p]}
  BY <1>1
<1>5. \A e \in Events \ {job[p]} : Fresh(e) => Fresh(e)'
  BY <1>1, <1>3, <1>4 DEF Fresh
<1>6. /\ pc' \in [Publishers -> {"idle", "send", "await"}]
      /\ outcome' \in [Events -> Outcomes]
      /\ Owners' /\ Unsent'
      /\ Waiting' = Waiting \ {p} /\ Succeeded' = Succeeded
  BY <1>1, <1>4, <1>5, Returning DEF Outcomes
<1>7. TypeOK'
  BY <1>1, <1>2, <1>3, <1>4, <1>6 DEF PublisherInv, TypeOK
<1>8. Decided'
  BY <1>1, <1>2, <1>3 DEF PublisherInv, Decided, Confirmed, Fresh
<1>9. Waiting' = Waiting /\ Vouching' = Vouching
  BY <1>1, <1>6 DEF Waiting, Vouching, Confirmed
<1>10. Vouched'
  BY <1>1, <1>6, <1>9 DEF PublisherInv, Vouched
<1>11. /\ IsFiniteSet(abandoned')
       /\ sent => Cardinality(abandoned') = Cardinality(abandoned) + 1
  <2>1. IsFiniteSet(abandoned) /\ job[p] \notin abandoned
    BY <1>2 DEF PublisherInv, Counted, Fresh
  <2>2. CASE sent
    BY <2>1, <2>2, FS_AddElement
  <2>3. CASE UNCHANGED <<wire, abandoned>> /\ ~sent
    BY <2>1, <2>3
  <2>. QED  BY <1>1, <2>2, <2>3
<1>12. Counted'
  <2>1. /\ Cardinality(Waiting) \in Nat /\ Cardinality(abandoned) \in Nat
        /\ Len(wire) \in Nat /\ Len(acks) \in Nat /\ Len(confirms) \in Nat
    BY Numbers
  <2>2. BacklogIsAbandoned
    BY DEF PublisherInv, Counted
  <2>3. CASE sent
    <3>1. /\ Len(wire') = Len(wire) + 1 /\ acks' = acks /\ confirms' = confirms
          /\ Waiting' = Waiting /\ IsFiniteSet(Waiting) /\ IsFiniteSet(abandoned')
          /\ Cardinality(abandoned') = Cardinality(abandoned) + 1
          /\ closed' = closed /\ link' = link
      BY <1>1, <1>3, <1>9, <1>11, <2>3 DEF PublisherInv, Counted
    <3> HIDE DEF sent
    <3>2. BacklogIsAbandoned'
      BY <3>1, <2>1, <2>2 DEF BacklogIsAbandoned
    <3>. QED  BY <3>1, <3>2 DEF Counted
  <2>4. CASE UNCHANGED <<wire, abandoned>>
    BY <1>1, <1>9, <1>11, <2>2, <2>4
       DEF PublisherInv, Counted, BacklogIsAbandoned
  <2>. QED  BY <1>1, <2>3, <2>4
<1>. QED  BY <1>6, <1>7, <1>8, <1>10, <1>12 DEF PublisherInv

LEMMA TakeConfirmStep ==
  ASSUME PublisherInv, NEW p \in Publishers, TakeConfirm(p)
  PROVE  PublisherInv'
<1> DEFINE c == Head(confirms)
           result == IF c.ack THEN "ok" ELSE "error"
<1>1. /\ pc[p] = "await" /\ confirms # <<>> /\ confirms' = Tail(confirms)
      /\ UNCHANGED <<wire, acks, stored, refused, abandoned, closed, closing,
                     link, job>>
      /\ Return(p, result)
  BY DEF TakeConfirm, Return
<1>2. confirms \in Seq(Confirmation)
  BY DEF PublisherInv, TypeOK, Confirmation
<1>3. /\ c \in Confirmation /\ confirms' \in Seq(Confirmation)
      /\ Distinct(confirms') /\ c \notin Items(confirms')
      /\ Items(confirms) = Items(confirms') \union {c}
      /\ Len(confirms) \in Nat /\ Len(confirms') = Len(confirms) - 1
  BY <1>1, <1>2, Taking DEF PublisherInv, Decided
<1>4. \A e \in Events \ {job[p]} : Fresh(e) => Fresh(e)'
  BY <1>1 DEF Fresh
<1>5. result \in Outcomes \ {"none"} /\ (result = "ok" <=> c.ack)
  BY <1>3 DEF Outcomes, Confirmation
<1> HIDE DEF result
<1>6. /\ pc' \in [Publishers -> {"idle", "send", "await"}]
      /\ outcome' \in [Events -> Outcomes]
      /\ Owners' /\ Unsent'
      /\ Waiting' = Waiting \ {p}
      /\ job[p] \notin Succeeded
      /\ Succeeded' = IF c.ack THEN Succeeded \union {job[p]} ELSE Succeeded
  BY <1>1, <1>4, <1>5, Returning
<1> HIDE DEF c
<1>7. TypeOK'
  <2>1. Len(confirms') <= Capacity
    BY <1>3, CapacityAssumption DEF PublisherInv, TypeOK
  <2>. QED  BY <1>1, <1>3, <1>6, <2>1 DEF PublisherInv, TypeOK, Confirmation
<1>8. Decided'
  BY <1>1, <1>3 DEF PublisherInv, Decided, Confirmed
<1>9. /\ c \notin Items(acks)
      /\ Vouching' = IF c.ack THEN Vouching \ {c} ELSE Vouching
      /\ c.ack => c \in Vouching
  BY <1>1, <1>3 DEF PublisherInv, Decided, Vouching, Confirmed
<1>10. Vouched'
  <2>1. /\ Cardinality(Succeeded) \in Nat /\ Cardinality(Vouching) \in Nat
        /\ Cardinality(stored) \in Nat
    BY Numbers
  <2>2. CASE c.ack
    <3>1. /\ IsFiniteSet(Succeeded')
          /\ Cardinality(Succeeded') = Cardinality(Succeeded) + 1
      BY <1>6, <2>2, FS_AddElement DEF PublisherInv, Vouched
    <3>2. /\ IsFiniteSet(Vouching')
          /\ Cardinality(Vouching') = Cardinality(Vouching) - 1
      BY <1>9, <2>2, FS_RemoveElement DEF PublisherInv, Vouched
    <3>. QED  BY <1>1, <2>1, <3>1, <3>2 DEF PublisherInv, Vouched
  <2>3. CASE ~c.ack
    BY <1>1, <1>6, <1>9, <2>3 DEF PublisherInv, Vouched
  <2>. QED  BY <2>2, <2>3
<1>11. /\ IsFiniteSet(Waiting')
       /\ Cardinality(Waiting') = Cardinality(Waiting) - 1
  <2>1. IsFiniteSet(Waiting) /\ p \in Waiting
    BY <1>1 DEF PublisherInv, Counted, Waiting
  <2>. QED  BY <1>6, <2>1, FS_RemoveElement
<1>12. Counted'
  <2>1. /\ Cardinality(Waiting) \in Nat /\ Cardinality(abandoned) \in Nat
        /\ Len(wire) \in Nat /\ Len(acks) \in Nat
    BY Numbers
  <2>2. BacklogIsAbandoned
    BY DEF PublisherInv, Counted
  <2>3. BacklogIsAbandoned'
    BY <1>1, <1>3, <1>11, <2>1, <2>2 DEF BacklogIsAbandoned
  <2>. QED  BY <1>1, <1>11, <2>3 DEF PublisherInv, Counted
<1>. QED  BY <1>6, <1>7, <1>8, <1>10, <1>12 DEF PublisherInv

LEMMA TakeClosedStep ==
  ASSUME PublisherInv, NEW p \in Publishers, TakeClosed(p)
  PROVE  PublisherInv'
<1>1. /\ pc[p] = "await" /\ link # "open"
      /\ UNCHANGED <<wire, acks, confirms, stored, refused, abandoned, closed,
                     closing, link, job>>
      /\ Return(p, "error")
  BY DEF TakeClosed, Return, broker
<1>2. \A e \in Events \ {job[p]} : Fresh(e) => Fresh(e)'
  BY <1>1 DEF Fresh
<1>3. /\ pc' \in [Publishers -> {"idle", "send", "await"}]
      /\ outcome' \in [Events -> Outcomes]
      /\ Owners' /\ Unsent'
      /\ Waiting' = Waiting \ {p} /\ Succeeded' = Succeeded
  BY <1>1, <1>2, Returning DEF Outcomes
<1>4. TypeOK' /\ Decided'
  BY <1>1, <1>3 DEF PublisherInv, TypeOK, Decided, Confirmed
<1>5. Vouching' = Vouching
  BY <1>1 DEF Vouching, Confirmed
<1>6. IsFiniteSet(Waiting')
  BY <1>3, FS_RemoveElement DEF PublisherInv, Counted
<1>7. Vouched' /\ Counted'
  BY <1>1, <1>3, <1>5, <1>6
     DEF PublisherInv, Vouched, Counted, BacklogIsAbandoned
<1>. QED  BY <1>3, <1>4, <1>7 DEF PublisherInv

LEMMA CancelStep ==
  ASSUME PublisherInv, NEW p \in Publishers, Cancel(p)
  PROVE  PublisherInv'
<1>1. /\ pc[p] = "await"
      /\ UNCHANGED <<wire, acks, confirms, stored, refused, closed, closing,
                     link, job>>
      /\ abandoned' = abandoned \union {job[p]}
      /\ Return(p, "cancelled")
  BY DEF Cancel, Return, broker
<1>2. \A e \in Events \ {job[p]} : Fresh(e) => Fresh(e)'
  BY <1>1 DEF Fresh
<1>3. job[p] \in Events /\ job[p] \notin abandoned /\ p \in Waiting
  BY <1>1 DEF PublisherInv, Owners, Unsent, Waiting
<1>4. /\ pc' \in [Publishers -> {"idle", "send", "await"}]
      /\ outcome' \in [Events -> Outcomes]
      /\ Owners' /\ Unsent'
      /\ Waiting' = Waiting \ {p} /\ Succeeded' = Succeeded
  BY <1>1, <1>2, Returning DEF Outcomes
<1>5. TypeOK' /\ Decided'
  BY <1>1, <1>3, <1>4 DEF PublisherInv, TypeOK, Decided, Confirmed
<1>6. Vouching' = Vouching
  BY <1>1 DEF Vouching, Confirmed
<1>7. Vouched'
  BY <1>1, <1>4, <1>6 DEF PublisherInv, Vouched
<1>8. /\ IsFiniteSet(Waiting') /\ IsFiniteSet(abandoned')
      /\ Cardinality(Waiting') = Cardinality(Waiting) - 1
      /\ Cardinality(abandoned') = Cardinality(abandoned) + 1
  BY <1>1, <1>3, <1>4, FS_RemoveElement, FS_AddElement DEF PublisherInv, Counted
<1>9. Counted'
  <2>1. /\ Cardinality(Waiting) \in Nat /\ Cardinality(abandoned) \in Nat
    BY Numbers
  <2>2. BacklogIsAbandoned'
    BY <1>1, <1>8, <2>1 DEF PublisherInv, Counted, BacklogIsAbandoned
  <2>. QED  BY <1>8, <2>2 DEF Counted
<1>. QED  BY <1>4, <1>5, <1>7, <1>9 DEF PublisherInv

-----------------------------------------------------------------------------
(* Close, the broker and the library                                       *)

LEMMA CloseSteps ==
  ASSUME PublisherInv, Close \/ Closed \/ UNCHANGED vars
  PROVE  PublisherInv'
<1>1. /\ UNCHANGED <<wire, acks, confirms, stored, refused, abandoned, pc, job,
                     outcome>>
      /\ closing' => closed'
      /\ closed => closed'
      /\ closed' \in BOOLEAN /\ closing' \in BOOLEAN
      /\ link' \in {"open", "closed", "lost"}
      /\ closed' \/ (link' = link /\ closed' = closed)
  <2>0. /\ closing => closed
        /\ closed \in BOOLEAN /\ closing \in BOOLEAN
        /\ link \in {"open", "closed", "lost"}
    BY DEF PublisherInv, Owners, TypeOK
  <2>1. CASE Close
    <3>1. /\ closed' = TRUE /\ closing' = TRUE
          /\ UNCHANGED <<wire, acks, confirms, stored, refused, abandoned, link,
                         pc, job, outcome>>
      BY <2>1 DEF Close, broker
    <3>. QED  BY <2>0, <3>1
  <2>2. CASE Closed
    <3>1. /\ closing /\ closing' = FALSE /\ closed' = closed
          /\ link' = IF link = "open" THEN "closed" ELSE link
          /\ UNCHANGED <<wire, acks, confirms, stored, refused, abandoned, pc,
                         job, outcome>>
      BY <2>2 DEF Closed, broker
    <3>. QED  BY <2>0, <3>1
  <2>3. CASE UNCHANGED vars
    BY <2>0, <2>3 DEF vars
  <2>. QED  BY <2>1, <2>2, <2>3
<1>2. \A e \in Events : Fresh(e) => Fresh(e)'
  BY <1>1 DEF Fresh
<1>3. /\ Owners' /\ Unsent'
      /\ Waiting' = Waiting /\ Succeeded' = Succeeded
  BY <1>1, <1>2, Unmoved
<1>4. TypeOK' /\ Decided'
  <2>1. {closed', closing'} \subseteq BOOLEAN
    BY <1>1
  <2>2. TypeOK'
    BY <1>1, <2>1 DEF PublisherInv, TypeOK
  <2>3. Decided'
    BY <1>1 DEF PublisherInv, Decided, Confirmed
  <2>. QED  BY <2>2, <2>3
<1>5. Vouching' = Vouching
  BY <1>1 DEF Vouching, Confirmed
<1>6. Vouched' /\ Counted'
  BY <1>1, <1>3, <1>5 DEF PublisherInv, Vouched, Counted, BacklogIsAbandoned
<1>. QED  BY <1>3, <1>4, <1>6 DEF PublisherInv

LEMMA AcceptStep ==
  ASSUME PublisherInv, NEW ack \in BOOLEAN, Accept(ack)
  PROVE  PublisherInv'
<1> DEFINE e == Head(wire)
           c == [event |-> e, ack |-> ack]
<1>1. /\ wire # <<>> /\ wire' = Tail(wire)
      /\ stored' = IF ack THEN stored \union {e} ELSE stored
      /\ refused' = IF ack THEN refused ELSE refused \union {e}
      /\ acks' = Append(acks, c) \/ (closing /\ acks' = acks)
      /\ UNCHANGED <<confirms, abandoned, closed, closing, link, pc, job, outcome>>
  <2>1. stored' = IF ack THEN stored \union {e} ELSE stored
    BY DEF Accept
  <2>2. refused' = IF ack THEN refused ELSE refused \union {e}
    BY DEF Accept
  <2>. QED  BY <2>1, <2>2 DEF Accept
<1>2. wire \in Seq(Events) /\ acks \in Seq(Confirmation)
  BY DEF PublisherInv, TypeOK, Confirmation
<1>3. /\ e \in Events /\ wire' \in Seq(Events)
      /\ Distinct(wire') /\ e \notin Items(wire')
      /\ Items(wire) = Items(wire') \union {e}
      /\ Len(wire) \in Nat /\ Len(wire') = Len(wire) - 1
  BY <1>1, <1>2, Taking DEF PublisherInv, Decided
<1> HIDE DEF e
<1>4. /\ c \in Confirmation /\ c.event = e /\ c.ack = ack
      /\ e \notin stored \union refused /\ c \notin Confirmed
  <2>1. e \notin stored \union refused
    BY <1>3 DEF PublisherInv, Decided
  <2>2. c.event = e /\ c.ack = ack /\ c \in Confirmation
    BY <1>3 DEF Confirmation
  <2>3. c \notin Confirmed
    BY <2>1, <2>2 DEF PublisherInv, Decided
  <2>. QED  BY <2>1, <2>2, <2>3
<1> HIDE DEF c
<1>5. /\ acks' \in Seq(Confirmation) /\ Distinct(acks')
      /\ \/ Items(acks') = Items(acks) \union {c} /\ Len(acks') = Len(acks) + 1
         \/ Items(acks') = Items(acks) /\ closing
  <2>1. CASE acks' = Append(acks, c)
    BY <1>2, <1>4, <2>1, Appending DEF PublisherInv, Decided, Confirmed
  <2>2. CASE closing /\ acks' = acks
    BY <1>2, <2>2 DEF PublisherInv, Decided
  <2>. QED  BY <1>1, <2>1, <2>2
<1>6. \A d \in Events : Fresh(d) => Fresh(d)'
  BY <1>1, <1>3 DEF Fresh
<1>7. /\ Owners' /\ Unsent'
      /\ Waiting' = Waiting /\ Succeeded' = Succeeded
  <2>1. closing' => closed'
    BY <1>1 DEF PublisherInv, Owners
  <2>. QED  BY <1>1, <1>6, <2>1, Unmoved
<1>8. TypeOK'
  BY <1>1, <1>3, <1>5 DEF PublisherInv, TypeOK, Confirmation
<1>9. /\ Confirmed' \subseteq Confirmed \union {c}
      /\ Confirmed \subseteq Confirmed'
      /\ Items(acks') \intersect Items(confirms') = {}
  BY <1>1, <1>4, <1>5 DEF PublisherInv, Decided, Confirmed
<1>10. Decided'
  <2>1. /\ Items(wire') \intersect (stored' \union refused') = {}
        /\ stored' \intersect refused' = {}
    BY <1>1, <1>3, <1>4 DEF PublisherInv, Decided
  <2>2. \A d \in Confirmed' : d.event \in IF d.ack THEN stored' ELSE refused'
    BY <1>1, <1>4, <1>9 DEF PublisherInv, Decided
  <2>3. Distinct(confirms')
    BY <1>1 DEF PublisherInv, Decided
  <2>. QED  BY <1>3, <1>5, <1>9, <2>1, <2>2, <2>3 DEF Decided
<1>11. Vouched'
  <2>1. /\ Cardinality(Succeeded) \in Nat /\ Cardinality(Vouching) \in Nat
        /\ Cardinality(stored) \in Nat
    BY Numbers
  <2>2. CASE ack
    <3>1. Vouching' = Vouching \/ Vouching' = Vouching \union {c}
      BY <1>4, <1>9 DEF Vouching
    <3>2. /\ IsFiniteSet(Vouching')
          /\ \/ Cardinality(Vouching') = Cardinality(Vouching)
             \/ Cardinality(Vouching') = Cardinality(Vouching) + 1
      BY <3>1, FS_AddElement DEF PublisherInv, Vouched
    <3>3. /\ IsFiniteSet(stored')
          /\ Cardinality(stored') = Cardinality(stored) + 1
      BY <1>1, <1>4, <2>2, FS_AddElement DEF PublisherInv, Vouched
    <3>. QED  BY <1>7, <2>1, <3>2, <3>3 DEF PublisherInv, Vouched
  <2>3. CASE ~ack
    <3>1. Vouching' = Vouching
      BY <1>4, <1>9, <2>3 DEF Vouching
    <3>. QED  BY <1>1, <1>7, <2>3, <3>1 DEF PublisherInv, Vouched
  <2>. QED  BY <2>2, <2>3
<1>12. Counted'
  <2>1. /\ Cardinality(Waiting) \in Nat /\ Cardinality(abandoned) \in Nat
        /\ Len(acks) \in Nat /\ Len(confirms) \in Nat
    BY Numbers
  <2>2. closing => closed'
    BY <1>1 DEF PublisherInv, Owners
  <2>3. ~closed' => Len(acks') = Len(acks) + 1 /\ ~closed
    BY <1>1, <1>5, <2>2
  <2>4. BacklogIsAbandoned
    BY DEF PublisherInv, Counted
  <2>5. BacklogIsAbandoned'
    BY <1>1, <1>3, <1>7, <2>1, <2>3, <2>4 DEF BacklogIsAbandoned
  <2>. QED  BY <1>1, <1>7, <2>5 DEF PublisherInv, Counted
<1>. QED  BY <1>7, <1>8, <1>10, <1>11, <1>12 DEF PublisherInv

LEMMA NotifyStep ==
  ASSUME PublisherInv, Notify
  PROVE  PublisherInv'
<1> DEFINE c == Head(acks)
<1>1. /\ acks # <<>> /\ acks' = Tail(acks) /\ confirms' = Append(confirms, c)
      /\ Len(confirms) < Capacity
      /\ UNCHANGED <<wire, stored, refused, abandoned, closed, closing, link,
                     pc, job, outcome>>
  BY DEF Notify, HasRoom
<1>2. acks \in Seq(Confirmation) /\ confirms \in Seq(Confirmation)
  BY DEF PublisherInv, TypeOK, Confirmation
<1>3. /\ c \in Confirmation /\ acks' \in Seq(Confirmation)
      /\ Distinct(acks') /\ c \notin Items(acks')
      /\ Items(acks) = Items(acks') \union {c}
      /\ Len(acks) \in Nat /\ Len(acks') = Len(acks) - 1
  BY <1>1, <1>2, Taking DEF PublisherInv, Decided
<1> HIDE DEF c
<1>4. /\ confirms' \in Seq(Confirmation) /\ Distinct(confirms')
      /\ Items(confirms') = Items(confirms) \union {c}
      /\ Len(confirms') = Len(confirms) + 1
  BY <1>1, <1>2, <1>3, Appending DEF PublisherInv, Decided
<1>5. /\ Owners' /\ Unsent'
      /\ Waiting' = Waiting /\ Succeeded' = Succeeded
  <2>1. \A e \in Events : Fresh(e) => Fresh(e)'
    BY <1>1 DEF Fresh
  <2>2. closing' => closed'
    BY <1>1 DEF PublisherInv, Owners
  <2>. QED  BY <1>1, <2>1, <2>2, Unmoved
<1>6. TypeOK'
  <2>1. Len(confirms) \in Nat
    BY Numbers
  <2>2. Len(confirms') <= Capacity
    BY <1>1, <1>4, <2>1, CapacityAssumption
  <2>. QED  BY <1>1, <1>3, <1>4, <2>2 DEF PublisherInv, TypeOK, Confirmation
<1>7. Confirmed' = Confirmed /\ Items(acks') \intersect Items(confirms') = {}
  BY <1>3, <1>4 DEF PublisherInv, Decided, Confirmed
<1>8. Decided'
  BY <1>1, <1>3, <1>4, <1>7 DEF PublisherInv, Decided
<1>9. Vouched'
  BY <1>1, <1>5, <1>7 DEF PublisherInv, Vouched, Vouching
<1>10. Counted'
  <2>1. Len(wire) \in Nat /\ Len(confirms) \in Nat
    BY Numbers
  <2>2. BacklogIsAbandoned'
    BY <1>1, <1>3, <1>4, <1>5, <2>1
       DEF PublisherInv, Counted, BacklogIsAbandoned
  <2>. QED  BY <1>1, <1>5, <2>2 DEF PublisherInv, Counted
<1>. QED  BY <1>5, <1>6, <1>8, <1>9, <1>10 DEF PublisherInv

LEMMA LoseStep ==
  ASSUME PublisherInv, Lose
  PROVE  PublisherInv'
<1>1. /\ wire' = <<>> /\ acks' = <<>> /\ link' = "lost"
      /\ UNCHANGED <<confirms, stored, refused, abandoned, closed, closing, pc,
                     job, outcome>>
  BY DEF Lose
<1>2. /\ Items(wire') = {} /\ Items(acks') = {}
      /\ Distinct(wire') /\ Distinct(acks')
  BY <1>1, NoItems
<1>3. /\ Owners' /\ Unsent'
      /\ Waiting' = Waiting /\ Succeeded' = Succeeded
  <2>1. \A e \in Events : Fresh(e) => Fresh(e)'
    BY <1>1, <1>2 DEF Fresh
  <2>2. closing' => closed'
    BY <1>1 DEF PublisherInv, Owners
  <2>. QED  BY <1>1, <2>1, <2>2, Unmoved
<1>4. TypeOK'
  BY <1>1 DEF PublisherInv, TypeOK
<1>5. Confirmed' \subseteq Confirmed
  BY <1>1, <1>2 DEF Confirmed
<1>6. Decided'
  BY <1>1, <1>2, <1>5 DEF PublisherInv, Decided
<1>7. Vouched'
  <2>1. Vouching' \in SUBSET Vouching
    BY <1>5 DEF Vouching
  <2>2. /\ IsFiniteSet(Vouching')
        /\ Cardinality(Vouching') <= Cardinality(Vouching)
    BY <2>1, FS_Subset DEF PublisherInv, Vouched
  <2>3. /\ Cardinality(Vouching') \in Nat /\ Cardinality(Vouching) \in Nat
        /\ Cardinality(Succeeded) \in Nat /\ Cardinality(stored) \in Nat
    BY <2>2, FS_CardinalityType, Numbers
  <2>. QED  BY <1>1, <1>3, <2>2, <2>3 DEF PublisherInv, Vouched
<1>8. Counted'
  BY <1>1, <1>3 DEF PublisherInv, Counted, BacklogIsAbandoned
<1>. QED  BY <1>3, <1>4, <1>6, <1>7, <1>8 DEF PublisherInv

-----------------------------------------------------------------------------
(* Theorems                                                                *)

\* The invariant holds of every behaviour.
THEOREM PublisherInvariant == Spec => []PublisherInv
<1>1. ASSUME PublisherInv, [Next]_vars
      PROVE  PublisherInv'
  <2>1. ASSUME NEW p \in Publishers,
               \/ \E e \in Events : Begin(p, e)
               \/ Publish(p)
               \/ Cancel(p)
        PROVE  PublisherInv'
    BY <1>1, <2>1, BeginStep, SendStep, SendFailsStep, TakeConfirmStep,
       TakeClosedStep, CancelStep DEF Publish
  <2>2. ASSUME NEW ack \in BOOLEAN, Accept(ack)
        PROVE  PublisherInv'
    BY <1>1, <2>2, AcceptStep
  <2>3. CASE Close \/ Closed \/ UNCHANGED vars
    BY <1>1, <2>3, CloseSteps
  <2>4. CASE Notify
    BY <1>1, <2>4, NotifyStep
  <2>5. CASE Lose
    BY <1>1, <2>5, LoseStep
  <2>. QED  BY <1>1, <2>1, <2>2, <2>3, <2>4, <2>5 DEF Next
<1>. QED  BY <1>1, InitPublisherInv, PTL DEF Spec

\* Every variable keeps to its type; the confirmation channel never holds
\* more than it has room for.
THEOREM PublisherTypeCorrect == Spec => []TypeOK
<1>1. PublisherInv => TypeOK
  BY DEF PublisherInv
<1>. QED  BY <1>1, PublisherInvariant, PTL

\* However callers take each other's confirmations, and however many give up,
\* no more publications succeed than the broker has accepted.
THEOREM ConfirmationsVouchOnce == Spec => []SuccessesAreStored
<1>1. PublisherInv => SuccessesAreStored
  <2>. SUFFICES ASSUME PublisherInv
                PROVE  Cardinality(Succeeded) <= Cardinality(stored)
    BY DEF SuccessesAreStored, Succeeded
  <2>1. /\ Cardinality(Succeeded) \in Nat /\ Cardinality(Vouching) \in Nat
        /\ Cardinality(stored) \in Nat
    BY Numbers
  <2>. QED  BY <2>1 DEF PublisherInv, Vouched
<1>. QED  BY <1>1, PublisherInvariant, PTL

\* As long as the channel is open, the confirmations under way are those of
\* the callers that wait and of the callers that gave up: each of these shifts
\* all later callers by one, and nothing ever makes up for it.
THEOREM BacklogNeverShrinks == Spec => []BacklogIsAbandoned
<1>1. PublisherInv => BacklogIsAbandoned
  BY DEF PublisherInv, Counted
<1>. QED  BY <1>1, PublisherInvariant, PTL
=============================================================================
