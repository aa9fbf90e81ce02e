---------------------------- MODULE DomainProofs ----------------------------
(***************************************************************************)
(* Theorems on the life cycle of an account, on the transactions of the    *)
(* domain package and on money amounts.                                    *)
(***************************************************************************)
EXTENDS AccountLifeCycle, WalletDomain, Money, TLAPS

\* No two rows of the accounts table share an id or a player.
UniqueRows ==
  \A r, s \in accounts : r.id = s.id \/ r.player = s.player => r = s

\* A call on its way has a player; one past its lookup or insert, an account.
CallsHaveRows ==
  \A c \in Callers :
    /\ call[c].pc # "idle" => call[c].player \in Players
    /\ call[c].pc \in {"publish", "answered"} =>
         \E r \in accounts : r.player = call[c].player /\ r.id = call[c].id

\* An account that was there when a call began is there still, and the call
\* does not go on to its insert but for a failure.
KnownIsFound ==
  \A c \in Callers :
    /\ call[c].known => \E r \in accounts : r.player = call[c].player
    /\ At(c, "insert") /\ ~call[c].harmed => ~call[c].known
    /\ At(c, "refused") /\ ~call[c].harmed =>
         /\ ~call[c].known
         /\ \E r \in accounts : r.player = call[c].player

\* The one call that inserted a row is the one that announces it.
Announcements ==
  /\ \A c \in Callers : At(c, "publish") => announced[call[c].player] = 0
  /\ \A c, d \in Callers :
       At(c, "publish") /\ At(d, "publish") /\ call[c].player = call[d].player
         => c = d
  /\ \A p \in Players :
       /\ announced[p] \in {0, 1}
       /\ announced[p] = 1 => \E r \in accounts : r.player = p
       /\ (\E r \in accounts : r.player = p) /\ announced[p] = 0 =>
            \/ \E c \in Callers : At(c, "publish") /\ call[c].player = p
            \/ p \in harmed

\* What postgres.go:150 says of UpdateStatus, "updates account status", is not
\* so: no account is ever anything but active.
AlwaysActive == \A r \in accounts : r.status = "active"

Inv ==
  /\ TypeOK
  /\ UniqueRows
  /\ CallsHaveRows
  /\ KnownIsFound
  /\ Announcements
  /\ AlwaysActive

LEMMA InitInv == Init => Inv
BY DEF Init, Inv, TypeOK, UniqueRows, CallsHaveRows, KnownIsFound,
       Announcements, AlwaysActive, NoCall, Call, At

\* UpdateStatus never stores a row: the trigger lets none pass.
LEMMA StatusUpdate ==
  ASSUME TypeOK, NEW id \in Ids, NEW status \in AccountStatus,
         UpdateStatus(id, status)
  PROVE  /\ accounts' = accounts
         /\ UNCHANGED <<call, announced, harmed>>
         /\ unheeded' \subseteq Ids
<1> DEFINE hit == {row \in accounts : row.id = id}
<1>1. \A row \in hit : ~PassesTrigger(row, WithStatus(row, status))
  BY DEF TypeOK, Row, PassesTrigger, WithStatus
<1>2. accounts' = accounts
  BY <1>1 DEF UpdateStatus
<1>3. UNCHANGED <<call, announced, harmed>> /\ unheeded' \subseteq Ids
  BY DEF UpdateStatus, TypeOK
<1>. QED  BY <1>2, <1>3

\* The row that CreateAccount inserts.
LEMMA NewRowTyped ==
  ASSUME Inv, NEW c \in Callers, NEW id \in Ids, call[c].pc # "idle"
  PROVE  /\ call[c] \in Call
         /\ NewRow(id, call[c].player) \in Row
         /\ NewRow(id, call[c].player).id = id
         /\ NewRow(id, call[c].player).player = call[c].player
         /\ NewRow(id, call[c].player).status = "active"
BY DEF Inv, TypeOK, CallsHaveRows, NewRow, Row, AccountStatus

\* A call that a failure strikes is still a call, for the same player.
LEMMA StrikeTyped ==
  ASSUME TypeOK, CallsHaveRows, NEW c \in Callers,
         NEW pc \in {"insert", "answered", "refused"},
         call[c].pc # "idle", Strike(c, pc),
         UNCHANGED <<accounts, announced, unheeded>>
  PROVE  TypeOK'
<1>1. call[c] \in Call /\ call[c].player \in Players
  BY DEF TypeOK, CallsHaveRows
<1>2. [call[c] EXCEPT !.pc = pc, !.harmed = TRUE] \in Call
  BY <1>1 DEF Call
<1>. QED  BY <1>1, <1>2 DEF TypeOK, Strike, Row, AccountStatus

\* A step of a CreateAccount keeps the invariant.
LEMMA CallKeepsInv ==
  ASSUME Inv, NEW c \in Callers, CallStep(c)
  PROVE  Inv'
<1>. USE DEF Inv
<1>1. CASE \E p \in Players : Begin(c, p)
  <2>. PICK p \in Players : Begin(c, p)
    BY <1>1
  <2>1. TypeOK'
    BY DEF Begin, Of, TypeOK, Call, At, CallsHaveRows, Row, AccountStatus
  <2>2. UniqueRows'
    BY DEF Begin, Of, TypeOK, Call, At, UniqueRows
  <2>3. CallsHaveRows'
    BY DEF Begin, Of, TypeOK, Call, At, CallsHaveRows
  <2>4. KnownIsFound'
    BY DEF Begin, Of, TypeOK, Call, At, KnownIsFound, CallsHaveRows
  <2>5. Announcements'
    BY DEF Begin, Of, TypeOK, Call, At, Announcements, CallsHaveRows
  <2>6. AlwaysActive'
    BY DEF Begin, Of, TypeOK, Call, At, AlwaysActive
  <2>. QED  BY <2>1, <2>2, <2>3, <2>4, <2>5, <2>6
<1>2. CASE Find(c)
  <2>1. TypeOK'
    <3>1. PICK row \in accounts :
            call' = [call EXCEPT ![c] = [@ EXCEPT !.pc = "answered", !.id = row.id]]
      BY <1>2 DEF Find, Of
    <3>2. call[c] \in Call /\ row.id \in Ids
      BY DEF TypeOK, Row
    <3>3. call' \in [Callers -> Call]
      BY <3>1, <3>2 DEF TypeOK, Call
    <3>. QED  BY <1>2, <3>3 DEF Find, TypeOK
  <2>2. UniqueRows'
    BY <1>2 DEF Find, Of, TypeOK, Call, At, UniqueRows
  <2>3. CallsHaveRows'
    BY <1>2 DEF Find, Of, TypeOK, Call, At, CallsHaveRows
  <2>4. KnownIsFound'
    BY <1>2 DEF Find, Of, TypeOK, Call, At, KnownIsFound, CallsHaveRows
  <2>5. Announcements'
    BY <1>2 DEF Find, Of, TypeOK, Call, At, Announcements, CallsHaveRows
  <2>6. AlwaysActive'
    BY <1>2 DEF Find, Of, TypeOK, Call, At, AlwaysActive
  <2>. QED  BY <2>1, <2>2, <2>3, <2>4, <2>5, <2>6
<1>3. CASE Miss(c)
  <2>1. TypeOK'
    BY <1>3 DEF Miss, Of, Goto, TypeOK, Call, At, CallsHaveRows, Row, AccountStatus
  <2>2. UniqueRows'
    BY <1>3 DEF Miss, Of, Goto, TypeOK, Call, At, UniqueRows
  <2>3. CallsHaveRows'
    BY <1>3 DEF Miss, Of, Goto, TypeOK, Call, At, CallsHaveRows
  <2>4. KnownIsFound'
    BY <1>3 DEF Miss, Of, Goto, TypeOK, Call, At, KnownIsFound, CallsHaveRows
  <2>5. Announcements'
    BY <1>3 DEF Miss, Of, Goto, TypeOK, Call, At, Announcements, CallsHaveRows
  <2>6. AlwaysActive'
    BY <1>3 DEF Miss, Of, Goto, TypeOK, Call, At, AlwaysActive
  <2>. QED  BY <2>1, <2>2, <2>3, <2>4, <2>5, <2>6
<1>4. CASE LookupFails(c)
  <2>1. TypeOK'
    BY <1>4, StrikeTyped DEF LookupFails, At
  <2>2. UniqueRows'
    BY <1>4 DEF LookupFails, Strike, TypeOK, Call, At, UniqueRows
  <2>3. CallsHaveRows'
    BY <1>4 DEF LookupFails, Strike, TypeOK, Call, At, CallsHaveRows
  <2>4. KnownIsFound'
    BY <1>4 DEF LookupFails, Strike, TypeOK, Call, At, KnownIsFound, CallsHaveRows
  <2>5. Announcements'
    BY <1>4 DEF LookupFails, Strike, TypeOK, Call, At, Announcements, CallsHaveRows
  <2>6. AlwaysActive'
    BY <1>4 DEF LookupFails, Strike, TypeOK, Call, At, AlwaysActive
  <2>. QED  BY <2>1, <2>2, <2>3, <2>4, <2>5, <2>6
<1>5. CASE \E id \in Ids : Create(c, id)
  <2>. PICK id \in Ids : Create(c, id)
    BY <1>5
  <2>0. /\ call[c].pc # "idle" /\ call[c] \in Call
        /\ call[c].player \in Players
        /\ NewRow(id, call[c].player) \in Row
    BY NewRowTyped DEF Create, At, CallsHaveRows
  <2>1. TypeOK'
    <3>1. call' \in [Callers -> Call]
      BY <2>0 DEF Create, TypeOK, Call
    <3>. QED  BY <2>0, <3>1 DEF Create, Insert, TypeOK
  <2>2. UniqueRows'
    BY DEF Create, NewRow, Insertable, Insert, Row, TypeOK, Call, At, UniqueRows
  <2>3. CallsHaveRows'
    <3>1. NewRow(id, call[c].player) \in accounts'
      BY DEF Create, Insert
    <3>2. /\ NewRow(id, call[c].player).player = call[c].player
          /\ NewRow(id, call[c].player).id = id
      BY DEF NewRow
    <3>. QED  BY <2>0, <3>1, <3>2 DEF Create, Insert, TypeOK, Call, At, CallsHaveRows
  <2>4. KnownIsFound'
    BY DEF Create, NewRow, Insertable, Insert, Row, TypeOK, Call, At, KnownIsFound, CallsHaveRows
  <2>5. Announcements'
    BY DEF Create, NewRow, Insertable, Insert, Row, TypeOK, Call, At, Announcements, CallsHaveRows
  <2>6. AlwaysActive'
    BY DEF Create, NewRow, Insertable, Insert, Row, TypeOK, Call, At, AlwaysActive
  <2>. QED  BY <2>1, <2>2, <2>3, <2>4, <2>5, <2>6
<1>6. CASE Duplicate(c)
  <2>1. TypeOK'
    BY <1>6 DEF Duplicate, Of, Goto, TypeOK, Call, At, CallsHaveRows, Row, AccountStatus
  <2>2. UniqueRows'
    BY <1>6 DEF Duplicate, Of, Goto, TypeOK, Call, At, UniqueRows
  <2>3. CallsHaveRows'
    BY <1>6 DEF Duplicate, Of, Goto, TypeOK, Call, At, CallsHaveRows
  <2>4. KnownIsFound'
    BY <1>6 DEF Duplicate, Of, Goto, TypeOK, Call, At, KnownIsFound, CallsHaveRows
  <2>5. Announcements'
    BY <1>6 DEF Duplicate, Of, Goto, TypeOK, Call, At, Announcements, CallsHaveRows
  <2>6. AlwaysActive'
    BY <1>6 DEF Duplicate, Of, Goto, TypeOK, Call, At, AlwaysActive
  <2>. QED  BY <2>1, <2>2, <2>3, <2>4, <2>5, <2>6
<1>7. CASE CreateFails(c)
  <2>1. TypeOK'
    BY <1>7, StrikeTyped DEF CreateFails, At
  <2>2. UniqueRows'
    BY <1>7 DEF CreateFails, Strike, TypeOK, Call, At, UniqueRows
  <2>3. CallsHaveRows'
    BY <1>7 DEF CreateFails, Strike, TypeOK, Call, At, CallsHaveRows
  <2>4. KnownIsFound'
    BY <1>7 DEF CreateFails, Strike, TypeOK, Call, At, KnownIsFound, CallsHaveRows
  <2>5. Announcements'
    BY <1>7 DEF CreateFails, Strike, TypeOK, Call, At, Announcements, CallsHaveRows
  <2>6. AlwaysActive'
    BY <1>7 DEF CreateFails, Strike, TypeOK, Call, At, AlwaysActive
  <2>. QED  BY <2>1, <2>2, <2>3, <2>4, <2>5, <2>6
<1>8. CASE \E id \in Ids : CreateReplyLost(c, id)
  <2>. PICK id \in Ids : CreateReplyLost(c, id)
    BY <1>8
  <2>0. /\ call[c].pc # "idle" /\ call[c] \in Call
        /\ call[c].player \in Players
        /\ NewRow(id, call[c].player) \in Row
    BY NewRowTyped DEF CreateReplyLost, At, CallsHaveRows
  <2>1. TypeOK'
    <3>1. call' \in [Callers -> Call]
      BY <2>0 DEF CreateReplyLost, Strike, TypeOK, Call
    <3>. QED  BY <2>0, <3>1 DEF CreateReplyLost, Insert, Strike, TypeOK
  <2>2. UniqueRows'
    BY DEF CreateReplyLost, NewRow, Insertable, Insert, Strike, Row, TypeOK, Call, At, UniqueRows
  <2>3. CallsHaveRows'
    <3>1. NewRow(id, call[c].player) \in accounts'
      BY DEF CreateReplyLost, Insert
    <3>2. /\ NewRow(id, call[c].player).player = call[c].player
          /\ NewRow(id, call[c].player).id = id
      BY DEF NewRow
    <3>. QED  BY <2>0, <3>1, <3>2 DEF CreateReplyLost, Insert, Strike, TypeOK, Call, At, CallsHaveRows
  <2>4. KnownIsFound'
    BY DEF CreateReplyLost, NewRow, Insertable, Insert, Strike, Row, TypeOK, Call, At, KnownIsFound, CallsHaveRows
  <2>5. Announcements'
    BY DEF CreateReplyLost, NewRow, Insertable, Insert, Strike, Row, TypeOK, Call, At, Announcements, CallsHaveRows
  <2>6. AlwaysActive'
    BY DEF CreateReplyLost, NewRow, Insertable, Insert, Strike, Row, TypeOK, Call, At, AlwaysActive
  <2>. QED  BY <2>1, <2>2, <2>3, <2>4, <2>5, <2>6
<1>9. CASE Publish(c)
  <2>1. TypeOK'
    BY <1>9 DEF Publish, Goto, TypeOK, Call, At, CallsHaveRows, Row, AccountStatus
  <2>2. UniqueRows'
    BY <1>9 DEF Publish, Goto, TypeOK, Call, At, UniqueRows
  <2>3. CallsHaveRows'
    BY <1>9 DEF Publish, Goto, TypeOK, Call, At, CallsHaveRows
  <2>4. KnownIsFound'
    BY <1>9 DEF Publish, Goto, TypeOK, Call, At, KnownIsFound, CallsHaveRows
  <2>5. Announcements'
    BY <1>9 DEF Publish, Goto, TypeOK, Call, At, Announcements, CallsHaveRows
  <2>6. AlwaysActive'
    BY <1>9 DEF Publish, Goto, TypeOK, Call, At, AlwaysActive
  <2>. QED  BY <2>1, <2>2, <2>3, <2>4, <2>5, <2>6
<1>10. CASE PublishFails(c)
  <2>1. TypeOK'
    BY <1>10, StrikeTyped DEF PublishFails, At
  <2>2. UniqueRows'
    BY <1>10 DEF PublishFails, Strike, TypeOK, Call, At, UniqueRows
  <2>3. CallsHaveRows'
    BY <1>10 DEF PublishFails, Strike, TypeOK, Call, At, CallsHaveRows
  <2>4. KnownIsFound'
    BY <1>10 DEF PublishFails, Strike, TypeOK, Call, At, KnownIsFound, CallsHaveRows
  <2>5. Announcements'
    BY <1>10 DEF PublishFails, Strike, TypeOK, Call, At, Announcements, CallsHaveRows
  <2>6. AlwaysActive'
    BY <1>10 DEF PublishFails, Strike, TypeOK, Call, At, AlwaysActive
  <2>. QED  BY <2>1, <2>2, <2>3, <2>4, <2>5, <2>6
<1>11. CASE Crash(c)
  <2>1. TypeOK'
    BY <1>11 DEF Crash, NoCall, TypeOK, Call, At, CallsHaveRows, Row, AccountStatus
  <2>2. UniqueRows'
    BY <1>11 DEF Crash, NoCall, TypeOK, Call, At, UniqueRows
  <2>3. CallsHaveRows'
    BY <1>11 DEF Crash, NoCall, TypeOK, Call, At, CallsHaveRows
  <2>4. KnownIsFound'
    BY <1>11 DEF Crash, NoCall, TypeOK, Call, At, KnownIsFound, CallsHaveRows
  <2>5. Announcements'
    BY <1>11 DEF Crash, NoCall, TypeOK, Call, At, Announcements, CallsHaveRows
  <2>6. AlwaysActive'
    BY <1>11 DEF Crash, NoCall, TypeOK, Call, At, AlwaysActive
  <2>. QED  BY <2>1, <2>2, <2>3, <2>4, <2>5, <2>6
<1>. QED
  BY <1>1, <1>2, <1>3, <1>4, <1>5, <1>6, <1>7, <1>8, <1>9, <1>10, <1>11 DEF CallStep

\* A balance update replaces a row by one that differs in its version.
LEMMA UpdateKeepsInv ==
  ASSUME Inv, UpdateStep
  PROVE  Inv'
<1>. USE DEF Inv
<1>1. ASSUME NEW row \in accounts, UpdateBalance(row)
      PROVE  Inv'
  <2> DEFINE new == [row EXCEPT !.version = @ + 1]
  <2>1. /\ accounts' = (accounts \ {row}) \union {new}
        /\ UNCHANGED <<call, announced, unheeded, harmed>>
    BY <1>1 DEF UpdateBalance
  <2>2. /\ row \in Row /\ new \in Row
        /\ new.id = row.id /\ new.player = row.player
        /\ new.status = row.status
    BY DEF TypeOK, Row
  <2> HIDE DEF new
  <2>3. \A p \in Players : \A id :
          (\E r \in accounts : r.player = p /\ r.id = id) <=>
          (\E r \in accounts' : r.player = p /\ r.id = id)
    BY <2>1, <2>2
  <2>4. \A p : (\E r \in accounts : r.player = p) <=>
               (\E r \in accounts' : r.player = p)
    BY <2>1, <2>2
  <2>5. TypeOK'
    BY <2>1, <2>2 DEF TypeOK
  <2>6. UniqueRows'
    BY <2>1, <2>2 DEF UniqueRows
  <2>7. CallsHaveRows'
    BY <2>1, <2>3 DEF CallsHaveRows
  <2>8. KnownIsFound'
    BY <2>1, <2>4 DEF KnownIsFound, At
  <2>9. Announcements'
    BY <2>1, <2>4 DEF Announcements, At
  <2>10. AlwaysActive'
    BY <2>1, <2>2 DEF AlwaysActive
  <2>. QED  BY <2>5, <2>6, <2>7, <2>8, <2>9, <2>10
<1>2. ASSUME NEW id \in Ids, NEW status \in AccountStatus,
             UpdateStatus(id, status)
      PROVE  Inv'
  <2>1. /\ accounts' = accounts
        /\ UNCHANGED <<call, announced, harmed>>
        /\ unheeded' \subseteq Ids
    BY <1>2, StatusUpdate
  <2>2. TypeOK' /\ AlwaysActive'
    BY <2>1 DEF TypeOK, AlwaysActive
  <2>3. UniqueRows' /\ CallsHaveRows' /\ KnownIsFound' /\ Announcements'
    BY <2>1 DEF UniqueRows, CallsHaveRows, KnownIsFound, Announcements, At
  <2>. QED  BY <2>2, <2>3
<1>. QED  BY <1>1, <1>2 DEF UpdateStep

\* The invariant behind the properties of accounts, for any players, callers,
\* ids and failures.
THEOREM AccountInvariant == Spec => []Inv
<1>1. ASSUME Inv, [Next]_vars
      PROVE  Inv'
  <2>1. CASE \E c \in Callers : CallStep(c)
    BY <1>1, <2>1, CallKeepsInv
  <2>2. CASE UpdateStep
    BY <1>1, <2>2, UpdateKeepsInv
  <2>3. CASE UNCHANGED vars
    BY <1>1, <2>3 DEF vars, Inv, TypeOK, UniqueRows, CallsHaveRows,
                      KnownIsFound, Announcements, AlwaysActive, At
  <2>. QED  BY <1>1, <2>1, <2>2, <2>3 DEF Next
<1>. QED  BY <1>1, InitInv, PTL DEF Spec

\* Every variable keeps to its type.
THEOREM AccountTypeCorrect == Spec => []TypeOK
<1>1. Inv => TypeOK
  BY DEF Inv
<1>. QED  BY <1>1, AccountInvariant, PTL

\* Whatever races and fails, CreateAccount answers with the player's one
\* account.
THEOREM CreateIsIdempotent == Spec => []AnswersAgree
<1>1. Inv => AnswersAgree
  <2>1. ASSUME Inv, NEW c \in Callers, At(c, "answered")
        PROVE  {row.id : row \in Of(call[c].player)} = {call[c].id}
    <3>1. PICK r \in accounts : r.player = call[c].player /\ r.id = call[c].id
      BY <2>1 DEF Inv, CallsHaveRows, At
    <3>2. Of(call[c].player) = {r}
      BY <2>1, <3>1 DEF Inv, UniqueRows, Of
    <3>. QED  BY <3>1, <3>2
  <2>. QED  BY <2>1 DEF AnswersAgree
<1>. QED  BY <1>1, AccountInvariant, PTL

\* Without a failure CreateAccount refuses only who was overtaken.
THEOREM RefusalsAreRaces == Spec => []RefusalsNeedRace
<1>1. Inv => RefusalsNeedRace
  BY DEF Inv, KnownIsFound, RefusalsNeedRace, Of
<1>. QED  BY <1>1, AccountInvariant, PTL

\* No account is announced twice, and one that is not has met a failure.
THEOREM AccountsAnnouncedOnce == Spec => []AnnouncedOnce
<1>1. ASSUME Inv, NEW p \in Players
      PROVE  LET publishing ==
                   {c \in Callers : At(c, "publish") /\ call[c].player = p}
             IN /\ announced[p] <= 1
                /\ announced[p] = 1 => Of(p) # {} /\ publishing = {}
                /\ Of(p) # {} /\ announced[p] = 0 =>
                     publishing # {} \/ p \in harmed
  <2> DEFINE publishing ==
               {c \in Callers : At(c, "publish") /\ call[c].player = p}
  <2>1. announced[p] \in {0, 1}
    BY <1>1 DEF Inv, Announcements
  <2>2. Of(p) # {} <=> \E r \in accounts : r.player = p
    BY DEF Of
  <2>3. announced[p] = 1 => Of(p) # {}
    BY <1>1, <2>2 DEF Inv, Announcements
  <2>4. announced[p] = 1 => publishing = {}
    <3>1. \A c \in publishing : announced[p] = 0
      BY <1>1 DEF Inv, Announcements
    <3>. QED  BY <3>1
  <2>5. Of(p) # {} /\ announced[p] = 0 => publishing # {} \/ p \in harmed
    BY <1>1, <2>2 DEF Inv, Announcements
  <2>6. announced[p] <= 1
    BY <2>1
  <2>. QED  BY <2>3, <2>4, <2>5, <2>6
<1>2. Inv => AnnouncedOnce
  BY <1>1 DEF AnnouncedOnce
<1>. QED  BY <1>2, AccountInvariant, PTL

\* No sequence of calls ever suspends or closes an account: the version trigger
\* refuses every UpdateStatus that finds its row, against the comment on it.
THEOREM AccountsStayActive == Spec => []AlwaysActive
<1>1. Inv => AlwaysActive
  BY DEF Inv
<1>. QED  BY <1>1, AccountInvariant, PTL

-----------------------------------------------------------------------------
(* Amounts and transactions                                                *)

\* FromCents and Cents are inverse on whole cents, of either sign.
THEOREM CentsRoundTrip ==
  ASSUME NEW cents \in Int, NEW cur \in Currencies
  PROVE  Cents(FromCents(cents, cur)) = cents
BY DEF Cents, FromCents, Money

\* What Sub answers with an amount never is negative, and Add undoes it.
THEOREM SubThenAdd ==
  ASSUME NEW a \in Amount, NEW b \in Amount, Sub(a, b) \notin Errors
  PROVE  /\ ~IsNegative(Sub(a, b).value)
         /\ Add(Sub(a, b), b) = a
<1>1. /\ a.value \in Int /\ b.value \in Int
      /\ a = [value |-> a.value, currency |-> a.currency]
  BY DEF Amount
<1>2. a.currency = b.currency /\ ~IsNegative(a.value - b.value)
  BY DEF Sub, Errors
<1>3. Sub(a, b) = [value |-> a.value - b.value, currency |-> a.currency]
  BY <1>2 DEF Sub, Money
<1>4. Add(Sub(a, b), b) =
        [value |-> (a.value - b.value) + b.value, currency |-> a.currency]
  BY <1>2, <1>3 DEF Add, Money
<1>5. (a.value - b.value) + b.value = a.value
  BY <1>1
<1>. QED  BY <1>1, <1>2, <1>3, <1>4, <1>5

\* A percentage and its complement, each cut to whole cents as a payment in
\* cents is, lose at most one cent of the amount between them.
THEOREM PercentSplit ==
  ASSUME NEW cents \in Nat, NEW p \in 0 .. 100, NEW cur \in Currencies
  PROVE  LET a == FromCents(cents, cur)
         IN Cents(Percent(a, p)) + Cents(Percent(a, 100 - p))
              \in {cents - 1, cents}
<1> DEFINE x == cents * p  y == cents * (100 - p)
<1>1. x \in Nat /\ y \in Nat /\ x + y = 100 * cents
  OBVIOUS
<1>2. (100 * cents) \div 100 = cents
  OBVIOUS
<1>3. /\ Cents(Percent(FromCents(cents, cur), p)) = x \div 100
      /\ Cents(Percent(FromCents(cents, cur), 100 - p)) = y \div 100
  BY <1>1, <1>2 DEF Cents, Percent, FromCents, Money
<1> HIDE DEF x, y
<1>4. (x \div 100) + (y \div 100) \in {cents - 1, cents}
  BY <1>1
<1>. QED  BY <1>3, <1>4

\* NewTransaction moves the balance up for the credits and for a bonus grant,
\* down for the debits and for a bonus wager - the two types that IsCredit and
\* IsDebit leave out.
THEOREM BalanceDirection ==
  ASSUME NEW type \in TransactionType, NEW amount \in Nat \ {0},
         NEW before \in Int
  PROVE  LET t == NewTransaction(type, amount, before)
         IN /\ t.after > t.before <=> IsCredit(t) \/ type = "bonus_grant"
            /\ t.after < t.before <=> IsDebit(t) \/ type = "bonus_wager"
BY DEF NewTransaction, BalanceAfter, IsCredit, IsDebit, TransactionType,
       Crediting, Debiting

\* Neither Complete nor Fail guards against the other: a transaction that was
\* completed can be failed and keeps its completion time.
THEOREM FailAfterComplete ==
  ASSUME NEW t \in Transaction
  PROVE  Fail(Complete(t)).status = "failed" /\ Fail(Complete(t)).completed
BY DEF Transaction, Complete, Fail
=============================================================================
