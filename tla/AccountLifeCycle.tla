-------------------------- MODULE AccountLifeCycle --------------------------
(***************************************************************************)
(* How accounts come into being and change: CreateAccount of               *)
(* services/wallet/internal/service/wallet_service.go, called by several   *)
(* clients for the same player, and the UPDATE statements of               *)
(* services/wallet/internal/repository/postgres.go against the UNIQUE      *)
(* player_id and the version trigger of deploy/init-db.sql.                *)
(*                                                                         *)
(* CreateAccount is a lookup, an insert and an event, each a step of its   *)
(* own.  What the accounts' money does is Wallet's subject: here a balance *)
(* update only moves the version.                                          *)
(***************************************************************************)
EXTENDS Naturals

CONSTANTS
  Players,
  Callers,      \* the goroutines serving CreateAccount
  Ids,          \* what uuid.New draws from
  MaxVersion,   \* bounds the balance updates of an account
  Faults,       \* "error", "lostReply", "unpublished" and "crash", see Wallet
  Null

ASSUME NullAssumption == Null \notin Players \union Ids

AccountStatus == {"active", "suspended", "closed"}

VARIABLES
  accounts,    \* the rows of the accounts table
  call,        \* per caller: the CreateAccount it serves, or last served
  announced,   \* per player: how often "account.created" was published
  unheeded,    \* history: the accounts without the status that was last
               \* asked for them
  harmed       \* the players one of whose calls met a failure

vars == <<accounts, call, announced, unheeded, harmed>>

Row == [id : Ids, player : Players, status : AccountStatus, version : Nat]

\* known: whether the account existed when the call began; harmed: whether a
\* failure struck the call itself.
Call ==
  [pc : {"idle", "lookup", "insert", "publish", "answered", "refused"},
   player : Players \union {Null}, id : Ids \union {Null},
   known : BOOLEAN, harmed : BOOLEAN]

NoCall ==
  [pc |-> "idle", player |-> Null, id |-> Null, known |-> FALSE,
   harmed |-> FALSE]

RowIds == {row.id : row \in accounts}

Of(p) == {row \in accounts : row.player = p}

Init ==
  /\ accounts = {}
  /\ call = [c \in Callers |-> NoCall]
  /\ announced = [p \in Players |-> 0]
  /\ unheeded = {}
  /\ harmed = {}

At(c, pc) == call[c].pc = pc

\* The call ends with pc, or goes on to it.
Goto(c, pc) == call' = [call EXCEPT ![c].pc = pc]

\* A failure strikes caller c, whose call goes on to pc.
Strike(c, pc) ==
  /\ call' = [call EXCEPT ![c] = [@ EXCEPT !.pc = pc, !.harmed = TRUE]]
  /\ harmed' = harmed \union {call[c].player}

-----------------------------------------------------------------------------
(* CreateAccount                                                           *)

Begin(c, p) ==
  /\ call[c].pc \in {"idle", "answered", "refused"}
  /\ call' = [call EXCEPT ![c] =
                [pc |-> "lookup", player |-> p, id |-> Null,
                 known |-> Of(p) # {}, harmed |-> FALSE]]
  /\ UNCHANGED <<accounts, announced, unheeded, harmed>>

Find_Republishes(c) ==  \* mutant: the event goes out for a found account too
  /\ At(c, "lookup")
  /\ \E row \in Of(call[c].player) :
       call' = [call EXCEPT ![c] = [@ EXCEPT !.pc = "publish", !.id = row.id]]
  /\ UNCHANGED <<accounts, announced, unheeded, harmed>>

\* The lookup finds the account: the call is "idempotent".
Find(c) ==
  /\ At(c, "lookup")
  /\ \E row \in Of(call[c].player) :
       call' = [call EXCEPT ![c] = [@ EXCEPT !.pc = "answered", !.id = row.id]]
  /\ UNCHANGED <<accounts, announced, unheeded, harmed>>

Miss_Always(c) ==  \* mutant: the row that was found is not looked at
  /\ At(c, "lookup")
  /\ Goto(c, "insert")
  /\ UNCHANGED <<accounts, announced, unheeded, harmed>>

\* No row: the account is made up, with an id nobody has seen.
Miss(c) ==
  /\ At(c, "lookup")
  /\ Of(call[c].player) = {}
  /\ Goto(c, "insert")
  /\ UNCHANGED <<accounts, announced, unheeded, harmed>>

\* The error of the lookup is dropped: it reads as no row.
LookupFails(c) ==
  /\ "error" \in Faults
  /\ At(c, "lookup")
  /\ Strike(c, "insert")
  /\ UNCHANGED <<accounts, announced, unheeded>>

NewRow_NoStatus(id, p) ==  \* mutant: the status keeps Go's zero value
  [id |-> id, player |-> p, status |-> "", version |-> 1]

NewRow(id, p) == [id |-> id, player |-> p, status |-> "active", version |-> 1]

Insertable_IdOnly(new) ==  \* mutant: player_id is not UNIQUE
  \A row \in accounts : row.id # new.id

\* The PRIMARY KEY and the UNIQUE player_id.
Insertable(new) ==
  \A row \in accounts : row.id # new.id /\ row.player # new.player

Insert(new) == accounts' = accounts \union {new}

Create(c, id) ==
  LET new == NewRow(id, call[c].player) IN
  /\ At(c, "insert")
  /\ Insertable(new)
  /\ Insert(new)
  /\ call' = [call EXCEPT ![c] = [@ EXCEPT !.pc = "publish", !.id = id]]
  /\ UNCHANGED <<announced, unheeded, harmed>>

\* A duplicate key is an error like any other: the caller gets no account.
Duplicate(c) ==
  /\ At(c, "insert")
  /\ Of(call[c].player) # {}
  /\ Goto(c, "refused")
  /\ UNCHANGED <<accounts, announced, unheeded, harmed>>

CreateFails(c) ==
  /\ "error" \in Faults
  /\ At(c, "insert")
  /\ Strike(c, "refused")
  /\ UNCHANGED <<accounts, announced, unheeded>>

\* The row is inserted and the caller told it is not: nothing is published.
CreateReplyLost(c, id) ==
  LET new == NewRow(id, call[c].player) IN
  /\ "lostReply" \in Faults
  /\ At(c, "insert")
  /\ Insertable(new)
  /\ Insert(new)
  /\ Strike(c, "refused")
  /\ UNCHANGED <<announced, unheeded>>

Publish(c) ==
  /\ At(c, "publish")
  /\ announced' = [announced EXCEPT ![call[c].player] = @ + 1]
  /\ Goto(c, "answered")
  /\ UNCHANGED <<accounts, unheeded, harmed>>

\* The error of Publish is dropped too.
PublishFails(c) ==
  /\ "unpublished" \in Faults
  /\ At(c, "publish")
  /\ Strike(c, "answered")
  /\ UNCHANGED <<accounts, announced, unheeded>>

Crash(c) ==
  /\ "crash" \in Faults
  /\ call[c].pc \in {"lookup", "insert", "publish"}
  /\ call' = [call EXCEPT ![c] = NoCall]
  /\ harmed' = harmed \union {call[c].player}
  /\ UNCHANGED <<accounts, announced, unheeded>>

-----------------------------------------------------------------------------
(* Updates of a row                                                        *)

\* The trigger check_account_version, run before every UPDATE; an exception
\* undoes the statement.
PassesTrigger(old, new) == old.version = new.version - 1

\* UpdateBalance sets version = version + 1.
UpdateBalance(row) ==
  LET new == [row EXCEPT !.version = @ + 1] IN
  /\ row.version < MaxVersion
  /\ PassesTrigger(row, new)
  /\ accounts' = (accounts \ {row}) \union {new}
  /\ UNCHANGED <<call, announced, unheeded, harmed>>

\* What the UPDATE of UpdateStatus makes of a row.
WithStatus(row, status) == [row EXCEPT !.status = status]

\* The statement that the trigger refuses is answered with its error; the one
\* that finds no row with success.
UpdateStatus(id, status) ==
  LET hit == {row \in accounts : row.id = id}
      new == {WithStatus(row, status) : row \in hit}
  IN /\ accounts' = IF \A row \in hit : PassesTrigger(row, WithStatus(row, status))
                    THEN (accounts \ hit) \union new
                    ELSE accounts
     /\ unheeded' = IF \E row \in accounts' : row.id = id /\ row.status # status
                    THEN unheeded \union {id}
                    ELSE unheeded \ {id}
     /\ UNCHANGED <<call, announced, harmed>>

-----------------------------------------------------------------------------
CallStep(c) ==
  \/ \E p \in Players : Begin(c, p)
  \/ Find(c)
  \/ Miss(c)
  \/ LookupFails(c)
  \/ \E id \in Ids : Create(c, id)
  \/ Duplicate(c)
  \/ CreateFails(c)
  \/ \E id \in Ids : CreateReplyLost(c, id)
  \/ Publish(c)
  \/ PublishFails(c)
  \/ Crash(c)

UpdateStep ==
  \/ \E row \in accounts : UpdateBalance(row)
  \/ \E id \in Ids, status \in AccountStatus : UpdateStatus(id, status)

Next == (\E c \in Callers : CallStep(c)) \/ UpdateStep

Spec == Init /\ [][Next]_vars
-----------------------------------------------------------------------------
(* Properties                                                              *)

TypeOK ==
  /\ accounts \subseteq Row
  /\ call \in [Callers -> Call]
  /\ announced \in [Players -> Nat]
  /\ unheeded \subseteq Ids
  /\ harmed \subseteq Players

\* The comment "idempotent" of CreateAccount: whoever is given an account for
\* a player is given the one account the player has, by whichever of the
\* racing calls it was inserted.
AnswersAgree ==
  \A c \in Callers :
    At(c, "answered") => {row.id : row \in Of(call[c].player)} = {call[c].id}

\* A caller is refused without a failure of its own only if the player had no
\* account when it called and has one now: another call overtook it between
\* its lookup and its insert.  To call again is then enough.
RefusalsNeedRace ==
  \A c \in Callers :
    At(c, "refused") /\ ~call[c].harmed =>
      ~call[c].known /\ Of(call[c].player) # {}

\* "account.created" is published at most once for a player and never without
\* an account; it is missing for good only where a call met a failure, as no
\* later call makes up for it.
AnnouncedOnce ==
  \A p \in Players :
    LET publishing == {c \in Callers : At(c, "publish") /\ call[c].player = p}
    IN /\ announced[p] <= 1
       /\ announced[p] = 1 => Of(p) # {} /\ publishing = {}
       /\ Of(p) # {} /\ announced[p] = 0 => publishing # {} \/ p \in harmed

\* "UpdateStatus updates account status": an account has the status that the
\* last UpdateStatus of it asked for, suspended or closed as it may be.
StatusTakes == unheeded = {}
=============================================================================
