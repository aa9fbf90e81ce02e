---------------------------- MODULE FeatureStore ----------------------------
(***************************************************************************)
(* The real-time features of one account,                                  *)
(* services/risk/internal/features/redis_store.go: a sorted set of the     *)
(* last transactions, a sum, two sketches of devices and IPs, the time of  *)
(* the last transaction and the start of the session, each a Redis key     *)
(* that expires on its own.                                                *)
(*                                                                         *)
(* UpdateRealTimeFeatures sends its commands in a pipeline, which is no    *)
(* transaction: Redis runs them one by one, between those of other         *)
(* clients, and a connection that breaks leaves the rest unsent.  Nothing  *)
(* in the source calls it yet; an event may reach it late, out of order    *)
(* and more than once, as events of a queue do.                            *)
(***************************************************************************)
EXTENDS Integers, Sequences, FiniteSetsExt, Functions

CONSTANTS
  Updaters,    \* goroutines in UpdateRealTimeFeatures
  Events,      \* transactions: records [id, ts, amount, device, ip]
  Minute, Rapid, HalfHour, Hour,    \* 1, 5, 30 and 60 minutes
  Day, Week,   \* 1 and 7 days
  MaxTime,     \* bound: the clock
  MaxApplies,  \* bound: updates begun
  Breaks,      \* connections may break
  None         \* no event; the device or IP that an event lacks

Never == 0
Sketches == {"devices", "ips"}
Expiring == Sketches \union {"history", "sum", "last", "session"}

ASSUME TimeAssumption ==
  /\ {Minute, Rapid, HalfHour, Hour, Day, Week, MaxTime, MaxApplies} \subseteq Nat \ {0}
  /\ Minute <= Rapid /\ Rapid <= HalfHour /\ HalfHour <= Hour /\ Hour <= Day /\ Day <= Week

\* Amounts are positive, as the CHECK of the transactions table has them.
ASSUME EventsAssumption ==
  /\ IsFiniteSet(Events)
  /\ None \notin Events
  /\ \A e \in Events : e.ts \in Nat \ {0} /\ e.amount \in Nat \ {0}

ASSUME BreaksAssumption == Breaks \in BOOLEAN

VARIABLES
  now,       \* the clock
  history,   \* members of the sorted set: time and amount
  total,     \* the sum; 0 when the key is missing
  sketch,    \* what PFADD added to the two sketches
  lastTx,    \* time of the last transaction; 0 when the key is missing
  session,   \* start of the session; 0 when the key is missing
  expires,   \* when each key expires; Never when no EXPIRE was given
  pipe,      \* commands of each updater that Redis has not run
  event,     \* the event of each updater
  applied,   \* history: events one of whose updates ran to its end
  applies,   \* history: updates begun
  lapsed,    \* history: <<event, key>>: the key expired between a write of
             \* the event's update and the EXPIRE behind it
  torn       \* history: keys that a break left without an expiry

values == <<history, total, sketch, lastTx, session>>
store == <<values, expires>>
storeVars == <<now, store, pipe, event, applied, applies, lapsed, torn>>

StoreInit ==
  /\ now = 1
  /\ history = {}
  /\ total = 0
  /\ sketch = [k \in Sketches |-> {}]
  /\ lastTx = 0
  /\ session = 0
  /\ expires = [k \in Expiring |-> Never]
  /\ pipe = [u \in Updaters |-> <<>>]
  /\ event = [u \in Updaters |-> None]
  /\ applied = {}
  /\ applies = 0
  /\ lapsed = {}
  /\ torn = {}

-----------------------------------------------------------------------------
(* UpdateRealTimeFeatures.                                                 *)

\* Mutant of Pipeline: the expiry is given before the counter is there.
Pipeline_ExpireFirst(e) ==
  << <<"ZADD", "history">>, <<"ZREM", "history">>, <<"EXPIRE", "history">>,
     <<"EXPIRE", "sum">>, <<"INCRBY", "sum">> >>
    \o (IF e.device = None THEN <<>> ELSE << <<"PFADD", "devices">>, <<"EXPIRE", "devices">> >>)
    \o (IF e.ip = None THEN <<>> ELSE << <<"PFADD", "ips">>, <<"EXPIRE", "ips">> >>)
    \o << <<"SET", "last">>, <<"SETNX", "session">>, <<"EXPIRE", "session">> >>

\* The commands for one event: an event without a device or an IP adds none.
Pipeline(e) ==
  << <<"ZADD", "history">>, <<"ZREM", "history">>, <<"EXPIRE", "history">>,
     <<"INCRBY", "sum">>, <<"EXPIRE", "sum">> >>
    \o (IF e.device = None THEN <<>> ELSE << <<"PFADD", "devices">>, <<"EXPIRE", "devices">> >>)
    \o (IF e.ip = None THEN <<>> ELSE << <<"PFADD", "ips">>, <<"EXPIRE", "ips">> >>)
    \o << <<"SET", "last">>, <<"SETNX", "session">>, <<"EXPIRE", "session">> >>

Begin(u, e) ==
  /\ pipe[u] = <<>>
  /\ e.ts <= now
  /\ applies < MaxApplies
  /\ applies' = applies + 1
  /\ pipe' = [pipe EXCEPT ![u] = Pipeline(e)]
  /\ event' = [event EXCEPT ![u] = e]
  /\ UNCHANGED <<now, store, applied, lapsed, torn>>

\* Mutant of Member: a member of its own for each delivery.
Member_Unique(e) == [ts |-> e.ts, amount |-> e.amount, delivery |-> applies]

Member(e) == [ts |-> e.ts, amount |-> e.amount]

\* Mutant of Outdated: the history keeps a minute.
Outdated_Minute(e) == {m \in history : m.ts <= e.ts - Minute}

Outdated(e) == {m \in history : m.ts <= e.ts - Hour}

\* How long each key lives after it is written.
Life ==
  [k \in Expiring |->
     CASE k = "history" -> 2 * Hour
       [] k = "sum" -> Hour
       [] k \in Sketches -> Day
       [] k = "last" -> Week
       [] k = "session" -> HalfHour]

ZAdd(e) ==
  /\ history' = history \union {Member(e)}
  /\ UNCHANGED <<total, sketch, lastTx, session, expires, torn>>

\* Redis drops a sorted set that becomes empty, and its expiry with it.
ZRemRangeByScore(e) ==
  /\ history' = history \ Outdated(e)
  /\ expires' = IF history' = {} THEN [expires EXCEPT !["history"] = Never] ELSE expires
  /\ UNCHANGED <<total, sketch, lastTx, session, torn>>

IncrBy(e) ==
  /\ total' = total + e.amount
  /\ UNCHANGED <<history, sketch, lastTx, session, expires, torn>>

PFAdd(e, k) ==
  /\ sketch' = [sketch EXCEPT ![k] = @ \union {IF k = "devices" THEN e.device ELSE e.ip}]
  /\ UNCHANGED <<history, total, lastTx, session, expires, torn>>

Exists(k) ==
  \/ k = "history" /\ history # {}
  \/ k = "sum" /\ total # 0
  \/ k \in Sketches /\ sketch[k] # {}
  \/ k = "last" /\ lastTx # 0
  \/ k = "session" /\ session # 0

\* EXPIRE of a missing key does nothing.  Mutant: an expiry is not renewed.
Expire_Once(k) ==
  /\ expires' = IF Exists(k) /\ expires[k] = Never
                THEN [expires EXCEPT ![k] = now + Life[k]] ELSE expires
  /\ torn' = torn \ {k}
  /\ UNCHANGED values

Expire(k) ==
  /\ expires' = IF Exists(k) THEN [expires EXCEPT ![k] = now + Life[k]] ELSE expires
  /\ torn' = torn \ {k}
  /\ UNCHANGED values

Set(e) ==
  /\ lastTx' = e.ts
  /\ expires' = [expires EXCEPT !["last"] = now + Life["last"]]
  /\ UNCHANGED <<history, total, sketch, session, torn>>

\* A session that is open keeps its start.
SetNX(e) ==
  /\ IF session # 0
     THEN UNCHANGED <<session, expires>>
     ELSE /\ session' = e.ts
          /\ expires' = [expires EXCEPT !["session"] = now + Life["session"]]
  /\ UNCHANGED <<history, total, sketch, lastTx, torn>>

\* Redis runs the next command of a pipeline.
Execute(u) ==
  /\ pipe[u] # <<>>
  /\ LET op == Head(pipe[u])[1]
         key == Head(pipe[u])[2]
         e == event[u]
     IN  \/ op = "ZADD" /\ ZAdd(e)
         \/ op = "ZREM" /\ ZRemRangeByScore(e)
         \/ op = "INCRBY" /\ IncrBy(e)
         \/ op = "PFADD" /\ PFAdd(e, key)
         \/ op = "EXPIRE" /\ Expire(key)
         \/ op = "SET" /\ Set(e)
         \/ op = "SETNX" /\ SetNX(e)
  /\ pipe' = [pipe EXCEPT ![u] = Tail(@)]
  /\ IF Len(pipe[u]) = 1
     THEN /\ applied' = applied \union {event[u]}
          /\ event' = [event EXCEPT ![u] = None]
     ELSE UNCHANGED <<applied, event>>
  /\ UNCHANGED <<now, applies, lapsed>>

Queued(s, c) == \E i \in 1..Len(s) : s[i] = c

\* The command that writes each key.
WriteOf(k) ==
  CASE k = "history" -> <<"ZADD", k>>
    [] k = "sum" -> <<"INCRBY", k>>
    [] k \in Sketches -> <<"PFADD", k>>
    [] k = "last" -> <<"SET", k>>
    [] k = "session" -> <<"SETNX", k>>

\* Updater u is between its write of a key and the EXPIRE behind it.
Unrenewed(u, k) == Queued(pipe[u], <<"EXPIRE", k>>) /\ ~Queued(pipe[u], WriteOf(k))

\* The connection breaks: the rest of the pipeline is never run.
Break(u) ==
  /\ Breaks
  /\ pipe[u] # <<>>
  /\ pipe' = [pipe EXCEPT ![u] = <<>>]
  /\ event' = [event EXCEPT ![u] = None]
  /\ torn' = torn \union {k \in Expiring : Unrenewed(u, k) /\ expires[k] = Never}
  /\ UNCHANGED <<now, store, applied, applies, lapsed>>

\* Time passes, and Redis drops the keys that have expired.
Tick ==
  /\ now < MaxTime
  /\ now' = now + 1
  /\ LET gone == {k \in Expiring : expires[k] # Never /\ expires[k] <= now'} IN
     /\ history' = IF "history" \in gone THEN {} ELSE history
     /\ total' = IF "sum" \in gone THEN 0 ELSE total
     /\ sketch' = [k \in Sketches |-> IF k \in gone THEN {} ELSE sketch[k]]
     /\ lastTx' = IF "last" \in gone THEN 0 ELSE lastTx
     /\ session' = IF "session" \in gone THEN 0 ELSE session
     /\ expires' = [k \in Expiring |-> IF k \in gone THEN Never ELSE expires[k]]
     /\ lapsed' = lapsed \union
          {p \in Events \X gone : \E u \in Updaters : event[u] = p[1] /\ Unrenewed(u, p[2])}
  /\ UNCHANGED <<pipe, event, applied, applies, torn>>

StoreNext ==
  \/ Tick
  \/ \E u \in Updaters :
       \/ \E e \in Events : Begin(u, e)
       \/ Execute(u)
       \/ Break(u)

StoreSpec == StoreInit /\ [][StoreNext]_storeVars

-----------------------------------------------------------------------------
(* GetRealTimeFeatures, GetVelocity and CheckRateLimit.                    *)

TxCount(window) == Cardinality({m \in history : m.ts >= now - window})
PFCount(k) == Cardinality(sketch[k])
TimeSinceLastTx == IF lastTx > 0 THEN now - lastTx ELSE 0

GetVelocity ==
  [count1min |-> TxCount(Minute), count5min |-> TxCount(Rapid), count1hour |-> TxCount(Hour)]

\* TRUE when the account is over a limit.
CheckRateLimit(maxPerMin, maxPerHour) ==
  GetVelocity.count1min >= maxPerMin \/ GetVelocity.count1hour >= maxPerHour

-----------------------------------------------------------------------------
(* Properties.                                                             *)

StoreTypeOK ==
  /\ now \in 1..MaxTime
  /\ history \subseteq {Member(e) : e \in Events}
  /\ total \in Nat
  /\ sketch \in [Sketches -> SUBSET UNION {{e.device, e.ip} : e \in Events}]
  /\ lastTx \in 0..now
  /\ session \in 0..now
  /\ expires \in [Expiring -> Nat]
  /\ \A u \in Updaters : event[u] \in Events \union {None}
  /\ \A u \in Updaters : pipe[u] # <<>> <=> event[u] # None
  /\ applied \subseteq Events
  /\ applies \in 0..MaxApplies
  /\ lapsed \subseteq Events \X Expiring
  /\ torn \subseteq Expiring

\* The transactions of the last w that were applied, and whose update did not
\* lose key k half way.
Applied(k, w) == {e \in applied : e.ts > now - w /\ <<e, k>> \notin lapsed}

\* The history holds every transaction of the last hour that was applied, in
\* whatever order and however late the updates run and break: an update cleans
\* up by the time of its own event, which may lie behind the others, and the
\* key lives two hours beyond each update.  Only an update that is overtaken
\* by the expiry, between its ZADD and its EXPIRE, leaves its transaction out.
WindowComplete == \A e \in Applied("history", Hour) : Member(e) \in history

\* The keys that expire as a whole cover the windows they stand for: the sum
\* counts each transaction of the last hour at least once, the sketches every
\* device and IP of the last day, and the session is open for half an hour
\* after each transaction.  Again only an update that loses the key between
\* its write and its EXPIRE is left out; connections may break anywhere.
SumCoversWindow ==
  /\ total >= SumFunctionOnSet([e \in Events |-> e.amount], Applied("sum", Hour))
  /\ {e.device : e \in Applied("devices", Day)} \ {None} \subseteq sketch["devices"]
  /\ {e.ip : e \in Applied("ips", Day)} \ {None} \subseteq sketch["ips"]
  /\ Applied("session", HalfHour) # {} => session # 0

\* No key stays for ever: one without an expiry is about to get it, or was left
\* without by a connection that broke between the two commands.
CountersExpire ==
  \A k \in Expiring : Exists(k) =>
    \/ expires[k] > now
    \/ k \in torn
    \/ \E u \in Updaters : Unrenewed(u, k)
=============================================================================
