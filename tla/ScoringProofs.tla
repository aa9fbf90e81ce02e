--------------------------- MODULE ScoringProofs ---------------------------
(***************************************************************************)
(* Theorems about the feature store and the scoring engine, for any        *)
(* events, updaters, scorers, thresholds and windows.                      *)
(*                                                                         *)
(* The store's properties need the order of a pipeline: what is still to   *)
(* be run is a suffix of Pipeline(e), so a key whose write has been run    *)
(* either has its EXPIRE still to come, and is Unrenewed, or lives as long *)
(* as its window.  An event has passed a command when one of its updates   *)
(* ran it; what it says of the store holds from then on, unless the key    *)
(* lapsed while it was Unrenewed.                                          *)
(***************************************************************************)
EXTENDS Scoring, Sums, SequenceTheorems

\* The keys that are written and then given an expiry.
Counters == {"history", "sum", "session"} \union Sketches

Writes ==
  {<<"ZADD", "history">>, <<"INCRBY", "sum">>, <<"PFADD", "devices">>, <<"PFADD", "ips">>,
   <<"SETNX", "session">>}

Commands ==
  Writes \union
  {<<"EXPIRE", "history">>, <<"EXPIRE", "sum">>, <<"EXPIRE", "devices">>, <<"EXPIRE", "ips">>,
   <<"EXPIRE", "session">>, <<"ZREM", "history">>, <<"SET", "last">>}

\* The place of a command in a pipeline.
Rank(c) ==
  IF c[1] = "ZREM" THEN 2
  ELSE IF c[1] = "SET" THEN 10
  ELSE IF c[2] = "history" THEN (IF c[1] = "EXPIRE" THEN 3 ELSE 1)
  ELSE (IF c[2] = "sum" THEN 4 ELSE IF c[2] = "devices" THEN 6
        ELSE IF c[2] = "ips" THEN 8 ELSE 11) + (IF c[1] = "EXPIRE" THEN 1 ELSE 0)

Ordered(s, a, b) ==
  /\ s \in Seq(Commands)
  /\ \A i \in 1..Len(s) : a <= Rank(s[i]) /\ Rank(s[i]) <= b
  /\ \A i, j \in 1..Len(s) : i < j => Rank(s[i]) < Rank(s[j])

\* Who still has to write a key still has to give it an expiry.
Paired(s) == \A k \in Counters : Queued(s, WriteOf(k)) => Queued(s, <<"EXPIRE", k>>)

Pipelines ==
  /\ pipe = [u \in Updaters |-> pipe[u]]
  /\ event = [u \in Updaters |-> event[u]]
  /\ \A u \in Updaters : Ordered(pipe[u], 1, 12) /\ Paired(pipe[u])

\* Nothing in the store comes from the future.
Past ==
  /\ \A u \in Updaters : event[u] # None => event[u].ts <= now
  /\ \A e \in applied : e.ts <= now
  /\ \A m \in history : \E e \in Events : m = Member(e) /\ e.ts <= now
  /\ lastTx # 0 => \E e \in Events : e.ts = lastTx

\* Redis has dropped the keys that have expired.
Unexpired == \A k \in Expiring : expires[k] = Never \/ expires[k] > now

\* The window that a key stands for.
Span(k) == IF k = "history" THEN Hour ELSE Life[k]

Item(e, k) == IF k = "devices" THEN e.device ELSE e.ip

Has(e, k) == k \in Sketches => Item(e, k) # None

\* Key k is to tell of event e: the event is of its window, and none of its
\* updates lost the key half way.
Due(e, k) == Has(e, k) /\ e.ts > now - Span(k) /\ <<e, k>> \notin lapsed

Tells(k, e) ==
  /\ k = "history" => Member(e) \in history
  /\ k \in Sketches => Item(e, k) \in sketch[k]
  /\ k = "session" => session # 0

Passed(e, c) ==
  e \in applied \/ \E u \in Updaters : event[u] = e /\ ~Queued(pipe[u], c)

Amounts == [e \in Events |-> e.amount]

Summed == {e \in Events : Due(e, "sum") /\ Passed(e, WriteOf("sum"))}

Seen ==
  \A e \in Events, k \in Counters : Due(e, k) /\ Passed(e, WriteOf(k)) => Tells(k, e)

Renewed ==
  \A e \in Events, k \in Counters :
    Due(e, k) /\ Passed(e, <<"EXPIRE", k>>) => expires[k] >= e.ts + Span(k)

Covering == Seen /\ Renewed /\ total >= SumFunctionOnSet(Amounts, Summed)

StoreInv == StoreTypeOK /\ Pipelines /\ Past /\ Unexpired /\ CountersExpire /\ Covering

-----------------------------------------------------------------------------
(* Pipelines.                                                              *)

LEMMA Ranks ==
  /\ \A c \in Commands : Rank(c) \in 1..12
  /\ \A k \in Counters :
       /\ WriteOf(k) \in Writes /\ <<"EXPIRE", k>> \in Commands
       /\ WriteOf(k)[2] = k /\ WriteOf(k)[1] # "EXPIRE"
       /\ Rank(WriteOf(k)) < Rank(<<"EXPIRE", k>>)
  /\ WriteOf("history") = <<"ZADD", "history">> /\ WriteOf("sum") = <<"INCRBY", "sum">>
  /\ WriteOf("session") = <<"SETNX", "session">>
  /\ \A k \in Sketches : WriteOf(k) = <<"PFADD", k>>
<1>1. /\ WriteOf("history") = <<"ZADD", "history">> /\ WriteOf("sum") = <<"INCRBY", "sum">>
      /\ WriteOf("session") = <<"SETNX", "session">>
      /\ WriteOf("devices") = <<"PFADD", "devices">> /\ WriteOf("ips") = <<"PFADD", "ips">>
  BY DEF WriteOf, Sketches
<1>2. \A c \in Commands : Rank(c) \in 1..12
  BY DEF Rank, Commands, Writes
<1>3. ASSUME NEW k \in Counters
      PROVE  /\ WriteOf(k) \in Writes /\ <<"EXPIRE", k>> \in Commands
             /\ WriteOf(k)[2] = k /\ WriteOf(k)[1] # "EXPIRE"
             /\ Rank(WriteOf(k)) < Rank(<<"EXPIRE", k>>)
  BY <1>1 DEF Rank, Commands, Writes, Counters, Sketches
<1> QED BY <1>1, <1>2, <1>3 DEF Sketches

LEMMA Joined ==
  ASSUME NEW s, NEW t, NEW a \in Nat, NEW b \in Nat, NEW c \in Nat, NEW d \in Nat,
         a <= b, b < c, c <= d, Ordered(s, a, b), Ordered(t, c, d), Paired(s), Paired(t)
  PROVE  /\ Ordered(s \o t, a, d) /\ Paired(s \o t)
         /\ \A x : Queued(s \o t, x) <=> Queued(s, x) \/ Queued(t, x)
<1>1. s \in Seq(Commands) /\ t \in Seq(Commands)
  BY DEF Ordered
<1> DEFINE st == s \o t
<1>2. st \in Seq(Commands) /\ Len(st) = Len(s) + Len(t)
      /\ Len(s) \in Nat /\ Len(t) \in Nat
  BY <1>1
<1>3. /\ \A i \in 1..Len(s) : st[i] = s[i] /\ i \in 1..Len(st)
      /\ \A i \in 1..Len(t) : st[Len(s) + i] = t[i] /\ Len(s) + i \in 1..Len(st)
  BY <1>1
<1>4. \A i \in 1..Len(st) :
        \/ i \in 1..Len(s)
        \/ i - Len(s) \in 1..Len(t) /\ i = Len(s) + (i - Len(s))
  BY <1>2
<1> HIDE DEF st
<1>5. \A i \in 1..Len(st) : st[i] \in Commands /\ Rank(st[i]) \in Nat
  <2>1. \A i \in 1..Len(st) : st[i] \in Commands
    BY <1>2
  <2>2. \A x \in Commands : Rank(x) \in Nat
    BY Ranks
  <2> QED BY <2>1, <2>2
<1>6. ASSUME NEW i \in 1..Len(st)
      PROVE  a <= Rank(st[i]) /\ Rank(st[i]) <= d
  <2>1. CASE i \in 1..Len(s)
    BY <1>3, <1>5, <2>1 DEF Ordered
  <2>2. CASE i - Len(s) \in 1..Len(t) /\ i = Len(s) + (i - Len(s))
    <3>1. st[i] = t[i - Len(s)]
      BY <1>3, <2>2
    <3>2. c <= Rank(t[i - Len(s)]) /\ Rank(t[i - Len(s)]) <= d
      BY <2>2 DEF Ordered
    <3>3. Rank(st[i]) \in Nat
      BY <1>5
    <3> QED BY <3>1, <3>2, <3>3
  <2> QED BY <1>4, <2>1, <2>2
<1>7. ASSUME NEW i \in 1..Len(st), NEW j \in 1..Len(st), i < j
      PROVE  Rank(st[i]) < Rank(st[j])
  <2>1. CASE i \in 1..Len(s) /\ j \in 1..Len(s)
    BY <1>3, <1>7, <2>1 DEF Ordered
  <2>2. CASE i \in 1..Len(s) /\ j \notin 1..Len(s)
    <3>1. j - Len(s) \in 1..Len(t) /\ st[j] = t[j - Len(s)] /\ st[i] = s[i]
      BY <1>3, <1>4, <2>2
    <3>2. Rank(s[i]) <= b /\ c <= Rank(t[j - Len(s)])
      BY <2>2, <3>1 DEF Ordered
    <3>3. /\ Rank(st[i]) = Rank(s[i]) /\ Rank(st[j]) = Rank(t[j - Len(s)])
          /\ Rank(st[i]) \in Nat /\ Rank(st[j]) \in Nat
      BY <1>5, <3>1
    <3> QED BY <3>2, <3>3
  <2>3. CASE i \notin 1..Len(s)
    <3>1. j \notin 1..Len(s)
      BY <1>2, <1>7, <2>3
    <3>2. /\ i - Len(s) \in 1..Len(t) /\ st[i] = t[i - Len(s)]
          /\ j - Len(s) \in 1..Len(t) /\ st[j] = t[j - Len(s)]
      BY <1>3, <1>4, <2>3, <3>1
    <3>3. i - Len(s) < j - Len(s)
      BY <1>2, <1>7
    <3> QED BY <3>2, <3>3 DEF Ordered
  <2> QED BY <2>1, <2>2, <2>3
<1>8. \A x : Queued(st, x) <=> Queued(s, x) \/ Queued(t, x)
  <2>1. \A x : Queued(s, x) \/ Queued(t, x) => Queued(st, x)
    BY <1>3 DEF Queued
  <2>2. ASSUME NEW x, NEW i \in 1..Len(st), st[i] = x PROVE Queued(s, x) \/ Queued(t, x)
    BY <1>3, <1>4, <2>2 DEF Queued
  <2> QED BY <2>1, <2>2 DEF Queued
<1>9. Paired(st)
  BY <1>8 DEF Paired
<1> QED BY <1>2, <1>6, <1>7, <1>8, <1>9 DEF Ordered, st

\* A write and the EXPIRE behind it.
LEMMA PairOrdered ==
  ASSUME NEW k \in Counters
  PROVE  LET two == <<WriteOf(k), <<"EXPIRE", k>>>> IN
         /\ Ordered(two, Rank(WriteOf(k)), Rank(<<"EXPIRE", k>>)) /\ Paired(two)
         /\ Queued(two, WriteOf(k)) /\ Queued(two, <<"EXPIRE", k>>)
<1> DEFINE two == <<WriteOf(k), <<"EXPIRE", k>>>>
<1>1. two \in Seq(Commands) /\ Len(two) = 2
  BY Ranks DEF Commands
<1>2. two[1] = WriteOf(k) /\ two[2] = <<"EXPIRE", k>>
  OBVIOUS
<1>3. Rank(two[1]) \in Nat /\ Rank(two[2]) \in Nat /\ Rank(two[1]) < Rank(two[2])
  <2>1. WriteOf(k) \in Commands /\ <<"EXPIRE", k>> \in Commands
    BY Ranks DEF Commands
  <2> QED BY <1>2, <2>1, Ranks
<1> HIDE DEF two
<1>4. Ordered(two, Rank(WriteOf(k)), Rank(<<"EXPIRE", k>>))
  BY <1>1, <1>2, <1>3 DEF Ordered
<1>5. \A x : Queued(two, x) <=> x = WriteOf(k) \/ x = <<"EXPIRE", k>>
  BY <1>1, <1>2 DEF Queued
<1>6. Paired(two)
  <2> SUFFICES ASSUME NEW j \in Counters, Queued(two, WriteOf(j))
               PROVE  j = k
    BY <1>5 DEF Paired
  <2>1. WriteOf(j) = WriteOf(k) \/ WriteOf(j) = <<"EXPIRE", k>>
    BY <1>5
  <2>2. WriteOf(j)[2] = j /\ WriteOf(j)[1] # "EXPIRE" /\ WriteOf(k)[2] = k
    BY Ranks
  <2> QED BY <2>1, <2>2
<1> QED BY <1>4, <1>5, <1>6 DEF two

LEMMA PipelineOrdered ==
  ASSUME NEW e
  PROVE  /\ Ordered(Pipeline(e), 1, 12) /\ Paired(Pipeline(e)) /\ Pipeline(e) # <<>>
         /\ \A k \in Counters : Has(e, k) =>
              Queued(Pipeline(e), WriteOf(k)) /\ Queued(Pipeline(e), <<"EXPIRE", k>>)
<1> DEFINE both(k) == <<WriteOf(k), <<"EXPIRE", k>>>>
           zset == << <<"ZADD", "history">>, <<"ZREM", "history">>, <<"EXPIRE", "history">> >>
           sum == both("sum")
           first == << <<"ZADD", "history">>, <<"ZREM", "history">>, <<"EXPIRE", "history">>,
                       <<"INCRBY", "sum">>, <<"EXPIRE", "sum">> >>
           device == IF e.device = None THEN <<>> ELSE both("devices")
           ip == IF e.ip = None THEN <<>> ELSE both("ips")
           set == << <<"SET", "last">> >>
           session2 == both("session")
           last == << <<"SET", "last">>, <<"SETNX", "session">>, <<"EXPIRE", "session">> >>
<1>1. Pipeline(e) = first \o device \o ip \o last
  BY Ranks DEF Pipeline, Sketches
<1>2. first = zset \o sum /\ last = set \o session2
  BY Ranks
<1>3. Ordered(zset, 1, 3) /\ Paired(zset) /\ Queued(zset, WriteOf("history"))
      /\ Queued(zset, <<"EXPIRE", "history">>)
  <2>1. zset \in Seq(Commands) /\ Len(zset) = 3
    BY DEF Commands, Writes
  <2>2. /\ zset[1] = <<"ZADD", "history">> /\ zset[2] = <<"ZREM", "history">>
        /\ zset[3] = <<"EXPIRE", "history">>
    OBVIOUS
  <2>3. Rank(zset[1]) = 1 /\ Rank(zset[2]) = 2 /\ Rank(zset[3]) = 3
    BY DEF Rank
  <2> HIDE DEF zset
  <2>4. Ordered(zset, 1, 3)
    BY <2>1, <2>3 DEF Ordered
  <2>5. \A x : Queued(zset, x) <=> x \in {zset[1], zset[2], zset[3]}
    BY <2>1 DEF Queued
  <2>6. Queued(zset, WriteOf("history")) /\ Queued(zset, <<"EXPIRE", "history">>)
    BY <2>2, <2>5, Ranks
  <2>7. Paired(zset)
    <3> SUFFICES ASSUME NEW k \in Counters, Queued(zset, WriteOf(k)) PROVE k = "history"
      BY <2>6 DEF Paired
    <3>1. WriteOf(k)[2] = k
      BY Ranks
    <3> QED BY <2>2, <2>5, <3>1
  <2> QED BY <2>4, <2>6, <2>7
<1>4. Ordered(sum, 4, 5) /\ Paired(sum) /\ Queued(sum, WriteOf("sum"))
      /\ Queued(sum, <<"EXPIRE", "sum">>)
  <2>1. "sum" \in Counters /\ Rank(WriteOf("sum")) = 4 /\ Rank(<<"EXPIRE", "sum">>) = 5
    BY Ranks DEF Counters, Rank
  <2> QED BY <2>1, PairOrdered
<1>5. /\ Ordered(<<>>, 6, 7) /\ Paired(<<>>) /\ Ordered(<<>>, 8, 9)
  BY DEF Ordered, Paired, Queued
<1>6. /\ Ordered(device, 6, 7) /\ Paired(device)
      /\ Has(e, "devices") =>
           Queued(device, WriteOf("devices")) /\ Queued(device, <<"EXPIRE", "devices">>)
  <2>1. "devices" \in Counters /\ Rank(WriteOf("devices")) = 6
        /\ Rank(<<"EXPIRE", "devices">>) = 7
    BY Ranks DEF Counters, Sketches, Rank
  <2>2. /\ Ordered(both("devices"), 6, 7) /\ Paired(both("devices"))
        /\ Queued(both("devices"), WriteOf("devices"))
        /\ Queued(both("devices"), <<"EXPIRE", "devices">>)
    BY <2>1, PairOrdered
  <2> HIDE DEF both
  <2> QED BY <1>5, <2>2 DEF Has, Item, Sketches
<1>7. /\ Ordered(ip, 8, 9) /\ Paired(ip)
      /\ Has(e, "ips") => Queued(ip, WriteOf("ips")) /\ Queued(ip, <<"EXPIRE", "ips">>)
  <2>1. "ips" \in Counters /\ Rank(WriteOf("ips")) = 8 /\ Rank(<<"EXPIRE", "ips">>) = 9
    BY Ranks DEF Counters, Sketches, Rank
  <2>2. /\ Ordered(both("ips"), 8, 9) /\ Paired(both("ips"))
        /\ Queued(both("ips"), WriteOf("ips")) /\ Queued(both("ips"), <<"EXPIRE", "ips">>)
    BY <2>1, PairOrdered
  <2> HIDE DEF both
  <2> QED BY <1>5, <2>2 DEF Has, Item, Sketches
<1>8. Ordered(set, 10, 10) /\ Paired(set)
  <2>1. set \in Seq(Commands) /\ Len(set) = 1 /\ set[1] = <<"SET", "last">>
    BY DEF Commands
  <2>2. Rank(set[1]) = 10
    BY DEF Rank
  <2> HIDE DEF set
  <2>3. \A x : Queued(set, x) => x[2] = "last"
    <3>1. \A i \in 1..Len(set) : i = 1
      BY <2>1
    <3>2. \A i \in 1..Len(set) : set[i][2] = "last"
      BY <2>1, <3>1
    <3> QED BY <3>2 DEF Queued
  <2>4. \A k \in Counters : WriteOf(k)[2] # "last"
    BY Ranks DEF Counters, Sketches
  <2> QED BY <2>1, <2>2, <2>3, <2>4 DEF Ordered, Paired
<1>9. Ordered(session2, 11, 12) /\ Paired(session2) /\ Queued(session2, WriteOf("session"))
      /\ Queued(session2, <<"EXPIRE", "session">>)
  <2>1. "session" \in Counters /\ Rank(WriteOf("session")) = 11
        /\ Rank(<<"EXPIRE", "session">>) = 12
    BY Ranks DEF Counters, Rank
  <2> QED BY <2>1, PairOrdered
<1> HIDE DEF both, zset, sum, set, session2, first, last, device, ip
<1>10. /\ Ordered(first, 1, 5) /\ Paired(first)
       /\ \A x : Queued(first, x) <=> Queued(zset, x) \/ Queued(sum, x)
  BY <1>2, <1>3, <1>4, Joined
<1>11. /\ Ordered(last, 10, 12) /\ Paired(last)
       /\ \A x : Queued(last, x) <=> Queued(set, x) \/ Queued(session2, x)
  BY <1>2, <1>8, <1>9, Joined
<1> DEFINE two == first \o device
           three == two \o ip
<1>12. /\ Ordered(two, 1, 7) /\ Paired(two)
       /\ \A x : Queued(two, x) <=> Queued(first, x) \/ Queued(device, x)
  BY <1>6, <1>10, Joined
<1> HIDE DEF two
<1>13. /\ Ordered(three, 1, 9) /\ Paired(three)
       /\ \A x : Queued(three, x) <=> Queued(two, x) \/ Queued(ip, x)
  BY <1>7, <1>12, Joined
<1> HIDE DEF three
<1>14. /\ Ordered(three \o last, 1, 12) /\ Paired(three \o last)
       /\ \A x : Queued(three \o last, x) <=> Queued(three, x) \/ Queued(last, x)
  BY <1>11, <1>13, Joined
<1>15. Pipeline(e) = three \o last
  BY <1>1 DEF two, three
<1>16. ASSUME NEW k \in Counters, Has(e, k)
       PROVE  Queued(Pipeline(e), WriteOf(k)) /\ Queued(Pipeline(e), <<"EXPIRE", k>>)
  BY <1>3, <1>4, <1>6, <1>7, <1>9, <1>10, <1>11, <1>12, <1>13, <1>14, <1>15, <1>16
     DEF Counters, Sketches
<1>17. Pipeline(e) # <<>>
  <2>1. Queued(Pipeline(e), <<"EXPIRE", "history">>)
    BY <1>3, <1>10, <1>12, <1>13, <1>14, <1>15
  <2>2. ~Queued(<<>>, <<"EXPIRE", "history">>)
    BY DEF Queued
  <2> QED BY <2>1, <2>2
<1> QED BY <1>14, <1>15, <1>16, <1>17

\* What Redis leaves of a pipeline when it has run its first command.
LEMMA TailOrdered ==
  ASSUME NEW s, s # <<>>, Ordered(s, 1, 12), Paired(s)
  PROVE  /\ Ordered(Tail(s), 1, 12) /\ Paired(Tail(s))
         /\ Len(s) \in Nat \ {0} /\ Head(s) \in Commands
         /\ Tail(s) = <<>> <=> Len(s) = 1
         /\ \A x : Queued(s, x) <=> x = Head(s) \/ Queued(Tail(s), x)
         /\ ~Queued(Tail(s), Head(s))
         /\ \A k \in Counters : Head(s) = <<"EXPIRE", k>> => ~Queued(s, WriteOf(k))
<1>1. s \in Seq(Commands) /\ Len(s) \in Nat \ {0} /\ Head(s) = s[1] /\ Head(s) \in Commands
  BY DEF Ordered
<1>2. Tail(s) \in Seq(Commands) /\ Len(Tail(s)) = Len(s) - 1
  BY <1>1
<1>3. \A i \in 1..Len(Tail(s)) : Tail(s)[i] = s[i + 1] /\ i + 1 \in 1..Len(s)
  BY <1>1, <1>2
<1>4. Ordered(Tail(s), 1, 12)
  BY <1>1, <1>2, <1>3 DEF Ordered
<1>5. Tail(s) = <<>> <=> Len(s) = 1
  <2>1. Len(s) = 1 => Tail(s) = <<>>
    <3>1. Tail(s) # <<>> => Len(Tail(s)) \in Nat \ {0}
      BY <1>2, EmptySeq
    <3> QED BY <1>1, <1>2, <3>1
  <2>2. Tail(s) = <<>> => Len(Tail(s)) = 0
    BY EmptySeq
  <2> QED BY <1>1, <1>2, <2>1, <2>2
<1>6. ASSUME NEW x PROVE Queued(s, x) <=> x = Head(s) \/ Queued(Tail(s), x)
  <2>1. ASSUME NEW i \in 1..Len(s), s[i] = x, x # Head(s) PROVE Queued(Tail(s), x)
    <3>1. i - 1 \in 1..Len(Tail(s)) /\ i - 1 + 1 = i
      BY <1>1, <1>2, <2>1
    <3>2. Tail(s)[i - 1] = x
      BY <1>3, <2>1, <3>1
    <3> QED BY <3>1, <3>2 DEF Queued
  <2>2. x = Head(s) => Queued(s, x)
    BY <1>1 DEF Queued
  <2>3. Queued(Tail(s), x) => Queued(s, x)
    BY <1>3 DEF Queued
  <2> QED BY <2>1, <2>2, <2>3 DEF Queued
\* A command of the tail ranks above the head.
<1>7. ASSUME NEW x, Queued(Tail(s), x) PROVE Rank(Head(s)) < Rank(x)
  <2>1. PICK i \in 1..Len(Tail(s)) : Tail(s)[i] = x
    BY <1>7 DEF Queued
  <2>2. i + 1 \in 1..Len(s) /\ s[i + 1] = x /\ 1 \in 1..Len(s) /\ 1 < i + 1
    BY <1>1, <1>3, <2>1
  <2>3. Rank(s[1]) < Rank(s[i + 1])
    BY <2>2 DEF Ordered
  <2> QED BY <1>1, <2>2, <2>3
<1>8. Rank(Head(s)) \in Nat
  BY <1>1, Ranks
<1>9. ~Queued(Tail(s), Head(s))
  BY <1>7, <1>8
<1>10. ASSUME NEW k \in Counters, Head(s) = <<"EXPIRE", k>> PROVE ~Queued(s, WriteOf(k))
  <2>1. /\ Rank(WriteOf(k)) < Rank(<<"EXPIRE", k>>) /\ WriteOf(k) # Head(s)
        /\ Rank(WriteOf(k)) \in Nat
    BY <1>10, Ranks DEF Commands
  <2>2. ~Queued(Tail(s), WriteOf(k))
    BY <1>7, <1>8, <1>10, <2>1
  <2> QED BY <1>6, <2>1, <2>2
<1>11. Paired(Tail(s))
  <2> SUFFICES ASSUME NEW k \in Counters, Queued(Tail(s), WriteOf(k))
               PROVE  Queued(Tail(s), <<"EXPIRE", k>>)
    BY DEF Paired
  <2>1. Queued(s, WriteOf(k)) /\ Queued(s, <<"EXPIRE", k>>)
    BY <1>6 DEF Paired
  <2>2. Head(s) # <<"EXPIRE", k>>
    BY <1>10, <2>1
  <2> QED BY <1>6, <2>1, <2>2
<1> QED BY <1>1, <1>4, <1>5, <1>6, <1>9, <1>10, <1>11

LEMMA Windows ==
  /\ Minute \in Nat /\ Rapid \in Nat /\ HalfHour \in Nat /\ Hour \in Nat /\ Day \in Nat
  /\ MaxTime \in Nat
  /\ \A k \in Expiring : /\ Life[k] \in Nat /\ Life[k] > 0
                         /\ Span(k) \in Nat /\ Span(k) <= Life[k]
  /\ \A e \in Events : e.ts \in Nat /\ e.ts > 0 /\ e.amount \in Nat /\ e.amount > 0 /\ e # None
  /\ Counters \subseteq Expiring /\ Sketches \subseteq Counters /\ "last" \in Expiring
  /\ "sum" \in Counters /\ "history" \in Counters /\ "session" \in Counters
  /\ "last" \notin Counters /\ "sum" \notin Sketches /\ "history" \notin Sketches
  /\ "session" \notin Sketches
<1>1. /\ Minute \in Nat /\ Rapid \in Nat /\ HalfHour \in Nat /\ Hour \in Nat /\ Day \in Nat
      /\ Week \in Nat /\ MaxTime \in Nat /\ HalfHour > 0 /\ Hour > 0 /\ Day > 0 /\ Week > 0
  BY TimeAssumption
<1>2. \A k \in Expiring :
        Life[k] = IF k = "history" THEN 2 * Hour ELSE IF k = "sum" THEN Hour
                  ELSE IF k \in Sketches THEN Day ELSE IF k = "last" THEN Week ELSE HalfHour
  BY DEF Life, Expiring, Sketches
<1>3. ASSUME NEW k \in Expiring
      PROVE  Life[k] \in Nat /\ Life[k] > 0 /\ Span(k) \in Nat /\ Span(k) <= Life[k]
  BY <1>1, <1>2 DEF Span
<1>4. \A e \in Events :
        e.ts \in Nat /\ e.ts > 0 /\ e.amount \in Nat /\ e.amount > 0 /\ e # None
  BY EventsAssumption
<1> QED BY <1>1, <1>3, <1>4 DEF Counters, Expiring, Sketches

LEMMA StoreTypes ==
  ASSUME StoreInv
  PROVE  /\ now \in Nat /\ now > 0 /\ now <= MaxTime /\ total \in Nat
         /\ expires \in [Expiring -> Nat] /\ DOMAIN sketch = Sketches
         /\ applied \subseteq Events
         /\ \A u \in Updaters : /\ event[u] \in Events \union {None}
                                /\ pipe[u] # <<>> <=> event[u] # None
                                /\ event[u] # None => event[u].ts <= now
         /\ IsFiniteSet(Events) /\ IsFiniteSet(Summed) /\ Summed \subseteq Events
         /\ \A e \in Events : Amounts[e] = e.amount /\ Amounts[e] \in Nat
<1>1. IsFiniteSet(Events) /\ Summed \subseteq Events
  BY EventsAssumption DEF Summed
<1>2. IsFiniteSet(Summed)
  BY <1>1, FS_Subset
<1>3. \A e \in Events : Amounts[e] = e.amount /\ Amounts[e] \in Nat
  BY Windows DEF Amounts
<1>4. now \in Nat /\ now > 0 /\ now <= MaxTime
  BY Windows DEF StoreInv, StoreTypeOK
<1> QED BY <1>1, <1>2, <1>3, <1>4 DEF StoreInv, StoreTypeOK, Past

\* An event that has passed a command took place.
LEMMA PassedTookPlace ==
  ASSUME StoreInv, NEW e \in Events, NEW c, Passed(e, c)
  PROVE  e.ts <= now
BY StoreTypes, Windows DEF StoreInv, Past, Passed

\* Who has passed the EXPIRE of a key has passed its write.
LEMMA PassedBoth ==
  ASSUME StoreInv, NEW e \in Events, NEW k \in Counters, Passed(e, <<"EXPIRE", k>>)
  PROVE  Passed(e, WriteOf(k))
BY DEF StoreInv, Pipelines, Paired, Passed

\* The sum of fewer amounts is no greater.
LEMMA SmallerSum ==
  ASSUME StoreInv, NEW S, S \subseteq Summed
  PROVE  /\ SumFunctionOnSet(Amounts, S) \in Nat
         /\ SumFunctionOnSet(Amounts, S) <= total
<1>1. IsFiniteSet(Summed) /\ \A e \in Summed : Amounts[e] \in Nat
  BY StoreTypes
<1>2. IsFiniteSet(S) /\ \A e \in S : Amounts[e] \in Nat
  BY <1>1, FS_Subset
<1>3. /\ SumFunctionOnSet(Amounts, S) \in Nat /\ SumFunctionOnSet(Amounts, Summed) \in Nat
      /\ SumFunctionOnSet(Amounts, S) <= SumFunctionOnSet(Amounts, Summed)
  BY <1>1, <1>2, SumNat, SumMonotone
<1>4. total >= SumFunctionOnSet(Amounts, Summed) /\ total \in Nat
  BY StoreTypes DEF StoreInv, Covering
<1> QED BY <1>3, <1>4

\* A key that is to tell of an event that has passed its write is there.
LEMMA KeyExists ==
  ASSUME StoreInv, NEW e \in Events, NEW k \in Counters, Due(e, k), Passed(e, WriteOf(k))
  PROVE  Exists(k)
<1>1. CASE k = "sum"
  <2>1. {e} \subseteq Summed
    BY <1>1 DEF Summed
  <2>2. SumFunctionOnSet(Amounts, {e}) <= total /\ SumFunctionOnSet(Amounts, {e}) \in Nat
    BY <2>1, SmallerSum
  <2>3. IsFiniteSet({e}) /\ \A x \in {e} : Amounts[x] \in Nat
    BY StoreTypes, FS_Singleton
  <2>4. Amounts[e] <= SumFunctionOnSet(Amounts, {e})
    BY <2>3, SumAtLeast
  <2>5. Amounts[e] \in Nat /\ Amounts[e] > 0 /\ total \in Nat
    BY StoreTypes, Windows
  <2>6. total # 0
    BY <2>2, <2>4, <2>5
  <2> QED BY <1>1, <2>6 DEF Exists
<1>2. CASE k # "sum"
  <2>1. Tells(k, e)
    BY DEF StoreInv, Covering, Seen
  <2> QED BY <1>2, <2>1 DEF Tells, Exists, Counters
<1> QED BY <1>1, <1>2

-----------------------------------------------------------------------------
(* The store.                                                              *)

LEMMA StoreStart == StoreInit => StoreInv
<1> SUFFICES ASSUME StoreInit PROVE StoreInv
  OBVIOUS
<1>1. StoreTypeOK
  <2>1. /\ now \in 1..MaxTime /\ lastTx \in 0..now /\ session \in 0..now /\ total \in Nat
        /\ applies \in 0..MaxApplies
    BY TimeAssumption DEF StoreInit
  <2>2. expires \in [Expiring -> Nat] /\ torn \subseteq Expiring
    BY DEF StoreInit, Never
  <2>3. sketch \in [Sketches -> SUBSET UNION {{e.device, e.ip} : e \in Events}]
    BY DEF StoreInit
  <2> QED BY <2>1, <2>2, <2>3 DEF StoreInit, StoreTypeOK
<1>2. Ordered(<<>>, 1, 12) /\ Paired(<<>>)
  BY DEF Ordered, Paired, Queued
<1>3. Pipelines
  BY <1>2 DEF StoreInit, Pipelines
<1>4. Past /\ CountersExpire /\ Unexpired
  BY DEF StoreInit, Past, CountersExpire, Exists, Sketches, Unexpired
<1>5. \A e \in Events : \A c : ~Passed(e, c)
  BY Windows DEF StoreInit, Passed
<1>6. Renewed /\ Seen /\ Summed = {}
  BY <1>5 DEF Renewed, Seen, Summed
<1>7. total >= SumFunctionOnSet(Amounts, Summed)
  <2>1. SumFunctionOnSet(Amounts, Summed) = 0 /\ total = 0
    BY <1>6, SumEmpty DEF StoreInit
  <2> QED BY <2>1
<1> QED BY <1>1, <1>3, <1>4, <1>6, <1>7 DEF StoreInv, Covering

\* Nothing is passed anew, and what the keys hold and their expiries stay.
LEMMA CoveringKept ==
  ASSUME StoreInv, now' = now, UNCHANGED store, lapsed' = lapsed,
         \A e \in Events, k \in Counters : \A c \in {WriteOf(k), <<"EXPIRE", k>>} :
           Has(e, k) /\ Passed(e, c)' => Passed(e, c)
  PROVE  Covering'
<1>1. \A e, k : Due(e, k)' = Due(e, k)
  BY DEF Due, Has, Item, Span
<1>2. \A e, k : Tells(k, e)' = Tells(k, e)
  BY DEF Tells, Member, Item, store, values
<1>3. \A e, k : Due(e, k) => Has(e, k)
  BY DEF Due
<1>4. Seen'
  BY <1>1, <1>2, <1>3 DEF StoreInv, Covering, Seen
<1>5. Renewed'
  BY <1>1, <1>3 DEF StoreInv, Covering, Renewed, store, Span
<1>6. Summed' \subseteq Summed
  BY <1>1, <1>3, Windows DEF Summed
<1>7. SumFunctionOnSet(Amounts, Summed') <= total /\ total' = total
      /\ SumFunctionOnSet(Amounts, Summed') \in Nat
  BY <1>6, SmallerSum DEF store, values
<1>8. total' >= SumFunctionOnSet(Amounts, Summed')
  BY <1>7, StoreTypes
<1> QED BY <1>4, <1>5, <1>8 DEF Covering, Amounts

LEMMA BeginStep ==
  ASSUME StoreInv, NEW u \in Updaters, NEW e \in Events, Begin(u, e)
  PROVE  StoreInv'
<1>0. /\ UNCHANGED <<store, values>> /\ now' = now /\ applied' = applied /\ lapsed' = lapsed
      /\ torn' = torn /\ pipe' = [pipe EXCEPT ![u] = Pipeline(e)]
      /\ event' = [event EXCEPT ![u] = e] /\ pipe[u] = <<>>
      /\ e.ts <= now
      /\ DOMAIN pipe = Updaters /\ DOMAIN event = Updaters
  BY DEF Begin, store, StoreInv, Pipelines
<1>1. StoreTypeOK'
  <2>1. applies' \in 0..MaxApplies
    BY TimeAssumption DEF StoreInv, StoreTypeOK, Begin
  <2>2. e # None /\ Pipeline(e) # <<>>
    BY Windows, PipelineOrdered
  <2>3. \A v \in Updaters : /\ event'[v] \in Events \union {None}
                            /\ pipe'[v] # <<>> <=> event'[v] # None
    BY <1>0, <2>2 DEF StoreInv, StoreTypeOK
  <2> QED BY <1>0, <2>1, <2>3 DEF StoreInv, StoreTypeOK, store, values, Member
<1>2. Pipelines'
  BY <1>0, PipelineOrdered DEF StoreInv, Pipelines
<1>3. Past'
  BY <1>0 DEF StoreInv, Past, store, values, Member
<1>4. Unexpired'
  BY <1>0 DEF StoreInv, Unexpired, store
<1>5. CountersExpire'
  <2> SUFFICES ASSUME NEW k \in Expiring, Exists(k)'
               PROVE  expires'[k] > now' \/ k \in torn' \/ \E v \in Updaters : Unrenewed(v, k)'
    BY DEF CountersExpire
  <2>1. Exists(k)
    BY <1>0 DEF Exists, store, values
  <2>2. \A v \in Updaters : Unrenewed(v, k) => Unrenewed(v, k)'
    <3>1. ~Unrenewed(u, k)
      BY <1>0 DEF Unrenewed, Queued
    <3>2. \A v \in Updaters : v # u => pipe'[v] = pipe[v]
      BY <1>0
    <3> QED BY <3>1, <3>2 DEF Unrenewed
  <2> QED BY <1>0, <2>1, <2>2 DEF StoreInv, CountersExpire, store
\* A new update has run none of the commands that its event needs.
<1>6. ASSUME NEW f \in Events, NEW k \in Counters, NEW c \in {WriteOf(k), <<"EXPIRE", k>>},
             Has(f, k), Passed(f, c)'
      PROVE  Passed(f, c)
  <2>1. CASE f \in applied'
    BY <1>0, <2>1 DEF Passed
  <2>2. CASE f \notin applied'
    <3>1. PICK v \in Updaters : event'[v] = f /\ ~Queued(pipe'[v], c)
      BY <1>6, <2>2 DEF Passed, Queued
    <3>2. v # u
      <4> SUFFICES ASSUME v = u PROVE FALSE
        OBVIOUS
      <4>1. f = e /\ pipe'[v] = Pipeline(f)
        BY <1>0, <3>1
      <4> QED BY <1>6, <3>1, <4>1, PipelineOrdered
    <3> QED BY <1>0, <3>1, <3>2 DEF Passed
  <2> QED BY <2>1, <2>2
<1>7. Covering'
  BY <1>0, <1>6, CoveringKept
<1> QED BY <1>1, <1>2, <1>3, <1>4, <1>5, <1>7 DEF StoreInv

LEMMA BreakStep ==
  ASSUME StoreInv, NEW u \in Updaters, Break(u)
  PROVE  StoreInv'
<1>0. /\ UNCHANGED <<store, values>> /\ now' = now /\ applied' = applied /\ lapsed' = lapsed
      /\ torn' = torn \union {k \in Expiring : Unrenewed(u, k) /\ expires[k] = Never}
      /\ pipe' = [pipe EXCEPT ![u] = <<>>] /\ event' = [event EXCEPT ![u] = None]
      /\ DOMAIN pipe = Updaters /\ DOMAIN event = Updaters /\ applies' = applies
  BY DEF Break, store, StoreInv, Pipelines
<1>1. StoreTypeOK'
  <2>1. torn' \subseteq Expiring
    BY <1>0 DEF StoreInv, StoreTypeOK
  <2>2. \A v \in Updaters : /\ event'[v] \in Events \union {None}
                            /\ pipe'[v] # <<>> <=> event'[v] # None
    BY <1>0 DEF StoreInv, StoreTypeOK
  <2> QED BY <1>0, <2>1, <2>2 DEF StoreInv, StoreTypeOK, store, values, Member
<1>2. Pipelines'
  <2>1. Ordered(<<>>, 1, 12) /\ Paired(<<>>)
    BY DEF Ordered, Paired, Queued
  <2> QED BY <1>0, <2>1 DEF StoreInv, Pipelines
<1>3. Past'
  BY <1>0 DEF StoreInv, Past, store, values, Member
<1>4. Unexpired'
  BY <1>0 DEF StoreInv, Unexpired, store
<1>5. CountersExpire'
  <2> SUFFICES ASSUME NEW k \in Expiring, Exists(k)'
               PROVE  expires'[k] > now' \/ k \in torn' \/ \E v \in Updaters : Unrenewed(v, k)'
    BY DEF CountersExpire
  <2>1. Exists(k) /\ expires' = expires
    BY <1>0 DEF Exists, store, values
  <2>2. expires[k] > now \/ k \in torn \/ \E v \in Updaters : Unrenewed(v, k)
    BY <2>1 DEF StoreInv, CountersExpire
  <2>3. ASSUME NEW v \in Updaters, Unrenewed(v, k), v # u PROVE Unrenewed(v, k)'
    <3>1. pipe'[v] = pipe[v]
      BY <1>0, <2>3
    <3> QED BY <2>3, <3>1 DEF Unrenewed
  <2>4. ASSUME Unrenewed(u, k) PROVE k \in torn' \/ expires[k] > now
    BY <1>0, <2>4 DEF StoreInv, Unexpired
  <2> QED BY <1>0, <2>1, <2>2, <2>3, <2>4
<1>6. ASSUME NEW f \in Events, NEW c, Passed(f, c)' PROVE Passed(f, c)
  <2>1. CASE f \in applied'
    BY <1>0, <2>1 DEF Passed
  <2>2. CASE f \notin applied'
    <3>1. PICK v \in Updaters : event'[v] = f /\ ~Queued(pipe'[v], c)
      BY <1>6, <2>2 DEF Passed, Queued
    <3>2. v # u
      BY <1>0, <3>1, Windows
    <3> QED BY <1>0, <3>1, <3>2 DEF Passed
  <2> QED BY <2>1, <2>2
<1>7. Covering'
  BY <1>0, <1>6, CoveringKept
<1> QED BY <1>1, <1>2, <1>3, <1>4, <1>5, <1>7 DEF StoreInv

LEMMA TickStep ==
  ASSUME StoreInv, Tick
  PROVE  StoreInv'
<1> DEFINE gone == {k \in Expiring : expires[k] # Never /\ expires[k] <= now'}
<1>1. /\ now \in Nat /\ now' = now + 1 /\ now < MaxTime /\ MaxTime \in Nat
      /\ pipe' = pipe /\ event' = event /\ applied' = applied /\ applies' = applies
      /\ torn' = torn
  BY Windows, StoreTypes DEF Tick
<1>2. /\ history' = IF "history" \in gone THEN {} ELSE history
      /\ total' = IF "sum" \in gone THEN 0 ELSE total
      /\ sketch' = [k \in Sketches |-> IF k \in gone THEN {} ELSE sketch[k]]
      /\ lastTx' = IF "last" \in gone THEN 0 ELSE lastTx
      /\ session' = IF "session" \in gone THEN 0 ELSE session
      /\ expires' = [k \in Expiring |-> IF k \in gone THEN Never ELSE expires[k]]
      /\ lapsed' = lapsed \union
           {p \in Events \X gone : \E u \in Updaters : event[u] = p[1] /\ Unrenewed(u, p[2])}
  BY DEF Tick
<1>3. expires \in [Expiring -> Nat] /\ gone \subseteq Expiring
  BY StoreTypes
<1>4. \A k \in Expiring \ gone : expires[k] = Never \/ expires[k] > now'
  BY <1>1, <1>3
<1>5. ASSUME NEW k \in gone PROVE expires[k] <= now'
  OBVIOUS
<1> HIDE DEF gone
<1>6. StoreTypeOK'
  <2>1. now' \in 1..MaxTime /\ lastTx' \in 0..now' /\ session' \in 0..now'
    BY <1>1, <1>2 DEF StoreInv, StoreTypeOK
  <2>2. total' \in Nat /\ expires' \in [Expiring -> Nat]
    BY <1>2 DEF StoreInv, StoreTypeOK, Never
  <2>3. sketch' \in [Sketches -> SUBSET UNION {{e.device, e.ip} : e \in Events}]
    BY <1>2 DEF StoreInv, StoreTypeOK
  <2>4. lapsed' \subseteq Events \X Expiring
    BY <1>2, <1>3 DEF StoreInv, StoreTypeOK
  <2>5. history' \subseteq {Member(e) : e \in Events}
    BY <1>2 DEF StoreInv, StoreTypeOK
  <2> QED BY <1>1, <2>1, <2>2, <2>3, <2>4, <2>5 DEF StoreInv, StoreTypeOK, Member
<1>7. Pipelines'
  BY <1>1 DEF StoreInv, Pipelines
<1>8. Past'
  <2>1. \A u \in Updaters : event'[u] # None => event'[u].ts <= now'
    BY <1>1, StoreTypes, Windows
  <2>2. \A e \in applied' : e.ts <= now'
    BY <1>1, StoreTypes, Windows DEF StoreInv, Past
  <2>3. \A m \in history' : \E e \in Events : m = Member(e) /\ e.ts <= now'
    BY <1>1, <1>2, Windows DEF StoreInv, Past
  <2>4. lastTx' # 0 => \E e \in Events : e.ts = lastTx'
    BY <1>2 DEF StoreInv, Past
  <2> QED BY <2>1, <2>2, <2>3, <2>4 DEF Past, Member
<1>9. Unexpired'
  BY <1>2, <1>4 DEF Unexpired
<1>10. \A u \in Updaters : \A k : Unrenewed(u, k)' = Unrenewed(u, k)
  BY <1>1 DEF Unrenewed
<1>11. CountersExpire'
  <2> SUFFICES ASSUME NEW k \in Expiring, Exists(k)'
               PROVE  expires'[k] > now' \/ k \in torn' \/ \E v \in Updaters : Unrenewed(v, k)'
    BY DEF CountersExpire
  <2>1. k \notin gone /\ Exists(k)
    BY <1>2 DEF Exists, Sketches
  <2>2. expires'[k] = expires[k] /\ (expires[k] > now => expires[k] > now')
    BY <1>1, <1>2, <1>3, <1>4, <2>1 DEF Never
  <2> QED BY <1>1, <1>10, <2>1, <2>2 DEF StoreInv, CountersExpire
<1>12. \A e \in Events : \A c : Passed(e, c)' = Passed(e, c)
  BY <1>1 DEF Passed
<1>13. ASSUME NEW e \in Events, NEW k \in Counters, Due(e, k)' PROVE Due(e, k)
  BY <1>1, <1>2, <1>13, Windows DEF Due, Has, Item, Span
\* As time passes, a key that is to tell of an event stays.
<1>14. ASSUME NEW e \in Events, NEW k \in Counters, Due(e, k)', Passed(e, WriteOf(k))
       PROVE  k \notin gone
  <2> SUFFICES ASSUME k \in gone PROVE FALSE
    OBVIOUS
  <2>1. Due(e, k) /\ k \in Expiring /\ e.ts \in Nat /\ Span(k) \in Nat /\ e.ts > now' - Span(k)
    BY <1>13, <1>14, Windows DEF Due, Span
  <2>2. CASE Passed(e, <<"EXPIRE", k>>)
    <3>1. expires[k] >= e.ts + Span(k) /\ expires[k] \in Nat /\ expires[k] <= now'
      BY <1>3, <1>5, <2>1, <2>2 DEF StoreInv, Covering, Renewed
    <3> QED BY <1>1, <2>1, <3>1
  <2>3. CASE ~Passed(e, <<"EXPIRE", k>>)
    <3>1. PICK u \in Updaters : event[u] = e /\ ~Queued(pipe[u], WriteOf(k))
      BY <1>14, <2>3 DEF Passed
    <3>2. Unrenewed(u, k)
      BY <2>3, <3>1 DEF Passed, Unrenewed
    <3>3. <<e, k>> \in lapsed'
      BY <1>2, <3>1, <3>2
    <3> QED BY <1>14, <3>3 DEF Due
  <2> QED BY <2>2, <2>3
<1>15. Seen'
  <2> SUFFICES ASSUME NEW e \in Events, NEW k \in Counters, Due(e, k)', Passed(e, WriteOf(k))'
               PROVE  Tells(k, e)'
    BY DEF Seen, WriteOf
  <2>1. Due(e, k) /\ Passed(e, WriteOf(k)) /\ Tells(k, e) /\ k \notin gone
    BY <1>12, <1>13, <1>14 DEF StoreInv, Covering, Seen
  <2> QED BY <1>2, <2>1 DEF Tells, Member, Item
<1>16. Renewed'
  <2> SUFFICES ASSUME NEW e \in Events, NEW k \in Counters, Due(e, k)',
                      Passed(e, <<"EXPIRE", k>>)'
               PROVE  expires'[k] >= e.ts + Span(k)
    BY DEF Renewed, Span
  <2>1. Due(e, k) /\ Passed(e, <<"EXPIRE", k>>) /\ Passed(e, WriteOf(k))
    BY <1>12, <1>13, PassedBoth
  <2>2. expires[k] >= e.ts + Span(k) /\ k \notin gone
    BY <1>14, <2>1 DEF StoreInv, Covering, Renewed
  <2> QED BY <1>2, <2>2, Windows
<1>17. total' >= SumFunctionOnSet(Amounts, Summed')
  <2>1. Summed' \subseteq Summed
    BY <1>12, <1>13, Windows DEF Summed, WriteOf
  <2>2. SumFunctionOnSet(Amounts, Summed') \in Nat /\ SumFunctionOnSet(Amounts, Summed') <= total
    BY <2>1, SmallerSum
  <2>3. CASE Summed' = {}
    <3>1. SumFunctionOnSet(Amounts, Summed') = 0
      BY <2>3, SumEmpty
    <3> QED BY <1>2, <3>1, StoreTypes
  <2>4. CASE Summed' # {}
    <3>1. PICK e \in Events : Due(e, "sum")' /\ Passed(e, WriteOf("sum"))
      BY <1>12, <2>4 DEF Summed, WriteOf
    <3>2. "sum" \notin gone
      BY <1>14, <3>1, Windows
    <3> QED BY <1>2, <2>2, <3>2, StoreTypes
  <2> QED BY <2>3, <2>4
<1> QED BY <1>6, <1>7, <1>8, <1>9, <1>11, <1>15, <1>16, <1>17 DEF StoreInv, Covering, Amounts

\* A step of Redis: the command at the head of the pipeline of u.
Step(u) ==
  /\ pipe[u] # <<>>
  /\ pipe' = [pipe EXCEPT ![u] = Tail(@)]
  /\ IF Len(pipe[u]) = 1
     THEN /\ applied' = applied \union {event[u]}
          /\ event' = [event EXCEPT ![u] = None]
     ELSE applied' = applied /\ event' = event
  /\ now' = now /\ applies' = applies /\ lapsed' = lapsed

\* The pipelines move on, whatever the command does.
LEMMA StepPipelines ==
  ASSUME StoreInv, NEW u \in Updaters, Step(u)
  PROVE  /\ Pipelines' /\ event[u] \in Events /\ event[u].ts <= now
         /\ Head(pipe[u]) \in Commands
         /\ applied' \subseteq Events /\ \A e \in applied' : e.ts <= now
         /\ \A v \in Updaters :
              /\ event'[v] \in Events \union {None}
              /\ pipe'[v] # <<>> <=> event'[v] # None
              /\ event'[v] # None => event'[v].ts <= now
         /\ \A k \in Counters :
              /\ Head(pipe[u]) = WriteOf(k) => Unrenewed(u, k)'
              /\ Head(pipe[u]) = <<"EXPIRE", k>> => ~Queued(pipe[u], WriteOf(k))
         /\ \A v \in Updaters, k \in Expiring :
              Unrenewed(v, k) /\ Head(pipe[u]) # <<"EXPIRE", k>> => Unrenewed(v, k)'
<1>1. /\ pipe[u] # <<>> /\ event[u] \in Events /\ event[u].ts <= now
      /\ Ordered(pipe[u], 1, 12) /\ Paired(pipe[u])
  BY StoreTypes DEF StoreInv, Pipelines, Step
<1>2. /\ pipe' = [v \in Updaters |-> IF v = u THEN Tail(pipe[u]) ELSE pipe[v]]
      /\ event' = [v \in Updaters |-> IF v = u /\ Len(pipe[u]) = 1 THEN None ELSE event[v]]
  BY DEF StoreInv, Pipelines, Step
<1>3. /\ Ordered(Tail(pipe[u]), 1, 12) /\ Paired(Tail(pipe[u])) /\ Head(pipe[u]) \in Commands
      /\ Tail(pipe[u]) = <<>> <=> Len(pipe[u]) = 1
      /\ \A x : Queued(pipe[u], x) <=> x = Head(pipe[u]) \/ Queued(Tail(pipe[u]), x)
      /\ ~Queued(Tail(pipe[u]), Head(pipe[u]))
      /\ \A k \in Counters : Head(pipe[u]) = <<"EXPIRE", k>> => ~Queued(pipe[u], WriteOf(k))
  BY <1>1, TailOrdered
<1>4. Pipelines'
  BY <1>2, <1>3 DEF StoreInv, Pipelines
<1>5. ASSUME NEW v \in Updaters
      PROVE  /\ event'[v] \in Events \union {None}
             /\ pipe'[v] # <<>> <=> event'[v] # None
             /\ event'[v] # None => event'[v].ts <= now
  BY <1>1, <1>2, <1>3, StoreTypes
<1>6. applied' \subseteq Events /\ \A e \in applied' : e.ts <= now
  BY <1>1, StoreTypes DEF StoreInv, Past, Step
<1>7. ASSUME NEW k \in Counters, Head(pipe[u]) = WriteOf(k)
      PROVE  Unrenewed(u, k)'
  <2>1. Queued(pipe[u], WriteOf(k)) /\ Queued(pipe[u], <<"EXPIRE", k>>)
    BY <1>1, <1>3, <1>7 DEF Paired
  <2>2. <<"EXPIRE", k>> # WriteOf(k)
    BY Ranks
  <2>3. Queued(Tail(pipe[u]), <<"EXPIRE", k>>) /\ ~Queued(Tail(pipe[u]), WriteOf(k))
    BY <1>3, <1>7, <2>1, <2>2
  <2>4. pipe'[u] = Tail(pipe[u])
    BY <1>2
  <2> QED BY <2>3, <2>4 DEF Unrenewed, WriteOf
<1>8. ASSUME NEW v \in Updaters, NEW k \in Expiring, Unrenewed(v, k),
             Head(pipe[u]) # <<"EXPIRE", k>>
      PROVE  Unrenewed(v, k)'
  <2>1. Queued(pipe[v], <<"EXPIRE", k>>) /\ ~Queued(pipe[v], WriteOf(k))
    BY <1>8 DEF Unrenewed
  <2>2. Queued(pipe'[v], <<"EXPIRE", k>>) /\ ~Queued(pipe'[v], WriteOf(k))
    <3>1. CASE v = u
      BY <1>2, <1>3, <1>8, <2>1, <3>1
    <3>2. CASE v # u
      BY <1>2, <2>1, <3>2
    <3> QED BY <3>1, <3>2
  <2> QED BY <2>2 DEF Unrenewed, WriteOf
<1> QED BY <1>1, <1>3, <1>4, <1>5, <1>6, <1>7, <1>8

\* A command that Redis runs is passed by one event, and no other is.
LEMMA PassedStep ==
  ASSUME StoreInv, NEW u \in Updaters, Step(u), NEW e \in Events, NEW c, Passed(e, c)'
  PROVE  Passed(e, c) \/ (e = event[u] /\ c = Head(pipe[u]))
<1>1. /\ pipe[u] # <<>> /\ Ordered(pipe[u], 1, 12) /\ Paired(pipe[u])
      /\ DOMAIN pipe = Updaters /\ DOMAIN event = Updaters
      /\ pipe' = [pipe EXCEPT ![u] = Tail(@)] /\ e # None
  BY Windows DEF Step, StoreInv, Pipelines
<1>2. /\ Queued(pipe[u], c) => c = Head(pipe[u]) \/ Queued(Tail(pipe[u]), c)
      /\ Len(pipe[u]) = 1 <=> Tail(pipe[u]) = <<>>
      /\ ~Queued(<<>>, c)
  <2>1. ~Queued(<<>>, c)
    BY DEF Queued
  <2>2. /\ Queued(pipe[u], c) => c = Head(pipe[u]) \/ Queued(Tail(pipe[u]), c)
        /\ Len(pipe[u]) = 1 <=> Tail(pipe[u]) = <<>>
    BY <1>1, TailOrdered
  <2> QED BY <2>1, <2>2
<1>3. CASE e \in applied
  BY <1>3 DEF Passed
<1>4. CASE e \in applied' /\ e \notin applied
  <2>1. Len(pipe[u]) = 1 /\ e = event[u]
    BY <1>4 DEF Step
  <2> QED BY <1>2, <2>1 DEF Passed
<1>5. CASE e \notin applied'
  <2>1. PICK v \in Updaters : event'[v] = e /\ ~Queued(pipe'[v], c)
    BY <1>5 DEF Passed, Queued
  <2>2. event[v] = e
    BY <1>1, <2>1 DEF Step
  <2>3. CASE v = u
    BY <1>1, <1>2, <2>1, <2>2, <2>3 DEF Passed
  <2>4. CASE v # u
    BY <1>1, <2>1, <2>2, <2>4 DEF Passed
  <2> QED BY <2>3, <2>4
<1> QED BY <1>3, <1>4, <1>5

\* What a command must leave of the values, for the types and the past.
ValuesOK(h, t, sk, l, s, x, tn) ==
  /\ h \subseteq {Member(e) : e \in Events}
  /\ \A m \in h : \E e \in Events : m = Member(e) /\ e.ts <= now
  /\ t \in Nat
  /\ sk \in [Sketches -> SUBSET UNION {{e.device, e.ip} : e \in Events}]
  /\ l \in 0..now /\ (l # 0 => \E e \in Events : e.ts = l)
  /\ s \in 0..now
  /\ x \in [Expiring -> Nat]
  /\ tn \subseteq Expiring

LEMMA StepTypes ==
  ASSUME StoreInv, NEW u \in Updaters, Step(u),
         ValuesOK(history', total', sketch', lastTx', session', expires', torn')
  PROVE  StoreTypeOK' /\ Past'
<1>1. now' = now /\ now' \in 1..MaxTime /\ applies' \in 0..MaxApplies
      /\ lapsed' \subseteq Events \X Expiring
  BY DEF StoreInv, StoreTypeOK, Step
<1>2. /\ applied' \subseteq Events /\ \A e \in applied' : e.ts <= now
      /\ \A v \in Updaters : /\ event'[v] \in Events \union {None}
                             /\ pipe'[v] # <<>> <=> event'[v] # None
                             /\ event'[v] # None => event'[v].ts <= now
  BY StepPipelines
<1>3. StoreTypeOK'
  BY <1>1, <1>2 DEF ValuesOK, StoreTypeOK, Member
<1>4. Past'
  BY <1>1, <1>2 DEF ValuesOK, Past, Member
<1> QED BY <1>3, <1>4

\* A key that is there after a command was just written, or has just got its
\* expiry, or is covered as it was.
LEMMA StepExpires ==
  ASSUME StoreInv, NEW u \in Updaters, Step(u),
         \A k \in Expiring : Exists(k)' =>
           \/ expires'[k] > now
           \/ k \in Counters /\ Head(pipe[u]) = WriteOf(k)
           \/ /\ Exists(k) /\ expires'[k] = expires[k]
              /\ Head(pipe[u]) # <<"EXPIRE", k>> /\ (k \in torn => k \in torn')
  PROVE  CountersExpire'
<1> SUFFICES ASSUME NEW k \in Expiring, Exists(k)'
             PROVE  expires'[k] > now' \/ k \in torn' \/ \E v \in Updaters : Unrenewed(v, k)'
  BY DEF CountersExpire
<1>1. now' = now
  BY DEF Step
<1>2. CASE k \in Counters /\ Head(pipe[u]) = WriteOf(k)
  BY <1>2, StepPipelines
<1>3. CASE /\ Exists(k) /\ expires'[k] = expires[k]
           /\ Head(pipe[u]) # <<"EXPIRE", k>> /\ (k \in torn => k \in torn')
  <2>1. expires[k] > now \/ k \in torn \/ \E v \in Updaters : Unrenewed(v, k)
    BY <1>3 DEF StoreInv, CountersExpire
  <2>2. \A v \in Updaters : Unrenewed(v, k) => Unrenewed(v, k)'
    BY <1>3, StepPipelines
  <2> QED BY <1>1, <1>3, <2>1, <2>2
<1> QED BY <1>1, <1>2, <1>3

\* What the keys tell after a command: no less of what passed their writes, and
\* what the command wrote of its own event.
LEMMA StepTells ==
  ASSUME StoreInv, NEW u \in Updaters, Step(u),
         \A e \in Events, k \in Counters : Due(e, k) /\ Tells(k, e) => Tells(k, e)',
         \A e \in Events, k \in Counters :
           e = event[u] /\ Head(pipe[u]) = WriteOf(k) /\ Due(e, k) => Tells(k, e)'
  PROVE  Seen'
<1> SUFFICES ASSUME NEW e \in Events, NEW k \in Counters, Due(e, k)', Passed(e, WriteOf(k))'
             PROVE  Tells(k, e)'
  BY DEF Seen, WriteOf
<1>1. Due(e, k)
  BY DEF Due, Has, Item, Span, Step
<1>2. Passed(e, WriteOf(k)) \/ (e = event[u] /\ WriteOf(k) = Head(pipe[u]))
  BY PassedStep DEF WriteOf
<1>3. CASE Passed(e, WriteOf(k))
  BY <1>1, <1>3 DEF StoreInv, Covering, Seen
<1>4. CASE e = event[u] /\ WriteOf(k) = Head(pipe[u])
  BY <1>1, <1>4
<1> QED BY <1>2, <1>3, <1>4

\* How long they live: no shorter, and for its window when the command is the
\* EXPIRE.
LEMMA StepRenews ==
  ASSUME StoreInv, NEW u \in Updaters, Step(u),
         \A e \in Events, k \in Counters :
           Due(e, k) /\ e.ts <= now /\ Passed(e, WriteOf(k)) /\ expires[k] >= e.ts + Span(k) =>
             expires'[k] >= e.ts + Span(k),
         \A k \in Counters : Head(pipe[u]) = <<"EXPIRE", k>> /\ Exists(k) =>
           expires'[k] = now + Life[k]
  PROVE  Renewed'
<1> SUFFICES ASSUME NEW e \in Events, NEW k \in Counters, Due(e, k)',
                    Passed(e, <<"EXPIRE", k>>)'
             PROVE  expires'[k] >= e.ts + Span(k)
  BY DEF Renewed, Span
<1>1. Due(e, k)
  BY DEF Due, Has, Item, Span, Step
<1>2. Passed(e, <<"EXPIRE", k>>) \/ (e = event[u] /\ <<"EXPIRE", k>> = Head(pipe[u]))
  BY PassedStep
<1>3. CASE Passed(e, <<"EXPIRE", k>>)
  <2>1. expires[k] >= e.ts + Span(k)
    BY <1>1, <1>3 DEF StoreInv, Covering, Renewed
  <2>2. e.ts <= now /\ Passed(e, WriteOf(k))
    BY <1>3, PassedTookPlace, PassedBoth
  <2> QED BY <1>1, <2>1, <2>2
<1>4. CASE e = event[u] /\ <<"EXPIRE", k>> = Head(pipe[u])
  <2>1. ~Queued(pipe[u], WriteOf(k)) /\ e.ts <= now
    BY <1>4, StepPipelines
  <2>2. Passed(e, WriteOf(k))
    BY <1>4, <2>1 DEF Passed
  <2>3. Exists(k)
    BY <1>1, <2>2, KeyExists
  <2>4. /\ expires'[k] = now + Life[k] /\ now \in Nat /\ e.ts \in Nat
        /\ Life[k] \in Nat /\ Span(k) \in Nat /\ Span(k) <= Life[k]
    BY <1>4, <2>3, StoreTypes, Windows
  <2> QED BY <2>1, <2>4
<1> QED BY <1>2, <1>3, <1>4

\* And the sum, which INCRBY raises by the amount of its event.
LEMMA StepSums ==
  ASSUME StoreInv, NEW u \in Updaters, Step(u), total' \in Nat,
         total' = IF Head(pipe[u]) = WriteOf("sum") THEN total + event[u].amount ELSE total
  PROVE  total' >= SumFunctionOnSet(Amounts, Summed')
<1> DEFINE f == event[u]
           all == Summed \union {f}
<1>1. \A e \in Summed' : e \in Summed \/ (e = f /\ WriteOf("sum") = Head(pipe[u]))
  <2> SUFFICES ASSUME NEW e \in Events, Due(e, "sum")', Passed(e, WriteOf("sum"))'
               PROVE  e \in Summed \/ (e = f /\ WriteOf("sum") = Head(pipe[u]))
    BY DEF Summed, WriteOf
  <2>1. Due(e, "sum")
    BY DEF Due, Has, Item, Span, Step
  <2> QED BY <2>1, PassedStep DEF Summed
<1>2. CASE Head(pipe[u]) # WriteOf("sum")
  <2>1. Summed' \subseteq Summed
    BY <1>1, <1>2
  <2>2. SumFunctionOnSet(Amounts, Summed') \in Nat /\ SumFunctionOnSet(Amounts, Summed') <= total
    BY <2>1, SmallerSum
  <2> QED BY <1>2, <2>2, StoreTypes
<1>3. CASE Head(pipe[u]) = WriteOf("sum")
  <2>1. /\ f \in Events /\ IsFiniteSet(Summed) /\ Summed \subseteq Events
        /\ Amounts[f] = f.amount /\ \A e \in Events : Amounts[e] \in Nat
    BY StepPipelines, StoreTypes
  <2>2. IsFiniteSet(all) /\ all \subseteq Events
    BY <2>1, FS_AddElement
  <2>3. Summed' \subseteq all
    BY <1>1
  <2>4. IsFiniteSet(Summed')
    BY <2>2, <2>3, FS_Subset
  <2> HIDE DEF f, all
  <2>5. /\ SumFunctionOnSet(Amounts, Summed) \in Nat
        /\ SumFunctionOnSet(Amounts, Summed) <= total
    BY SmallerSum
  <2>6. SumFunctionOnSet(Amounts, all) \in Nat
    BY <2>1, <2>2, SumNat
  <2>7. SumFunctionOnSet(Amounts, all) <= SumFunctionOnSet(Amounts, Summed) + Amounts[f]
    <3>1. CASE f \in Summed
      <4>1. all = Summed
        BY <3>1 DEF all
      <4> QED BY <2>1, <2>5, <4>1
    <3>2. CASE f \notin Summed
      <4>1. Amounts[f] \in Int /\ \A e \in Summed : Amounts[e] \in Int
        BY <2>1
      <4>2. SumFunctionOnSet(Amounts, all) = SumFunctionOnSet(Amounts, Summed) + Amounts[f]
        BY <2>1, <3>2, <4>1, SumAdd DEF all
      <4> QED BY <2>6, <4>2
    <3> QED BY <3>1, <3>2
  <2>8. SumFunctionOnSet(Amounts, Summed') <= SumFunctionOnSet(Amounts, all)
    BY <2>1, <2>2, <2>3, SumMonotone
  <2>9. SumFunctionOnSet(Amounts, Summed') \in Nat
    BY <2>1, <2>2, <2>3, <2>4, SumNat
  <2>10. total' = total + Amounts[f] /\ total \in Nat
    BY <1>3, <2>1, StoreTypes DEF f
  <2> QED BY <2>1, <2>5, <2>6, <2>7, <2>8, <2>9, <2>10
<1> QED BY <1>2, <1>3

\* The facts about the values before a command that its effect is judged by.
LEMMA Before ==
  ASSUME StoreInv
  PROVE  /\ ValuesOK(history, total, sketch, lastTx, session, expires, torn)
         /\ Unexpired /\ now \in Nat /\ now > 0
<1>1. /\ \A m \in history : \E e \in Events : m = Member(e) /\ e.ts <= now
      /\ lastTx # 0 => \E e \in Events : e.ts = lastTx
  BY DEF StoreInv, Past
<1> QED BY <1>1, StoreTypes DEF StoreInv, StoreTypeOK, ValuesOK

LEMMA ZAddStep ==
  ASSUME StoreInv, NEW u \in Updaters, Step(u), Head(pipe[u]) = WriteOf("history"),
         ZAdd(event[u])
  PROVE  StoreInv'
<1> DEFINE e == event[u]
<1>1. /\ history' = history \union {Member(e)} /\ total' = total /\ sketch' = sketch
      /\ lastTx' = lastTx /\ session' = session /\ expires' = expires /\ torn' = torn
      /\ now' = now
  BY DEF ZAdd, Step
<1>2. e \in Events /\ e.ts <= now
  BY StepPipelines
<1>3. \A k \in Counters : Head(pipe[u]) = WriteOf(k) => k = "history"
  BY Ranks, Windows
<1>4. \A k \in Expiring : Head(pipe[u]) # <<"EXPIRE", k>>
  BY Ranks
<1> HIDE DEF e
<1>5. ValuesOK(history', total', sketch', lastTx', session', expires', torn')
  BY <1>1, <1>2, Before DEF ValuesOK
<1>6. StoreTypeOK' /\ Past'
  BY <1>5, StepTypes
<1>7. Unexpired'
  BY <1>1, Before DEF Unexpired
<1>8. CountersExpire'
  <2>1. \A k \in Expiring : Exists(k)' =>
          \/ k \in Counters /\ Head(pipe[u]) = WriteOf(k)
          \/ Exists(k)
    BY <1>1, Windows DEF Exists
  <2> QED BY <1>1, <1>4, <2>1, StepExpires
<1>9. Seen'
  <2>1. \A f \in Events, k \in Counters : Due(f, k) /\ Tells(k, f) => Tells(k, f)'
    BY <1>1 DEF Tells, Member, Item
  <2>2. \A f \in Events, k \in Counters :
          f = event[u] /\ Head(pipe[u]) = WriteOf(k) /\ Due(f, k) => Tells(k, f)'
    BY <1>1, <1>3, Windows DEF Tells, Member, e
  <2> QED BY <2>1, <2>2, StepTells
<1>10. Renewed'
  BY <1>1, <1>4, Windows, StepRenews
<1>11. total' >= SumFunctionOnSet(Amounts, Summed')
  BY <1>1, <1>3, Windows, StoreTypes, StepSums
<1> QED BY <1>6, <1>7, <1>8, <1>9, <1>10, <1>11, StepPipelines DEF StoreInv, Covering, Amounts

LEMMA ZRemStep ==
  ASSUME StoreInv, NEW u \in Updaters, Step(u), Head(pipe[u]) = <<"ZREM", "history">>,
         ZRemRangeByScore(event[u])
  PROVE  StoreInv'
<1> DEFINE e == event[u]
<1>1. /\ history' = {m \in history : ~(m.ts <= e.ts - Hour)} /\ total' = total
      /\ sketch' = sketch /\ lastTx' = lastTx /\ session' = session /\ torn' = torn
      /\ expires' = IF history' = {} THEN [expires EXCEPT !["history"] = Never] ELSE expires
      /\ now' = now
  BY DEF ZRemRangeByScore, Outdated, Step
<1>2. e \in Events /\ e.ts <= now /\ e.ts \in Nat
  BY StepPipelines, Windows
<1>3. \A k \in Counters : Head(pipe[u]) # WriteOf(k)
  BY Ranks DEF Counters
<1>4. \A k \in Expiring : Head(pipe[u]) # <<"EXPIRE", k>>
  OBVIOUS
<1> HIDE DEF e
<1>5. expires' \in [Expiring -> Nat] /\ \A k \in Expiring :
        expires'[k] = IF k = "history" /\ history' = {} THEN Never ELSE expires[k]
  BY <1>1, Before, Windows DEF ValuesOK, Never
<1>6. ValuesOK(history', total', sketch', lastTx', session', expires', torn')
  BY <1>1, <1>5, Before DEF ValuesOK
<1>7. StoreTypeOK' /\ Past'
  BY <1>6, StepTypes
<1>8. Unexpired'
  BY <1>1, <1>5, Before DEF Unexpired
<1>9. CountersExpire'
  <2>1. \A k \in Expiring : Exists(k)' => Exists(k) /\ expires'[k] = expires[k]
    BY <1>1, <1>5, Windows DEF Exists
  <2> QED BY <1>1, <1>4, <2>1, StepExpires
\* The cleanup spares what lies in the last hour.
<1>10. ASSUME NEW f \in Events, Due(f, "history"), Member(f) \in history
       PROVE  Member(f) \in history'
  <2>1. f.ts > now - Hour /\ Member(f).ts = f.ts /\ f.ts \in Nat
    BY <1>10, Windows DEF Due, Span, Member
  <2> QED BY <1>1, <1>2, <1>10, <2>1, Windows, Before
<1>11. Seen'
  <2>1. \A f \in Events, k \in Counters : Due(f, k) /\ Tells(k, f) => Tells(k, f)'
    BY <1>1, <1>10 DEF Tells, Member, Item
  <2> QED BY <1>3, <2>1, StepTells
<1>12. Renewed'
  <2>1. ASSUME NEW f \in Events, NEW k \in Counters, Due(f, k), Passed(f, WriteOf(k))
        PROVE  expires'[k] = expires[k]
    <3>1. k = "history" => Member(f) \in history'
      BY <1>10, <2>1 DEF StoreInv, Covering, Seen, Tells
    <3> QED BY <1>5, <3>1, Windows
  <2> QED BY <1>4, <2>1, Windows, StepRenews
<1>13. total' >= SumFunctionOnSet(Amounts, Summed')
  BY <1>1, <1>3, Windows, StoreTypes, StepSums
<1> QED BY <1>7, <1>8, <1>9, <1>11, <1>12, <1>13, StepPipelines DEF StoreInv, Covering, Amounts

LEMMA IncrByStep ==
  ASSUME StoreInv, NEW u \in Updaters, Step(u), Head(pipe[u]) = WriteOf("sum"),
         IncrBy(event[u])
  PROVE  StoreInv'
<1> DEFINE e == event[u]
<1>1. /\ history' = history /\ total' = total + e.amount /\ sketch' = sketch
      /\ lastTx' = lastTx /\ session' = session /\ expires' = expires /\ torn' = torn
      /\ now' = now
  BY DEF IncrBy, Step
<1>2. e \in Events /\ e.amount \in Nat
  BY StepPipelines, Windows
<1>3. \A k \in Counters : Head(pipe[u]) = WriteOf(k) => k = "sum"
  BY Ranks, Windows
<1>4. \A k \in Expiring : Head(pipe[u]) # <<"EXPIRE", k>>
  BY Ranks
<1>5. ValuesOK(history', total', sketch', lastTx', session', expires', torn')
  BY <1>1, <1>2, Before DEF ValuesOK
<1>6. StoreTypeOK' /\ Past'
  BY <1>5, StepTypes
<1>7. Unexpired'
  BY <1>1, Before DEF Unexpired
<1>8. CountersExpire'
  <2>1. \A k \in Expiring : Exists(k)' =>
          \/ k \in Counters /\ Head(pipe[u]) = WriteOf(k)
          \/ Exists(k)
    BY <1>1, Windows DEF Exists
  <2> QED BY <1>1, <1>4, <2>1, StepExpires
<1>9. Seen'
  <2>1. \A f \in Events, k \in Counters : Due(f, k) /\ Tells(k, f) => Tells(k, f)'
    BY <1>1 DEF Tells, Member, Item
  <2>2. \A f \in Events, k \in Counters :
          f = event[u] /\ Head(pipe[u]) = WriteOf(k) /\ Due(f, k) => Tells(k, f)'
    BY <1>3, Windows DEF Tells
  <2> QED BY <2>1, <2>2, StepTells
<1>10. Renewed'
  BY <1>1, <1>4, Windows, StepRenews
<1>11. total' >= SumFunctionOnSet(Amounts, Summed')
  <2>1. total' \in Nat
    BY <1>1, <1>2, StoreTypes
  <2> QED BY <1>1, <2>1, StepSums
<1> QED BY <1>6, <1>7, <1>8, <1>9, <1>10, <1>11, StepPipelines DEF StoreInv, Covering, Amounts

LEMMA PFAddStep ==
  ASSUME StoreInv, NEW u \in Updaters, Step(u), NEW j \in Sketches,
         Head(pipe[u]) = WriteOf(j), PFAdd(event[u], j)
  PROVE  StoreInv'
<1> DEFINE e == event[u]
<1>1. /\ history' = history /\ total' = total /\ lastTx' = lastTx /\ session' = session
      /\ expires' = expires /\ torn' = torn /\ now' = now
      /\ sketch' = [sketch EXCEPT ![j] = @ \union {Item(e, j)}]
  BY DEF PFAdd, Item, Step
<1>2. e \in Events /\ Item(e, j) \in {e.device, e.ip}
  BY StepPipelines DEF Item
<1>3. \A k \in Counters : Head(pipe[u]) = WriteOf(k) => k = j
  BY Ranks, Windows
<1>4. \A k \in Expiring : Head(pipe[u]) # <<"EXPIRE", k>>
  BY Ranks, Windows
<1>5. sketch' \in [Sketches -> SUBSET UNION {{f.device, f.ip} : f \in Events}]
  <2>1. Item(e, j) \in UNION {{f.device, f.ip} : f \in Events}
    BY <1>2
  <2> HIDE DEF e
  <2> QED BY <1>1, <2>1, Before DEF ValuesOK
<1> HIDE DEF e
<1>6. \A i \in Sketches : sketch'[i] = IF i = j THEN sketch[i] \union {Item(e, i)} ELSE sketch[i]
  BY <1>1, Before DEF ValuesOK
<1>7. ValuesOK(history', total', sketch', lastTx', session', expires', torn')
  BY <1>1, <1>5, Before DEF ValuesOK
<1>8. StoreTypeOK' /\ Past'
  BY <1>7, StepTypes
<1>9. Unexpired'
  BY <1>1, Before DEF Unexpired
<1>10. CountersExpire'
  <2>1. \A k \in Expiring : Exists(k)' =>
          \/ k \in Counters /\ Head(pipe[u]) = WriteOf(k)
          \/ Exists(k)
    BY <1>1, <1>6, Windows DEF Exists
  <2> QED BY <1>1, <1>4, <2>1, StepExpires
<1>11. Seen'
  <2>1. \A f \in Events, k \in Counters : Due(f, k) /\ Tells(k, f) => Tells(k, f)'
    BY <1>1, <1>6 DEF Tells, Member, Item
  <2>2. \A f \in Events, k \in Counters :
          f = event[u] /\ Head(pipe[u]) = WriteOf(k) /\ Due(f, k) => Tells(k, f)'
    BY <1>3, <1>6, Windows DEF Tells, Item, e
  <2> QED BY <2>1, <2>2, StepTells
<1>12. Renewed'
  BY <1>1, <1>4, Windows, StepRenews
<1>13. total' >= SumFunctionOnSet(Amounts, Summed')
  BY <1>1, <1>3, Windows, StoreTypes, StepSums
<1> QED BY <1>8, <1>9, <1>10, <1>11, <1>12, <1>13, StepPipelines DEF StoreInv, Covering, Amounts

LEMMA ExpireStep ==
  ASSUME StoreInv, NEW u \in Updaters, Step(u), NEW j \in Counters,
         Head(pipe[u]) = <<"EXPIRE", j>>, Expire(j)
  PROVE  StoreInv'
<1>1. /\ history' = history /\ total' = total /\ sketch' = sketch /\ lastTx' = lastTx
      /\ session' = session /\ now' = now /\ torn' = torn \ {j}
      /\ expires' = IF Exists(j) THEN [expires EXCEPT ![j] = now + Life[j]] ELSE expires
      /\ j \in Expiring
  BY Windows DEF Expire, Step, values
<1>2. /\ expires' \in [Expiring -> Nat]
      /\ \A k \in Expiring :
           expires'[k] = IF k = j /\ Exists(j) THEN now + Life[j] ELSE expires[k]
  BY <1>1, Before, Windows DEF ValuesOK
<1>3. \A k \in Counters : Head(pipe[u]) # WriteOf(k)
  <2>1. Head(pipe[u])[1] = "EXPIRE"
    OBVIOUS
  <2> QED BY <2>1, Ranks
<1>4. ValuesOK(history', total', sketch', lastTx', session', expires', torn')
  BY <1>1, <1>2, Before DEF ValuesOK
<1>5. StoreTypeOK' /\ Past'
  BY <1>4, StepTypes
<1>6. Life[j] \in Nat /\ Life[j] > 0
  BY <1>1, Windows
<1>7. Unexpired'
  BY <1>1, <1>2, <1>6, Before DEF Unexpired
<1>8. CountersExpire'
  <2>1. \A k \in Expiring : Exists(k)' => Exists(k)
    BY <1>1 DEF Exists
  <2>2. ASSUME NEW k \in Expiring, Exists(k)'
        PROVE  \/ expires'[k] > now
               \/ /\ Exists(k) /\ expires'[k] = expires[k]
                  /\ Head(pipe[u]) # <<"EXPIRE", k>> /\ (k \in torn => k \in torn')
    <3>1. CASE k = j
      BY <1>2, <1>6, <2>1, <2>2, <3>1, Before
    <3>2. CASE k # j
      BY <1>1, <1>2, <2>1, <2>2, <3>2
    <3> QED BY <3>1, <3>2
  <2> QED BY <2>2, StepExpires
<1>9. Seen'
  <2>1. \A f \in Events, k \in Counters : Due(f, k) /\ Tells(k, f) => Tells(k, f)'
    BY <1>1 DEF Tells, Member, Item
  <2> QED BY <1>3, <2>1, StepTells
<1>10. Renewed'
  <2>1. ASSUME NEW f \in Events, NEW k \in Counters, f.ts <= now,
               expires[k] >= f.ts + Span(k)
        PROVE  expires'[k] >= f.ts + Span(k)
    <3>1. k \in Expiring /\ f.ts \in Nat /\ Span(k) \in Nat /\ Span(k) <= Life[k]
      BY Windows
    <3> QED BY <1>2, <1>6, <2>1, <3>1, Before
  <2>2. \A k \in Counters : Head(pipe[u]) = <<"EXPIRE", k>> /\ Exists(k) =>
          expires'[k] = now + Life[k]
    BY <1>1, <1>2
  <2> QED BY <2>1, <2>2, StepRenews
<1>11. total' >= SumFunctionOnSet(Amounts, Summed')
  BY <1>1, <1>3, Windows, StoreTypes, StepSums
<1> QED BY <1>5, <1>7, <1>8, <1>9, <1>10, <1>11, StepPipelines DEF StoreInv, Covering, Amounts

LEMMA SetStep ==
  ASSUME StoreInv, NEW u \in Updaters, Step(u), Head(pipe[u]) = <<"SET", "last">>,
         Set(event[u])
  PROVE  StoreInv'
<1> DEFINE e == event[u]
<1>1. /\ history' = history /\ total' = total /\ sketch' = sketch /\ lastTx' = e.ts
      /\ session' = session /\ now' = now /\ torn' = torn
      /\ expires' = [expires EXCEPT !["last"] = now + Life["last"]]
  BY DEF Set, Step
<1>2. e \in Events /\ e.ts <= now /\ e.ts \in Nat
  BY StepPipelines, Windows
<1>3. /\ \A k \in Counters : Head(pipe[u]) # WriteOf(k)
      /\ \A k \in Expiring : Head(pipe[u]) # <<"EXPIRE", k>>
  <2>1. Head(pipe[u])[1] = "SET" /\ Head(pipe[u])[2] = "last"
    OBVIOUS
  <2>2. \A k \in Counters : WriteOf(k)[2] # "last"
    BY Ranks, Windows
  <2>3. \A k \in Expiring : <<"EXPIRE", k>>[1] # "SET"
    OBVIOUS
  <2> QED BY <2>1, <2>2, <2>3
<1> HIDE DEF e
<1>4. Life["last"] \in Nat /\ Life["last"] > 0
  BY Windows
<1>5. /\ expires' \in [Expiring -> Nat]
      /\ \A k \in Expiring :
           expires'[k] = IF k = "last" THEN now + Life["last"] ELSE expires[k]
  BY <1>1, <1>4, Before, Windows DEF ValuesOK
<1>6. ValuesOK(history', total', sketch', lastTx', session', expires', torn')
  BY <1>1, <1>2, <1>5, Before DEF ValuesOK
<1>7. StoreTypeOK' /\ Past'
  BY <1>6, StepTypes
<1>8. Unexpired'
  BY <1>1, <1>4, <1>5, Before DEF Unexpired
<1>9. CountersExpire'
  <2>1. \A k \in Expiring : Exists(k)' => k = "last" \/ Exists(k)
    BY <1>1 DEF Exists
  <2>2. expires'["last"] > now
    BY <1>4, <1>5, Before, Windows
  <2> QED BY <1>1, <1>3, <1>5, <2>1, <2>2, StepExpires
<1>10. Seen'
  <2>1. \A f \in Events, k \in Counters : Due(f, k) /\ Tells(k, f) => Tells(k, f)'
    BY <1>1 DEF Tells, Member, Item
  <2> QED BY <1>3, <2>1, StepTells
<1>11. Renewed'
  BY <1>3, <1>5, Windows, StepRenews
<1>12. total' >= SumFunctionOnSet(Amounts, Summed')
  BY <1>1, <1>3, Windows, StoreTypes, StepSums
<1> QED BY <1>7, <1>8, <1>9, <1>10, <1>11, <1>12, StepPipelines DEF StoreInv, Covering, Amounts

LEMMA SetNXStep ==
  ASSUME StoreInv, NEW u \in Updaters, Step(u), Head(pipe[u]) = WriteOf("session"),
         SetNX(event[u])
  PROVE  StoreInv'
<1> DEFINE e == event[u]
<1>1. /\ history' = history /\ total' = total /\ sketch' = sketch /\ lastTx' = lastTx
      /\ now' = now /\ torn' = torn
      /\ session' = IF session # 0 THEN session ELSE e.ts
      /\ expires' = IF session # 0 THEN expires
                    ELSE [expires EXCEPT !["session"] = now + Life["session"]]
  BY DEF SetNX, Step
<1>2. e \in Events /\ e.ts <= now /\ e.ts \in Nat /\ e.ts > 0
  BY StepPipelines, Windows
<1>3. /\ \A k \in Counters : Head(pipe[u]) = WriteOf(k) => k = "session"
      /\ \A k \in Expiring : Head(pipe[u]) # <<"EXPIRE", k>>
  <2>1. Head(pipe[u])[1] = "SETNX" /\ Head(pipe[u])[2] = "session"
    BY Ranks
  <2>2. \A k \in Counters : WriteOf(k)[2] = k
    BY Ranks
  <2>3. \A k \in Expiring : <<"EXPIRE", k>>[1] # "SETNX"
    OBVIOUS
  <2> QED BY <2>1, <2>2, <2>3
<1> HIDE DEF e
<1>4. /\ Life["session"] \in Nat /\ Life["session"] > 0 /\ "session" \in Expiring
      /\ Span("session") <= Life["session"] /\ Span("session") \in Nat
  BY Windows
<1>5. /\ expires' \in [Expiring -> Nat]
      /\ \A k \in Expiring :
           expires'[k] = IF k = "session" /\ session = 0 THEN now + Life["session"]
                         ELSE expires[k]
  BY <1>1, <1>4, Before DEF ValuesOK
<1>6. ValuesOK(history', total', sketch', lastTx', session', expires', torn')
  BY <1>1, <1>2, <1>5, Before DEF ValuesOK
<1>7. StoreTypeOK' /\ Past'
  BY <1>6, StepTypes
<1>8. Unexpired'
  BY <1>1, <1>4, <1>5, Before DEF Unexpired
<1>9. CountersExpire'
  <2>1. \A k \in Expiring : Exists(k)' =>
          \/ k \in Counters /\ Head(pipe[u]) = WriteOf(k)
          \/ Exists(k) /\ k # "session"
    BY <1>1, Windows DEF Exists
  <2> QED BY <1>1, <1>3, <1>5, <2>1, StepExpires
<1>10. Seen'
  <2>1. session' # 0
    BY <1>1, <1>2
  <2>2. \A f \in Events, k \in Counters : Due(f, k) /\ Tells(k, f) => Tells(k, f)'
    BY <1>1, <2>1 DEF Tells, Member, Item
  <2>3. \A f \in Events, k \in Counters :
          f = event[u] /\ Head(pipe[u]) = WriteOf(k) /\ Due(f, k) => Tells(k, f)'
    BY <1>3, <2>1, Windows DEF Tells
  <2> QED BY <2>2, <2>3, StepTells
<1>11. Renewed'
  <2>1. ASSUME NEW f \in Events, NEW k \in Counters, f.ts <= now,
               expires[k] >= f.ts + Span(k)
        PROVE  expires'[k] >= f.ts + Span(k)
    <3>1. k \in Expiring /\ f.ts \in Nat
      BY Windows
    <3> QED BY <1>4, <1>5, <2>1, <3>1, Before
  <2> QED BY <1>3, <2>1, Windows, StepRenews
<1>12. total' >= SumFunctionOnSet(Amounts, Summed')
  BY <1>1, <1>3, Windows, StoreTypes, StepSums
<1> QED BY <1>7, <1>8, <1>9, <1>10, <1>11, <1>12, StepPipelines DEF StoreInv, Covering, Amounts

LEMMA ExecuteStep ==
  ASSUME StoreInv, NEW u \in Updaters, Execute(u)
  PROVE  StoreInv'
<1> DEFINE head == Head(pipe[u])
<1>1. Step(u)
  BY DEF Execute, Step
<1>2. head \in Commands
  BY <1>1, StepPipelines
<1>3. \/ head = WriteOf("history") /\ ZAdd(event[u])
      \/ head = <<"ZREM", "history">> /\ ZRemRangeByScore(event[u])
      \/ head = WriteOf("sum") /\ IncrBy(event[u])
      \/ \E k \in Sketches : head = WriteOf(k) /\ PFAdd(event[u], k)
      \/ \E k \in Counters : head = <<"EXPIRE", k>> /\ Expire(k)
      \/ head = <<"SET", "last">> /\ Set(event[u])
      \/ head = WriteOf("session") /\ SetNX(event[u])
  <2>1. /\ head[1] = "ZADD" => head = WriteOf("history")
        /\ head[1] = "ZREM" => head = <<"ZREM", "history">>
        /\ head[1] = "INCRBY" => head = WriteOf("sum")
        /\ head[1] = "PFADD" => head[2] \in Sketches /\ head = WriteOf(head[2])
        /\ head[1] = "EXPIRE" => head[2] \in Counters /\ head = <<"EXPIRE", head[2]>>
        /\ head[1] = "SET" => head = <<"SET", "last">>
        /\ head[1] = "SETNX" => head = WriteOf("session")
    BY <1>2, Ranks DEF Commands, Writes, Sketches, Counters
  <2>2. \/ head[1] = "ZADD" /\ ZAdd(event[u])
        \/ head[1] = "ZREM" /\ ZRemRangeByScore(event[u])
        \/ head[1] = "INCRBY" /\ IncrBy(event[u])
        \/ head[1] = "PFADD" /\ PFAdd(event[u], head[2])
        \/ head[1] = "EXPIRE" /\ Expire(head[2])
        \/ head[1] = "SET" /\ Set(event[u])
        \/ head[1] = "SETNX" /\ SetNX(event[u])
    BY DEF Execute
  <2> QED BY <2>1, <2>2
<1> QED BY <1>1, <1>3, ZAddStep, ZRemStep, IncrByStep, PFAddStep, ExpireStep, SetStep, SetNXStep

LEMMA StoreStep ==
  ASSUME StoreInv, [StoreNext]_storeVars
  PROVE  StoreInv'
<1>1. CASE UNCHANGED storeVars
  <2>1. /\ UNCHANGED <<store, values>> /\ now' = now /\ lapsed' = lapsed /\ applied' = applied
        /\ pipe' = pipe /\ event' = event /\ torn' = torn /\ applies' = applies
    BY <1>1 DEF storeVars, store
  <2>2. StoreTypeOK'
    BY <2>1 DEF StoreInv, StoreTypeOK, store, values, Member
  <2>3. Pipelines'
    BY <2>1 DEF StoreInv, Pipelines
  <2>8. Past'
    BY <2>1 DEF StoreInv, Past, values, Member
  <2>7. Unexpired'
    BY <2>1 DEF StoreInv, Unexpired, store
  <2>4. CountersExpire'
    <3>1. \A k : Exists(k)' = Exists(k) /\ \A u : Unrenewed(u, k)' = Unrenewed(u, k)
      BY <2>1 DEF Exists, Unrenewed, values
    <3> QED BY <2>1, <3>1 DEF StoreInv, CountersExpire, store
  <2>5. \A e \in Events : \A c : Passed(e, c)' => Passed(e, c)
    BY <2>1 DEF Passed
  <2>6. Covering'
    BY <2>1, <2>5, CoveringKept
  <2> QED BY <2>2, <2>3, <2>4, <2>6, <2>7, <2>8 DEF StoreInv
<1> QED BY <1>1, TickStep, BeginStep, ExecuteStep, BreakStep DEF StoreNext

Within(w) == {e \in Events : now - w <= e.ts /\ e.ts <= now}

\* The transactions counted in a window took place in it: equal members of the
\* sorted set are one, so it counts each at most once.
LEMMA CountBounded ==
  ASSUME StoreInv, NEW w \in Nat
  PROVE  /\ TxCount(w) \in Nat /\ Cardinality(Within(w)) \in Nat
         /\ TxCount(w) <= Cardinality(Within(w))
         /\ IsFiniteSet({m \in history : m.ts >= now - w})
<1> DEFINE W == Within(w)
           M == {m \in history : m.ts >= now - w}
           f == [e \in W |-> Member(e)]
           I == {f[e] : e \in W}
<1>1. IsFiniteSet(Events) /\ IsFiniteSet(W)
  <2>1. IsFiniteSet(Events) /\ W \subseteq Events
    BY EventsAssumption DEF Within
  <2> QED BY <2>1, FS_Subset
<1>2. f \in Surjection(W, I)
  BY DEF Surjection
<1>3. IsFiniteSet(I) /\ Cardinality(I) <= Cardinality(W)
  BY <1>1, <1>2, FS_Surjection
<1>4. M \subseteq I
  <2> SUFFICES ASSUME NEW m \in history, m.ts >= now - w
               PROVE  m \in I
    OBVIOUS
  <2>1. PICK e \in Events : m = Member(e) /\ e.ts <= now
    BY DEF StoreInv, Past
  <2>2. e.ts = m.ts /\ e.ts \in Nat
    BY <2>1, Windows DEF Member
  <2>3. e \in W
    BY <2>1, <2>2 DEF StoreInv, StoreTypeOK, Within
  <2> QED BY <2>1, <2>3
<1>5. IsFiniteSet(M) /\ Cardinality(M) <= Cardinality(I)
  BY <1>3, <1>4, FS_Subset
<1>6. Cardinality(W) \in Nat /\ Cardinality(I) \in Nat /\ Cardinality(M) \in Nat
  BY <1>1, <1>3, <1>5, FS_CardinalityType
<1>7. TxCount(w) = Cardinality(M)
  BY DEF TxCount
<1> HIDE DEF W, M, I
<1>8. TxCount(w) \in Nat /\ TxCount(w) <= Cardinality(W)
  BY <1>3, <1>5, <1>6, <1>7
<1> QED BY <1>5, <1>6, <1>8 DEF W, M

\* Transactions of the last w that were applied, and that the sorted set can
\* tell apart.
ToldApart(w) == {Member(e) : e \in Applied("history", w)}

\* Whatever order and number of updates: an account over a limit made as many
\* transactions in the window, and as many that can be told apart, and whose
\* updates did not lose the history half way, put it over.
RateLimitRight ==
  \A maxPerMin, maxPerHour \in Nat :
    /\ CheckRateLimit(maxPerMin, maxPerHour) =>
         \/ Cardinality(Within(Minute)) >= maxPerMin
         \/ Cardinality(Within(Hour)) >= maxPerHour
    /\ \/ Cardinality(ToldApart(Minute)) >= maxPerMin
       \/ Cardinality(ToldApart(Hour)) >= maxPerHour
       => CheckRateLimit(maxPerMin, maxPerHour)

\* An event that was applied within the window of a key is due in it.
LEMMA AppliedIsDue ==
  ASSUME StoreInv, NEW k \in Counters, NEW w \in Nat, w <= Span(k),
         NEW e \in Applied(k, w), Has(e, k)
  PROVE  e \in Events /\ Due(e, k) /\ Passed(e, WriteOf(k)) /\ Tells(k, e)
<1>1. e \in applied /\ e \in Events /\ e.ts > now - w /\ <<e, k>> \notin lapsed
  BY StoreTypes DEF Applied
<1>2. e.ts > now - Span(k)
  <2>1. e.ts \in Nat /\ now \in Nat /\ Span(k) \in Nat
    BY <1>1, StoreTypes, Windows
  <2> QED BY <1>1, <2>1
<1>3. Due(e, k) /\ Passed(e, WriteOf(k))
  BY <1>1, <1>2 DEF Due, Passed
<1> QED BY <1>1, <1>3 DEF StoreInv, Covering, Seen

LEMMA HistoryComplete == ASSUME StoreInv PROVE WindowComplete
<1>1. "history" \in Counters /\ Hour \in Nat /\ Hour <= Span("history")
  BY Windows DEF Span
<1>2. \A e : Has(e, "history")
  BY Windows DEF Has
<1> QED BY <1>1, <1>2, AppliedIsDue DEF WindowComplete, Tells

LEMMA ToldApartCounted ==
  ASSUME StoreInv, NEW w \in Nat, w <= Hour
  PROVE  Cardinality(ToldApart(w)) \in Nat /\ Cardinality(ToldApart(w)) <= TxCount(w)
<1> DEFINE M == {m \in history : m.ts >= now - w}
<1>1. ToldApart(w) \subseteq M
  <2> SUFFICES ASSUME NEW e \in Applied("history", w)
               PROVE  Member(e) \in history /\ Member(e).ts >= now - w
    BY DEF ToldApart
  <2>1. e \in Events /\ e.ts > now - w
    BY StoreTypes DEF Applied
  <2>2. e.ts \in Nat /\ now \in Nat /\ Hour \in Nat /\ Member(e).ts = e.ts
    BY <2>1, StoreTypes, Windows DEF Member
  <2>3. e \in Applied("history", Hour)
    BY <2>1, <2>2 DEF Applied
  <2> QED BY <2>1, <2>2, <2>3, HistoryComplete DEF WindowComplete
<1>2. IsFiniteSet(M)
  BY CountBounded
<1> QED BY <1>1, <1>2, FS_Subset, FS_CardinalityType DEF TxCount

\* The invariant of the store: the order of the pipelines, nothing from the
\* future, and what the keys tell of each event that has passed their writes and
\* how long they live once it has passed their EXPIREs, for any number of
\* updates in any order, overtaken by any expiry and cut off anywhere.
THEOREM StoreInvariant == StoreSpec => []StoreInv
<1>1. StoreInit => StoreInv
  BY StoreStart
<1>2. StoreInv /\ [StoreNext]_storeVars => StoreInv'
  BY StoreStep
<1> QED BY <1>1, <1>2, PTL DEF StoreSpec

\* The sorted set holds every transaction of the last hour that was applied,
\* for any number of updates in any order, cut off anywhere, except those whose
\* update was overtaken by the expiry of the set between ZADD and EXPIRE.
THEOREM HistoryIsComplete == StoreSpec => []WindowComplete
<1>1. StoreInv => WindowComplete
  BY HistoryComplete
<1> QED BY <1>1, StoreInvariant, PTL

\* A key that no EXPIRE will reach was left by a connection that broke between
\* its write and its EXPIRE.
THEOREM CountersAreTemporary == StoreSpec => []CountersExpire
<1>1. StoreInv => CountersExpire
  BY DEF StoreInv
<1> QED BY <1>1, StoreInvariant, PTL

\* CheckRateLimit answers right, up to transactions that share a second and an
\* amount, which are one member of the sorted set, and those whose update lost
\* the set half way.
THEOREM RateLimitIsRight == StoreSpec => []RateLimitRight
<1>1. ASSUME StoreInv PROVE RateLimitRight
  <2>1. Minute \in Nat /\ Hour \in Nat /\ Minute <= Hour /\ Hour <= Hour
    BY TimeAssumption
  <2>2. \A w \in {Minute, Hour} :
          /\ TxCount(w) \in Nat /\ Cardinality(Within(w)) \in Nat
          /\ Cardinality(ToldApart(w)) \in Nat
          /\ Cardinality(ToldApart(w)) <= TxCount(w) /\ TxCount(w) <= Cardinality(Within(w))
    BY <1>1, <2>1, CountBounded, ToldApartCounted
  <2>3. \A maxPerMin, maxPerHour :
          CheckRateLimit(maxPerMin, maxPerHour)
            <=> TxCount(Minute) >= maxPerMin \/ TxCount(Hour) >= maxPerHour
    BY DEF CheckRateLimit, GetVelocity
  <2> QED BY <2>2, <2>3 DEF RateLimitRight
<1> QED BY <1>1, StoreInvariant, PTL

\* The sum is at least what was spent in the last hour, the sketches hold each
\* device and IP of the last day and the session is open, for any events, in
\* any order and number, any number of updates at once and any breaks; only
\* updates that lose the key between its write and its EXPIRE are left out.
THEOREM CountersCoverWindows == StoreSpec => []SumCoversWindow
<1>1. ASSUME StoreInv PROVE SumCoversWindow
  <2>1. /\ Hour \in Nat /\ Day \in Nat /\ HalfHour \in Nat
        /\ Span("sum") = Hour /\ Span("devices") = Day /\ Span("ips") = Day
        /\ Span("session") = HalfHour
        /\ "devices" \in Sketches /\ "ips" \in Sketches
    BY Windows DEF Span, Life, Expiring, Sketches
  <2>2. total >= SumFunctionOnSet([e \in Events |-> e.amount], Applied("sum", Hour))
    <3>1. Applied("sum", Hour) \subseteq Summed
      <4> SUFFICES ASSUME NEW e \in Applied("sum", Hour) PROVE e \in Summed
        OBVIOUS
      <4>1. Has(e, "sum")
        BY Windows DEF Has
      <4>2. e \in Events /\ Due(e, "sum") /\ Passed(e, WriteOf("sum"))
        BY <1>1, <2>1, <4>1, Windows, AppliedIsDue
      <4> QED BY <4>2 DEF Summed
    <3>2. /\ SumFunctionOnSet(Amounts, Applied("sum", Hour)) \in Nat
          /\ SumFunctionOnSet(Amounts, Applied("sum", Hour)) <= total
      BY <1>1, <3>1, SmallerSum
    <3> QED BY <1>1, <3>2, StoreTypes DEF Amounts
  <2>3. ASSUME NEW k \in Sketches, NEW e \in Applied(k, Day), Item(e, k) # None
        PROVE  Item(e, k) \in sketch[k]
    <3>1. Has(e, k) /\ k \in Counters /\ Day <= Span(k)
      BY <2>1, <2>3, Windows DEF Has, Sketches
    <3>2. Tells(k, e)
      BY <1>1, <2>1, <2>3, <3>1, AppliedIsDue
    <3> QED BY <2>3, <3>2 DEF Tells
  <2>4. /\ {e.device : e \in Applied("devices", Day)} \ {None} \subseteq sketch["devices"]
        /\ {e.ip : e \in Applied("ips", Day)} \ {None} \subseteq sketch["ips"]
    BY <2>1, <2>3 DEF Item
  <2>5. ASSUME NEW e \in Applied("session", HalfHour) PROVE session # 0
    <3>1. Has(e, "session")
      BY Windows DEF Has
    <3>2. Tells("session", e)
      BY <1>1, <2>1, <3>1, Windows, AppliedIsDue
    <3> QED BY <3>2 DEF Tells
  <2> QED BY <2>2, <2>4, <2>5 DEF SumCoversWindow
<1> QED BY <1>1, StoreInvariant, PTL

-----------------------------------------------------------------------------
(* The engine.                                                             *)

\* The thresholds as they are stored, half changed while one is set.
EngineInv ==
  /\ inForce \in Settings
  /\ tuning \in Settings \union {None}
  /\ config = [block |-> IF tuning = None THEN inForce.block ELSE tuning.block,
               review |-> inForce.review]
  /\ blacklist \subseteq UNION {r.ids : r \in Requests}

Domains ==
  /\ stage = [s \in Scorers |-> stage[s]] /\ request = [s \in Scorers |-> request[s]]
  /\ pending = [s \in Scorers |-> pending[s]] /\ features = [s \in Scorers |-> features[s]]
  /\ reasons = [s \in Scorers |-> reasons[s]] /\ score = [s \in Scorers |-> score[s]]
  /\ action = [s \in Scorers |-> action[s]] /\ seen = [s \in Scorers |-> seen[s]]
  /\ countedAt = [s \in Scorers |-> countedAt[s]] /\ blind = [s \in Scorers |-> blind[s]]

ScorerTypes(s) ==
  /\ stage[s] \in {"idle", "extract", "predict", "block", "review", "done"}
  /\ request[s] \in Requests \union {None}
  /\ pending[s] \subseteq Sources
  /\ reasons[s] \subseteq RuleCodes \union {"ML_HIGH_RISK"}
  /\ score[s] \in 0..100
  /\ action[s] \in {"none", "approve", "review", "block"}
  /\ seen[s] \subseteq Settings
  /\ countedAt[s] \in 0..now
  /\ blind[s] \in BOOLEAN
  /\ {"count", "sinceLast"} \subseteq DOMAIN features[s]

MinuteOf(s) ==
  {e \in Events : countedAt[s] - Minute <= e.ts /\ e.ts <= countedAt[s]}

\* What the answers of the store say of the transactions that took place.
Extracting(s) ==
  /\ features[s].count \in Nat
  /\ features[s].count = 0 \/ features[s].count <= Cardinality(MinuteOf(s))
  /\ "history" \in pending[s] => "counters" \in pending[s]
  /\ "counters" \in pending[s] => blind[s]
  /\ stage[s] = "extract" =>
       /\ reasons[s] = {}
       /\ blind[s] \/ /\ features[s].sinceLast \in Nat
                      /\ \E e \in Events : e.ts <= now
                            /\ features[s].sinceLast >= countedAt[s] - e.ts
  /\ stage[s] # "extract" => features[s] = NoFeatures

\* What a reason vouches for once it was given.
Explained(s) ==
  /\ "HIGH_VELOCITY" \in reasons[s] => Cardinality(MinuteOf(s)) > MaxTxPerMinute
  /\ "RAPID_DEPOSIT_WITHDRAW" \in reasons[s] =>
       blind[s] \/ \E e \in Events : countedAt[s] - Rapid < e.ts /\ e.ts <= now

\* While a score is compared, the thresholds it may meet are among those seen.
Deciding(s) ==
  /\ stage[s] \in {"extract", "predict", "block", "review"} => action[s] = "none"
  /\ stage[s] \in {"block", "review"} => {inForce, tuning} \ {None} \subseteq seen[s]
  /\ stage[s] = "review" => \E p \in seen[s] : score[s] < p.block
  /\ action[s] = "block" => \E p \in seen[s] : score[s] >= p.block
  /\ action[s] = "review" => /\ \E p \in seen[s] : score[s] >= p.review
                             /\ \E p \in seen[s] : score[s] < p.block
  /\ action[s] = "approve" => /\ \E p \in seen[s] : score[s] < p.review
                              /\ \E p \in seen[s] : score[s] < p.block

ScorerInv(s) == ScorerTypes(s) /\ Extracting(s) /\ Explained(s) /\ Deciding(s)

ScoringInv == StoreInv /\ EngineInv /\ Domains /\ \A s \in Scorers : ScorerInv(s)

LEMMA Answers ==
  /\ \A p \in Settings : p.block \in Nat /\ p.review \in Nat
       /\ p = [block |-> p.block, review |-> p.review] /\ p # None
  /\ MaxTxPerMinute \in Nat
  /\ \A ml \in MLPercents : ml \in 0..100
<1>1. ASSUME NEW p \in Settings
      PROVE  /\ p.block \in Nat /\ p.review \in Nat
             /\ p = [block |-> p.block, review |-> p.review] /\ p # None
  <2>1. p \in [block : Nat, review : Nat] /\ p # None
    BY SettingsAssumption
  <2>. QED  BY <2>1
<1>2. MaxTxPerMinute \in Nat /\ \A ml \in MLPercents : ml \in 0..100
  BY AnswersAssumption
<1>. QED  BY <1>1, <1>2

\* Min of two numbers.
LEMMA Smaller ==
  ASSUME NEW a \in Nat, NEW b \in Nat
  PROVE  Min({a, b}) = IF a <= b THEN a ELSE b
<1> DEFINE m == IF a <= b THEN a ELSE b
<1>1. m \in {a, b} /\ \A y \in {a, b} : m <= y
  OBVIOUS
<1>2. \A x \in {a, b} : (\A y \in {a, b} : x <= y) => x = m
  OBVIOUS
<1> QED BY <1>1, <1>2 DEF Min

\* A rule score is a number of points from 0 to 100.
LEMMA RuleScoreBounded == \A codes : RuleScore(codes) \in 0..100
<1> SUFFICES ASSUME NEW codes PROVE RuleScore(codes) \in 0..100
  OBVIOUS
<1>1. \A code : Weight(code) \in Nat
  BY DEF Weight
<1>2. Sum(codes) \in Nat
  <2> DEFINE points(code) == IF code \in codes THEN Weight(code) ELSE 0
  <2>1. \A code : points(code) \in Nat
    BY <1>1
  <2> HIDE DEF points
  <2>2. points("HIGH_VELOCITY") + points("NEW_ACCOUNT_LARGE_TX")
          + points("MULTIPLE_DEVICES") + points("IP_COUNTRY_MISMATCH")
          + points("VPN_DETECTED") + points("RAPID_DEPOSIT_WITHDRAW")
          + points("BONUS_ABUSE") + points("KNOWN_FRAUDSTER") \in Nat
    BY <2>1
  <2> QED BY <2>2 DEF Sum, points
<1>3. RuleScore(codes) = IF 100 <= Sum(codes) THEN 100 ELSE Sum(codes)
  BY <1>2, Smaller DEF RuleScore
<1> QED BY <1>2, <1>3

LEMMA FinalScoreBounded ==
  \A rules \in 0..100, ml \in 0..100 : FinalScore(rules, ml) \in 0..100
<1> SUFFICES ASSUME NEW rules \in 0..100, NEW ml \in 0..100
             PROVE  FinalScore(rules, ml) \in 0..100
  OBVIOUS
<1> DEFINE n == (40 * rules + 60 * ml) \div 100
<1>1. n \in Nat
  OBVIOUS
<1> HIDE DEF n
<1>2. Min({100, n}) = IF 100 <= n THEN 100 ELSE n
  BY <1>1, Smaller
<1> QED BY <1>1, <1>2 DEF FinalScore, n

LEMMA ScoringStart == Init => ScoringInv
<1> SUFFICES ASSUME Init PROVE ScoringInv
  OBVIOUS
<1>1. StoreInv /\ now = 1
  BY StoreStart DEF Init, StoreInit
<1>2. EngineInv
  BY Answers DEF Init, EngineInv
<1>3. Domains
  BY DEF Init, Domains
<1>4. ASSUME NEW s \in Scorers PROVE ScorerInv(s)
  <2>1. blind[s] = TRUE /\ countedAt[s] = 0 /\ features[s] = NoFeatures /\ reasons[s] = {}
    BY DEF Init, Never
  <2>2. ScorerTypes(s)
    BY <1>1, <2>1 DEF Init, ScorerTypes, NoFeatures
  <2>3. Extracting(s)
    BY <2>1 DEF Init, Extracting, NoFeatures
  <2>4. Explained(s) /\ Deciding(s)
    BY <2>1 DEF Init, Explained, Deciding
  <2> QED BY <2>2, <2>3, <2>4 DEF ScorerInv
<1> QED BY <1>1, <1>2, <1>3, <1>4 DEF ScoringInv

\* A scorer that is left alone, while time passes and thresholds are set.
LEMMA LeftAlone ==
  ASSUME ScoringInv, NEW r \in Scorers, now' \in Nat, now' >= now,
         stage'[r] = stage[r], request'[r] = request[r], pending'[r] = pending[r],
         features'[r] = features[r], reasons'[r] = reasons[r], score'[r] = score[r],
         action'[r] = action[r], countedAt'[r] = countedAt[r], blind'[r] = blind[r],
         seen[r] \subseteq seen'[r], seen'[r] \subseteq Settings,
         stage[r] \in {"block", "review"} => {inForce', tuning'} \ {None} \subseteq seen'[r]
  PROVE  ScorerInv(r)'
<1>1. ScorerTypes(r) /\ Extracting(r) /\ Explained(r) /\ Deciding(r) /\ now \in Nat
  BY DEF ScoringInv, ScorerInv, StoreInv, StoreTypeOK
<1>2. ScorerTypes(r)'
  BY <1>1 DEF ScorerTypes
<1>3. MinuteOf(r)' = MinuteOf(r) /\ \A e \in Events : e.ts \in Nat
  BY Windows DEF MinuteOf
<1>4. Extracting(r)'
  BY <1>1, <1>3 DEF Extracting
<1>5. Explained(r)'
  BY <1>1, <1>3 DEF Explained
<1>6. Deciding(r)'
  BY <1>1 DEF Deciding
<1> QED BY <1>2, <1>4, <1>5, <1>6 DEF ScorerInv

\* A step of one scorer: the others, the store and the thresholds stay.
Alone(s) ==
  /\ now' = now /\ history' = history /\ total' = total /\ sketch' = sketch
  /\ lastTx' = lastTx /\ expires' = expires /\ pipe' = pipe /\ event' = event
  /\ session' = session /\ applied' = applied /\ applies' = applies
  /\ lapsed' = lapsed /\ torn' = torn
  /\ config' = config /\ inForce' = inForce /\ tuning' = tuning /\ blacklist' = blacklist
  /\ Domains'
  /\ \A r \in Scorers \ {s} :
       /\ stage'[r] = stage[r] /\ request'[r] = request[r] /\ pending'[r] = pending[r]
       /\ features'[r] = features[r] /\ reasons'[r] = reasons[r] /\ score'[r] = score[r]
       /\ action'[r] = action[r] /\ countedAt'[r] = countedAt[r] /\ blind'[r] = blind[r]
       /\ seen'[r] = seen[r]

LEMMA StepAlone ==
  ASSUME ScoringInv, NEW s \in Scorers, Alone(s), ScorerInv(s)'
  PROVE  ScoringInv'
<1>1. StoreInv'
  <2>1. UNCHANGED storeVars
    BY DEF Alone, storeVars, store, values
  <2> QED BY <2>1, StoreStep DEF ScoringInv
<1>2. EngineInv'
  BY DEF Alone, ScoringInv, EngineInv
<1>3. ASSUME NEW r \in Scorers, r # s PROVE ScorerInv(r)'
  <2>1. now' \in Nat /\ now' >= now
    BY DEF Alone, ScoringInv, StoreInv, StoreTypeOK
  <2>2. seen[r] \subseteq Settings
    BY DEF ScoringInv, ScorerInv, ScorerTypes
  <2>3. stage[r] \in {"block", "review"} => {inForce, tuning} \ {None} \subseteq seen[r]
    BY DEF ScoringInv, ScorerInv, Deciding
  <2> QED BY <1>3, <2>1, <2>2, <2>3, LeftAlone DEF Alone
<1> QED BY <1>1, <1>2, <1>3 DEF ScoringInv, Alone

LEMMA ScoreAlone ==
  ASSUME ScoringInv, NEW s \in Scorers, ScoreStep(s)
  PROVE  Alone(s)
<1>1. ASSUME NEW r \in Requests, Score(s, r) PROVE Alone(s)
  BY <1>1 DEF Score, Alone, ScoringInv, Domains, storeVars, store, values, engine
<1>2. CASE CountTransactions(s)
  BY <1>2 DEF CountTransactions, Answer, Alone, ScoringInv, Domains, storeVars, store, values, engine
<1>3. CASE ReadCounters(s)
  BY <1>3 DEF ReadCounters, Answer, Alone, ScoringInv, Domains, storeVars, store, values, engine
<1>4. CASE StoreFails(s)
  BY <1>4 DEF StoreFails, Answer, Alone, ScoringInv, Domains, storeVars, store, values, engine
<1>5. CASE GetBatchFeatures(s)
  BY <1>5 DEF GetBatchFeatures, Answer, Alone, ScoringInv, Domains, storeVars, store, values, engine
<1>6. CASE AnalyzeIP(s)
  BY <1>6 DEF AnalyzeIP, Answer, Alone, ScoringInv, Domains, storeVars, store, values, engine
<1>7. CASE ApplyRules(s)
  BY <1>7 DEF ApplyRules, Alone, ScoringInv, Domains, storeVars, store, values, engine
<1>8. CASE Predict(s)
  BY <1>8 DEF Predict, Alone, ScoringInv, Domains, storeVars, store, values, engine
<1>9. CASE CompareBlock(s)
  BY <1>9 DEF CompareBlock, Decide, Alone, ScoringInv, Domains, storeVars, store, values, engine
<1>10. CASE CompareReview(s)
  BY <1>10 DEF CompareReview, Decide, Alone, ScoringInv, Domains, storeVars, store, values, engine
<1> QED BY <1>1, <1>2, <1>3, <1>4, <1>5, <1>6, <1>7, <1>8, <1>9, <1>10 DEF ScoreStep

LEMMA ScoreCallStep ==
  ASSUME ScoringInv, NEW s \in Scorers, NEW r \in Requests, Score(s, r)
  PROVE  ScorerInv(s)'
<1>1. /\ ScorerTypes(s) /\ Extracting(s) /\ now \in Nat /\ now' = now
      /\ stage[s] \in {"idle", "done"} /\ features[s] = NoFeatures
  BY DEF ScoringInv, ScorerInv, StoreInv, StoreTypeOK, Extracting, Score, storeVars
<1>2. /\ stage'[s] = "extract" /\ request'[s] = r /\ pending'[s] = Sources
      /\ features'[s] = features[s] /\ reasons'[s] = {} /\ score'[s] = 0
      /\ action'[s] = "none" /\ seen'[s] = {} /\ countedAt'[s] = 0 /\ blind'[s] = TRUE
  BY DEF ScoringInv, Domains, Score, Never
<1>3. ScorerTypes(s)'
  <2>1. /\ stage'[s] \in {"idle", "extract", "predict", "block", "review", "done"}
        /\ request'[s] \in Requests \union {None} /\ pending'[s] \subseteq Sources
        /\ reasons'[s] \subseteq RuleCodes \union {"ML_HIGH_RISK"} /\ score'[s] \in 0..100
        /\ action'[s] \in {"none", "approve", "review", "block"} /\ seen'[s] \subseteq Settings
        /\ countedAt'[s] \in 0..now'
        /\ {"count", "sinceLast"} \subseteq DOMAIN features'[s]
    BY <1>1, <1>2 DEF ScorerTypes
  <2>2. blind'[s] \in BOOLEAN
    BY <1>2
  <2> QED BY <2>1, <2>2, Zenon DEF ScorerTypes
<1>4. Extracting(s)'
  BY <1>1, <1>2 DEF Extracting, Sources, NoFeatures
<1>5. Explained(s)' /\ Deciding(s)'
  BY <1>2 DEF Explained, Deciding
<1> QED BY <1>3, <1>4, <1>5 DEF ScorerInv

\* While a scorer extracts, it has given no reason and decided nothing.
LEMMA AnswerStep ==
  ASSUME ScoringInv, NEW s \in Scorers, NEW sources, NEW f, Answer(s, sources, f),
         countedAt'[s] \in 0..now, blind'[s] \in BOOLEAN,
         {"count", "sinceLast"} \subseteq DOMAIN f, Extracting(s)'
  PROVE  ScorerInv(s)'
<1>1. /\ ScorerTypes(s) /\ Extracting(s) /\ Deciding(s) /\ now' = now
      /\ stage[s] = "extract" /\ reasons[s] = {}
  BY DEF ScoringInv, ScorerInv, Extracting, Answer, storeVars
<1>2. /\ stage'[s] = stage[s] /\ request'[s] = request[s] /\ pending'[s] \subseteq pending[s]
      /\ features'[s] = f /\ reasons'[s] = {} /\ score'[s] = score[s]
      /\ action'[s] = action[s] /\ seen'[s] = seen[s]
  BY <1>1 DEF ScoringInv, Domains, Answer
<1>3. /\ stage'[s] \in {"idle", "extract", "predict", "block", "review", "done"}
      /\ request'[s] \in Requests \union {None} /\ pending'[s] \subseteq Sources
      /\ reasons'[s] \subseteq RuleCodes \union {"ML_HIGH_RISK"} /\ score'[s] \in 0..100
      /\ action'[s] \in {"none", "approve", "review", "block"} /\ seen'[s] \subseteq Settings
  BY <1>1, <1>2 DEF ScorerTypes
<1>4. ScorerTypes(s)'
  <2>1. countedAt'[s] \in 0..now' /\ {"count", "sinceLast"} \subseteq DOMAIN features'[s]
    BY <1>1, <1>2
  <2> QED BY <1>3, <2>1, Zenon DEF ScorerTypes
<1>5. Explained(s)' /\ Deciding(s)'
  BY <1>1, <1>2 DEF Explained, Deciding
<1> QED BY <1>4, <1>5 DEF ScorerInv

LEMMA CountStep ==
  ASSUME ScoringInv, NEW s \in Scorers, CountTransactions(s)
  PROVE  ScorerInv(s)'
<1> DEFINE f == [features[s] EXCEPT !.count = TxCount(Minute)]
<1>1. Answer(s, {"history"}, f)
  BY DEF CountTransactions
<1>2. /\ ScorerTypes(s) /\ Extracting(s) /\ now \in Nat /\ now' = now
      /\ stage[s] = "extract" /\ "history" \in pending[s] /\ blind[s] = TRUE
  BY <1>1 DEF ScoringInv, ScorerInv, StoreInv, StoreTypeOK, Answer, storeVars, Extracting,
              ScorerTypes
<1>3. /\ features'[s] = f /\ pending'[s] = pending[s] \ {"history"}
      /\ stage'[s] = "extract" /\ reasons'[s] = reasons[s]
      /\ countedAt'[s] = now /\ blind'[s] = TRUE
  BY <1>1, <1>2 DEF ScoringInv, Domains, Answer, CountTransactions
<1>4. f.count = TxCount(Minute) /\ {"count", "sinceLast"} \subseteq DOMAIN f
  BY <1>2 DEF ScorerTypes
<1> HIDE DEF f
<1>5. Extracting(s)'
  BY <1>2, <1>3, <1>4, CountBounded, Windows DEF Extracting, MinuteOf, Within, ScoringInv
<1>6. countedAt'[s] \in 0..now
  BY <1>2, <1>3
<1>7. blind'[s] \in BOOLEAN
  BY <1>3
<1> QED BY <1>1, <1>4, <1>5, <1>6, <1>7, AnswerStep

LEMMA ReadStep ==
  ASSUME ScoringInv, NEW s \in Scorers, ReadCounters(s)
  PROVE  ScorerInv(s)'
<1> DEFINE f == [features[s] EXCEPT !.devices = PFCount("devices"), !.ips = PFCount("ips"),
                                    !.sinceLast = TimeSinceLastTx]
<1>1. Answer(s, {"counters"}, f)
  BY DEF ReadCounters
<1>2. /\ ScorerTypes(s) /\ Extracting(s) /\ now \in Nat /\ now' = now
      /\ stage[s] = "extract" /\ "history" \notin pending[s]
      /\ lastTx \in 0..now
      /\ lastTx # 0 => \E e \in Events : e.ts = lastTx
  BY <1>1 DEF ScoringInv, ScorerInv, StoreInv, StoreTypeOK, Past, Answer, storeVars,
              ReadCounters
<1>3. /\ features'[s] = f /\ pending'[s] = pending[s] \ {"counters"}
      /\ stage'[s] = "extract" /\ reasons'[s] = reasons[s]
      /\ countedAt'[s] = countedAt[s] /\ blind'[s] = (lastTx = 0)
  BY <1>1, <1>2 DEF ScoringInv, Domains, Answer, ReadCounters
<1>4. /\ f.count = features[s].count /\ f.sinceLast = TimeSinceLastTx
      /\ {"count", "sinceLast"} \subseteq DOMAIN f
  BY <1>2 DEF ScorerTypes
<1> HIDE DEF f
<1>5. ASSUME lastTx # 0
      PROVE  /\ f.sinceLast \in Nat
             /\ \E e \in Events : e.ts <= now /\ f.sinceLast >= countedAt[s] - e.ts
  BY <1>2, <1>4, <1>5 DEF TimeSinceLastTx, ScorerTypes
<1>6. MinuteOf(s)' = MinuteOf(s)
  BY <1>3 DEF MinuteOf
<1>7. Extracting(s)'
  BY <1>2, <1>3, <1>4, <1>5, <1>6 DEF Extracting
<1>8. blind'[s] \in BOOLEAN
  BY <1>3
<1>9. countedAt'[s] \in 0..now
  BY <1>2, <1>3 DEF ScorerTypes
<1> QED BY <1>1, <1>4, <1>7, <1>8, <1>9, AnswerStep

LEMMA FailStep ==
  ASSUME ScoringInv, NEW s \in Scorers, StoreFails(s)
  PROVE  ScorerInv(s)'
<1> DEFINE f == [features[s] EXCEPT !.count = 0]
           sources == pending[s] \intersect {"history", "counters"}
<1>1. Answer(s, sources, f)
  BY DEF StoreFails
<1>2. /\ ScorerTypes(s) /\ Extracting(s) /\ now \in Nat /\ now' = now
      /\ stage[s] = "extract" /\ "counters" \in pending[s] /\ blind[s] = TRUE
  BY <1>1 DEF ScoringInv, ScorerInv, StoreInv, StoreTypeOK, Answer, storeVars, Extracting,
              ScorerTypes, StoreFails
<1>3. /\ features'[s] = f /\ pending'[s] = pending[s] \ sources
      /\ stage'[s] = "extract" /\ reasons'[s] = reasons[s]
      /\ countedAt'[s] = 0 /\ blind'[s] = TRUE
  BY <1>1, <1>2 DEF ScoringInv, Domains, Answer, StoreFails, Never
<1>4. f.count = 0 /\ {"count", "sinceLast"} \subseteq DOMAIN f
  BY <1>2 DEF ScorerTypes
<1> HIDE DEF f
<1>5. Extracting(s)'
  BY <1>2, <1>3, <1>4 DEF Extracting
<1>6. countedAt'[s] \in 0..now
  BY <1>2, <1>3
<1>7. blind'[s] \in BOOLEAN
  BY <1>3
<1> QED BY <1>1, <1>4, <1>5, <1>6, <1>7, AnswerStep

\* The other sources say nothing of the transactions.
LEMMA OtherSources ==
  ASSUME ScoringInv, NEW s \in Scorers, NEW source \in {"batch", "ip"}, NEW f,
         Answer(s, {source}, f), countedAt' = countedAt, blind' = blind,
         f.count = features[s].count, f.sinceLast = features[s].sinceLast,
         DOMAIN f = DOMAIN features[s]
  PROVE  ScorerInv(s)'
<1>1. ScorerTypes(s) /\ Extracting(s) /\ now' = now /\ stage[s] = "extract"
  BY DEF ScoringInv, ScorerInv, Answer, storeVars
<1>2. /\ features'[s] = f /\ pending'[s] = pending[s] \ {source}
      /\ stage'[s] = "extract" /\ reasons'[s] = reasons[s]
  BY <1>1 DEF ScoringInv, Domains, Answer
<1>3. MinuteOf(s)' = MinuteOf(s)
  BY DEF MinuteOf
<1>4. Extracting(s)'
  BY <1>1, <1>2, <1>3 DEF Extracting
<1> QED BY <1>1, <1>4, AnswerStep DEF ScorerTypes

LEMMA BatchStep ==
  ASSUME ScoringInv, NEW s \in Scorers, GetBatchFeatures(s)
  PROVE  ScorerInv(s)'
<1>1. {"count", "sinceLast"} \subseteq DOMAIN features[s]
  BY DEF ScoringInv, ScorerInv, ScorerTypes
<1>2. countedAt' = countedAt /\ blind' = blind
  BY DEF GetBatchFeatures
<1>3. ASSUME NEW b \in BatchRows,
             Answer(s, {"batch"},
                    [features[s] EXCEPT !.accountAge = b.accountAge, !.deposits = b.deposits,
                       !.withdrawals = b.withdrawals, !.depositCount = b.depositCount,
                       !.bonusOnly = BonusOnlyPlayer(b)])
      PROVE  ScorerInv(s)'
  BY <1>1, <1>2, <1>3, OtherSources
<1>4. ASSUME Answer(s, {"batch"}, features[s]) PROVE ScorerInv(s)'
  BY <1>2, <1>4, OtherSources
<1> QED BY <1>3, <1>4 DEF GetBatchFeatures

LEMMA AnalyzeStep ==
  ASSUME ScoringInv, NEW s \in Scorers, AnalyzeIP(s)
  PROVE  ScorerInv(s)'
<1>1. {"count", "sinceLast"} \subseteq DOMAIN features[s]
  BY DEF ScoringInv, ScorerInv, ScorerTypes
<1>2. countedAt' = countedAt /\ blind' = blind
  BY DEF AnalyzeIP
<1>3. ASSUME NEW a \in BOOLEAN, Answer(s, {"ip"}, [features[s] EXCEPT !.anonymous = a])
      PROVE  ScorerInv(s)'
  BY <1>1, <1>2, <1>3, OtherSources
<1>4. ASSUME Answer(s, {"ip"}, features[s]) PROVE ScorerInv(s)'
  BY <1>2, <1>4, OtherSources
<1> QED BY <1>3, <1>4 DEF AnalyzeIP

LEMMA RulesStep ==
  ASSUME ScoringInv, NEW s \in Scorers, ApplyRules(s)
  PROVE  ScorerInv(s)'
<1>1. /\ ScorerTypes(s) /\ Extracting(s) /\ Deciding(s) /\ now' = now /\ now \in Nat
      /\ stage[s] = "extract" /\ pending[s] = {}
  BY DEF ScoringInv, ScorerInv, StoreInv, StoreTypeOK, ApplyRules, storeVars
<1>2. PICK listed :
        /\ reasons' = [reasons EXCEPT ![s] = Triggered(request[s], features[s], listed)]
        /\ score' = [score EXCEPT ![s] = RuleScore(Triggered(request[s], features[s], listed))]
  BY DEF ApplyRules
<1> DEFINE codes == Triggered(request[s], features[s], listed)
<1>3. /\ stage'[s] = "predict" /\ request'[s] = None /\ pending'[s] = {}
      /\ features'[s] = NoFeatures /\ reasons'[s] = codes /\ score'[s] = RuleScore(codes)
      /\ action'[s] = action[s] /\ seen'[s] = seen[s] /\ countedAt'[s] = countedAt[s]
      /\ blind'[s] = blind[s]
  BY <1>1, <1>2 DEF ScoringInv, Domains, ApplyRules
<1>4. codes \subseteq RuleCodes
  BY DEF Triggered
<1>5. "HIGH_VELOCITY" \in codes => features[s].count > MaxTxPerMinute
  BY DEF Triggered
<1>6. "RAPID_DEPOSIT_WITHDRAW" \in codes => features[s].sinceLast < Rapid
  BY DEF Triggered, RapidWithdraw
<1> HIDE DEF codes
<1>7. ScorerTypes(s)'
  <2>1. /\ stage'[s] \in {"idle", "extract", "predict", "block", "review", "done"}
        /\ request'[s] \in Requests \union {None} /\ pending'[s] \subseteq Sources
        /\ reasons'[s] \subseteq RuleCodes \union {"ML_HIGH_RISK"} /\ score'[s] \in 0..100
        /\ {"count", "sinceLast"} \subseteq DOMAIN features'[s]
    BY <1>3, <1>4, RuleScoreBounded DEF NoFeatures
  <2> QED BY <1>1, <1>3, <2>1 DEF ScorerTypes
<1>8. Extracting(s)'
  BY <1>1, <1>3 DEF Extracting, NoFeatures
<1>9. "HIGH_VELOCITY" \in codes => Cardinality(MinuteOf(s)') > MaxTxPerMinute
  <2>1. MinuteOf(s)' = MinuteOf(s) /\ IsFiniteSet(MinuteOf(s))
    BY <1>3, EventsAssumption, FS_Subset DEF MinuteOf
  <2>2. Cardinality(MinuteOf(s)) \in Nat
    BY <2>1, FS_CardinalityType
  <2> QED BY <1>1, <1>5, <2>1, <2>2, Answers DEF Extracting
<1>10. "RAPID_DEPOSIT_WITHDRAW" \in codes =>
         blind[s] \/ \E e \in Events : countedAt[s] - Rapid < e.ts /\ e.ts <= now
  <2> SUFFICES ASSUME "RAPID_DEPOSIT_WITHDRAW" \in codes, ~blind[s]
               PROVE  \E e \in Events : countedAt[s] - Rapid < e.ts /\ e.ts <= now
    OBVIOUS
  <2>1. PICK e \in Events : /\ features[s].sinceLast \in Nat /\ e.ts <= now
                           /\ features[s].sinceLast >= countedAt[s] - e.ts
    BY <1>1 DEF Extracting
  <2>2. countedAt[s] \in Nat /\ e.ts \in Nat /\ Rapid \in Nat
    BY <1>1, Windows DEF ScorerTypes
  <2>3. countedAt[s] - Rapid < e.ts
    BY <1>6, <2>1, <2>2
  <2> QED BY <2>1, <2>3
<1>11. Explained(s)'
  BY <1>1, <1>3, <1>9, <1>10 DEF Explained
<1>12. Deciding(s)'
  BY <1>1, <1>3 DEF Deciding
<1> QED BY <1>7, <1>8, <1>11, <1>12 DEF ScorerInv

\* The steps after the rules leave what the store said alone.
LEMMA DecideStep ==
  ASSUME ScoringInv, NEW s \in Scorers, now' = now, Domains',
         stage[s] # "extract", stage'[s] \in {"block", "review", "done"},
         request' = request, pending' = pending, features' = features,
         countedAt' = countedAt, blind' = blind,
         reasons[s] \subseteq reasons'[s],
         reasons'[s] \subseteq reasons[s] \union {"ML_HIGH_RISK"},
         score'[s] \in 0..100, seen'[s] \subseteq Settings,
         action'[s] \in {"none", "approve", "review", "block"}, Deciding(s)'
  PROVE  ScorerInv(s)'
<1>1. ScorerTypes(s) /\ Extracting(s) /\ Explained(s)
  BY DEF ScoringInv, ScorerInv
<1>2. ScorerTypes(s)'
  BY <1>1 DEF ScorerTypes
<1>3. MinuteOf(s)' = MinuteOf(s)
  BY DEF MinuteOf
<1>4. Extracting(s)'
  BY <1>1, <1>3 DEF Extracting
<1>5. Explained(s)'
  BY <1>1, <1>3 DEF Explained
<1> QED BY <1>2, <1>4, <1>5 DEF ScorerInv

LEMMA PredictStep ==
  ASSUME ScoringInv, NEW s \in Scorers, Predict(s)
  PROVE  ScorerInv(s)'
<1>1. /\ ScorerTypes(s) /\ Deciding(s) /\ stage[s] = "predict" /\ EngineInv /\ now' = now
  BY DEF ScoringInv, ScorerInv, Predict, storeVars
<1>2. PICK ml \in MLPercents
                 \union (IF MLPercents = {} THEN {0} ELSE {})
                 \union (IF MLPercents # {} /\ "model" \in Unavailable THEN {50} ELSE {}) :
        /\ score' = [score EXCEPT ![s] = FinalScore(@, ml)]
        /\ reasons' = [reasons EXCEPT ![s] =
                         @ \union (IF ml > 70 THEN {"ML_HIGH_RISK"} ELSE {})]
  BY DEF Predict
<1> ml \in 0..100
  <2>1. ml \in MLPercents \/ ml = 0 \/ ml = 50
    BY <1>2
  <2> QED BY <2>1, Answers
<1>3. /\ stage'[s] = "block" /\ score'[s] = FinalScore(score[s], ml)
      /\ reasons'[s] = reasons[s] \union (IF ml > 70 THEN {"ML_HIGH_RISK"} ELSE {})
      /\ action'[s] = action[s] /\ seen'[s] = {inForce, tuning} \ {None}
      /\ inForce' = inForce /\ tuning' = tuning
  BY <1>2 DEF ScoringInv, Domains, Predict, engine
<1>4. score'[s] \in 0..100
  <2>1. score[s] \in 0..100
    BY <1>1 DEF ScorerTypes
  <2>2. FinalScore(score[s], ml) \in 0..100
    BY <2>1, FinalScoreBounded
  <2> QED BY <1>3, <2>2
<1>5. seen'[s] \subseteq Settings
  BY <1>1, <1>3 DEF EngineInv
<1>6. action[s] = "none"
  BY <1>1 DEF Deciding
<1>7. Deciding(s)'
  BY <1>1, <1>3, <1>6 DEF Deciding
<1>8. Domains'
  BY StepAlone, ScoreAlone DEF Alone, ScoreStep
<1> QED BY <1>1, <1>3, <1>4, <1>5, <1>6, <1>7, <1>8, DecideStep DEF Predict

\* Whatever was stored so far, a stored threshold is one of those in force.
LEMMA StoredThresholds ==
  ASSUME EngineInv, NEW thresholds, {inForce, tuning} \ {None} \subseteq thresholds
  PROVE  /\ \E p \in thresholds : p.block = config.block
         /\ \E p \in thresholds : p.review = config.review
         /\ config.block \in Nat /\ config.review \in Nat
BY Answers DEF EngineInv

LEMMA BlockStep ==
  ASSUME ScoringInv, NEW s \in Scorers, CompareBlock(s)
  PROVE  ScorerInv(s)'
<1>1. ScorerTypes(s) /\ Deciding(s) /\ EngineInv /\ stage[s] = "block" /\ now' = now
  BY DEF ScoringInv, ScorerInv, CompareBlock, storeVars
<1>2. /\ reasons'[s] = reasons[s] /\ score'[s] = score[s] /\ seen'[s] = seen[s]
      /\ inForce' = inForce /\ tuning' = tuning /\ action[s] = "none"
  BY <1>1 DEF CompareBlock, engine, Deciding
<1>3. \/ stage'[s] = "done" /\ action'[s] = "block" /\ score[s] >= config.block
      \/ stage'[s] = "review" /\ action'[s] = "none" /\ ~(score[s] >= config.block)
  BY <1>2 DEF ScoringInv, Domains, CompareBlock, Decide, Reaches
<1>4. /\ \E p \in seen[s] : p.block = config.block
      /\ config.block \in Nat /\ score[s] \in Nat
  BY <1>1, StoredThresholds DEF Deciding, ScorerTypes
<1>5. Deciding(s)'
  BY <1>1, <1>2, <1>3, <1>4 DEF Deciding
<1>6. Domains'
  BY ScoreAlone DEF Alone, ScoreStep
<1>7. /\ request' = request /\ pending' = pending /\ features' = features
      /\ countedAt' = countedAt /\ blind' = blind
  BY DEF CompareBlock
<1> QED BY <1>1, <1>2, <1>3, <1>5, <1>6, <1>7, DecideStep DEF ScorerTypes

LEMMA ReviewStep ==
  ASSUME ScoringInv, NEW s \in Scorers, CompareReview(s)
  PROVE  ScorerInv(s)'
<1>1. ScorerTypes(s) /\ Deciding(s) /\ EngineInv /\ stage[s] = "review" /\ now' = now
  BY DEF ScoringInv, ScorerInv, CompareReview, storeVars
<1>2. /\ reasons'[s] = reasons[s] /\ score'[s] = score[s] /\ seen'[s] = seen[s]
      /\ inForce' = inForce /\ tuning' = tuning /\ stage'[s] = "done"
  BY <1>1 DEF ScoringInv, Domains, CompareReview, Decide, engine
<1>3. \/ action'[s] = "review" /\ score[s] >= config.review
      \/ action'[s] = "approve" /\ ~(score[s] >= config.review)
  BY SMTT(30) DEF ScoringInv, Domains, CompareReview, Decide, Reaches
<1>4. /\ \E p \in seen[s] : p.review = config.review
      /\ \E p \in seen[s] : score[s] < p.block
      /\ config.review \in Nat /\ score[s] \in Nat
  <2>0. {inForce, tuning} \ {None} \subseteq seen[s]
    BY <1>1 DEF Deciding
  <2>1. config.review \in Nat /\ \E p \in seen[s] : p.review = config.review
    BY <1>1, <2>0, StoredThresholds
  <2>2. score[s] \in Nat
    BY <1>1 DEF ScorerTypes
  <2>3. \E p \in seen[s] : score[s] < p.block
    BY <1>1 DEF Deciding
  <2>. QED  BY <2>1, <2>2, <2>3
<1>5. Deciding(s)'
  BY <1>1, <1>2, <1>3, <1>4 DEF Deciding
<1>6. Domains'
  BY ScoreAlone DEF Alone, ScoreStep
<1>7. /\ request' = request /\ pending' = pending /\ features' = features
      /\ countedAt' = countedAt /\ blind' = blind
  BY DEF CompareReview
<1> QED BY <1>1, <1>2, <1>3, <1>5, <1>6, <1>7, DecideStep DEF ScorerTypes

LEMMA ScorerStep ==
  ASSUME ScoringInv, NEW s \in Scorers, ScoreStep(s)
  PROVE  ScoringInv'
<1>1. ScorerInv(s)'
  BY ScoreCallStep, CountStep, ReadStep, FailStep, BatchStep, AnalyzeStep, RulesStep,
     PredictStep, BlockStep, ReviewStep DEF ScoreStep
<1> QED BY <1>1, ScoreAlone, StepAlone

-----------------------------------------------------------------------------
(* Steps of the store, and of who sets thresholds and lists identifiers.   *)

LEMMA StoreNextStep ==
  ASSUME ScoringInv, StoreNext, UNCHANGED <<engine, scorers>>
  PROVE  ScoringInv'
<1>1. StoreInv'
  BY StoreStep DEF ScoringInv
<1>2. now \in Nat /\ now' \in Nat /\ now' >= now
  BY DEF ScoringInv, StoreInv, StoreTypeOK, StoreNext, Tick, Begin, Execute, Break
<1>3. EngineInv' /\ Domains'
  BY DEF ScoringInv, EngineInv, Domains, engine, scorers
<1>4. ASSUME NEW r \in Scorers PROVE ScorerInv(r)'
  <2>1. /\ seen[r] \subseteq Settings
        /\ stage[r] \in {"block", "review"} => {inForce, tuning} \ {None} \subseteq seen[r]
    BY DEF ScoringInv, ScorerInv, ScorerTypes, Deciding
  <2> QED BY <1>2, <2>1, LeftAlone DEF engine, scorers
<1> QED BY <1>1, <1>3, <1>4 DEF ScoringInv

LEMMA TuningStep ==
  ASSUME ScoringInv,
         \/ \E p \in Settings : SetBlock(p)
         \/ SetReview
         \/ \E r \in Requests : \E id \in r.ids : AddToBlacklist(id)
  PROVE  ScoringInv'
<1>1. /\ UNCHANGED storeVars /\ now' = now
      /\ stage' = stage /\ request' = request /\ pending' = pending /\ features' = features
      /\ reasons' = reasons /\ score' = score /\ action' = action
      /\ countedAt' = countedAt /\ blind' = blind
  BY DEF SetBlock, SetReview, AddToBlacklist, scorers, storeVars
<1>2. StoreInv' /\ now \in Nat
  BY <1>1, StoreStep DEF ScoringInv, StoreInv, StoreTypeOK
<1>3. ASSUME NEW r \in Scorers
      PROVE  /\ seen[r] \subseteq Settings
             /\ stage[r] \in {"block", "review"} => {inForce, tuning} \ {None} \subseteq seen[r]
  BY DEF ScoringInv, ScorerInv, ScorerTypes, Deciding
<1>4. EngineInv /\ Domains
  BY DEF ScoringInv
<1>5. /\ EngineInv'
      /\ seen' = [r \in Scorers |-> seen'[r]]
      /\ \A r \in Scorers :
           /\ seen[r] \subseteq seen'[r] /\ seen'[r] \subseteq Settings
           /\ stage[r] \in {"block", "review"} => {inForce', tuning'} \ {None} \subseteq seen'[r]
  <2>1. ASSUME NEW p \in Settings, SetBlock(p) PROVE <1>5!:
    <3>1. EngineInv'
      BY <1>4, <2>1, Answers DEF SetBlock, EngineInv
    <3>2. /\ inForce' = inForce /\ tuning' = p
          /\ seen' = [r \in Scorers |->
                        IF stage[r] \in {"block", "review"} THEN seen[r] \union {p} ELSE seen[r]]
      BY <2>1 DEF SetBlock
    <3> QED BY <1>3, <3>1, <3>2
  <2>2. CASE SetReview
    <3>1. EngineInv'
      BY <1>4, <2>2, Answers DEF SetReview, EngineInv
    <3>2. inForce' = tuning /\ tuning' = None /\ seen' = seen /\ tuning # None
      BY <2>2 DEF SetReview, scorers
    <3> QED BY <1>3, <1>4, <3>1, <3>2 DEF Domains
  <2>3. ASSUME NEW r \in Requests, NEW id \in r.ids, AddToBlacklist(id) PROVE <1>5!:
    <3>1. EngineInv'
      BY <1>4, <2>3 DEF AddToBlacklist, EngineInv
    <3>2. inForce' = inForce /\ tuning' = tuning /\ seen' = seen
      BY <2>3 DEF AddToBlacklist, scorers
    <3> QED BY <1>3, <1>4, <3>1, <3>2 DEF Domains
  <2> QED BY <2>1, <2>2, <2>3
<1>6. Domains'
  BY <1>1, <1>4, <1>5 DEF Domains
<1>7. ASSUME NEW r \in Scorers PROVE ScorerInv(r)'
  BY <1>1, <1>2, <1>5, LeftAlone
<1> QED BY <1>2, <1>5, <1>6, <1>7 DEF ScoringInv

\* The invariant of the engine: what each scorer's features, reasons and
\* decision say of the store and of the thresholds.
THEOREM ScoringInvariant == Spec => []ScoringInv
<1>1. Init => ScoringInv
  BY ScoringStart
<1>2. ScoringInv /\ [Next]_vars => ScoringInv'
  <2> SUFFICES ASSUME ScoringInv, [Next]_vars PROVE ScoringInv'
    OBVIOUS
  <2>1. CASE StoreNext /\ UNCHANGED <<engine, scorers>>
    BY <2>1, StoreNextStep
  <2>2. ASSUME NEW s \in Scorers, ScoreStep(s) PROVE ScoringInv'
    BY <2>2, ScorerStep
  <2>3. CASE UNCHANGED vars
    <3>1. UNCHANGED storeVars /\ StoreInv'
      BY <2>3, StoreStep DEF vars, ScoringInv
    <3>2. now' = now /\ now \in Nat /\ UNCHANGED engine /\ UNCHANGED scorers
      BY <2>3 DEF vars, storeVars, ScoringInv, StoreInv, StoreTypeOK
    <3>3. EngineInv' /\ Domains'
      BY <3>2 DEF ScoringInv, EngineInv, Domains, engine, scorers
    <3>4. ASSUME NEW r \in Scorers PROVE ScorerInv(r)'
      <4>1. /\ seen[r] \subseteq Settings
            /\ stage[r] \in {"block", "review"} => {inForce, tuning} \ {None} \subseteq seen[r]
        BY DEF ScoringInv, ScorerInv, ScorerTypes, Deciding
      <4> QED BY <3>2, <4>1, LeftAlone DEF engine, scorers
    <3> QED BY <3>1, <3>3, <3>4 DEF ScoringInv
  <2> QED BY <2>1, <2>2, <2>3, TuningStep DEF Next
<1> QED BY <1>1, <1>2, PTL DEF Spec

\* Every variable of the store and of the engine keeps its type; scores are
\* percentages.
THEOREM ScoringTypeCorrect == Spec => []TypeOK
<1>1. ASSUME ScoringInv PROVE TypeOK
  <2>1. StoreTypeOK /\ EngineInv /\ Domains /\ \A s \in Scorers : ScorerTypes(s)
    BY <1>1 DEF ScoringInv, StoreInv, ScorerInv
  <2>2. /\ config \in [block : Nat, review : Nat]
        /\ tuning = None => config = inForce
    BY <2>1, Answers DEF EngineInv
  <2>3. countedAt \in [Scorers -> 0..MaxTime]
    BY <2>1, Windows DEF Domains, ScorerTypes, StoreTypeOK
  <2>4. blind \in [Scorers -> BOOLEAN]
    BY <2>1 DEF Domains, ScorerTypes
  <2>5. /\ stage \in [Scorers -> {"idle", "extract", "predict", "block", "review", "done"}]
        /\ request \in [Scorers -> Requests \union {None}]
        /\ pending \in [Scorers -> SUBSET Sources] /\ score \in [Scorers -> 0..100]
        /\ action \in [Scorers -> {"none", "approve", "review", "block"}]
    BY <2>1 DEF Domains, ScorerTypes
  <2> QED BY <2>1, <2>2, <2>3, <2>4, <2>5 DEF TypeOK, EngineInv, ScorerTypes
<1> QED BY <1>1, ScoringInvariant, PTL

\* A reason "high velocity" names a minute with too many transactions, whatever
\* the order and number of the updates.
THEOREM VelocityIsReal == Spec => []VelocityJustified
<1>1. ScoringInv => VelocityJustified
  BY DEF ScoringInv, ScorerInv, Explained, MinuteOf, VelocityJustified
<1> QED BY <1>1, ScoringInvariant, PTL

\* A reason "rapid withdrawal" names a recent transaction, or was given blind.
THEOREM RapidIsRecent == Spec => []RapidJustified
<1>1. ScoringInv => RapidJustified
  BY DEF ScoringInv, ScorerInv, Explained, RapidJustified
<1> QED BY <1>1, ScoringInvariant, PTL

\* A decision is right by thresholds in force while it was taken, for any
\* number of scorers and of threshold changes between their two comparisons.
THEOREM DecisionsAreJustified == Spec => []DecisionJustified
<1>1. ScoringInv => DecisionJustified
  BY DEF ScoringInv, ScorerInv, Deciding, DecisionJustified
<1> QED BY <1>1, ScoringInvariant, PTL
=============================================================================
