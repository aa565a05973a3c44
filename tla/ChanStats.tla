----------------------------- MODULE ChanStats -----------------------------
(***************************************************************************)
(* chanstats_plus (src/chanstats_plus.cpp): what users do in a channel is  *)
(* counted in memory, in a row for the channel, one for the account in the *)
(* channel and one for the account anywhere, each for the day, the week,   *)
(* the month and in total; a timer, a limit and the end of the module      *)
(* flush the rows in batches that the SQL module adds to its table, in a   *)
(* thread of its own and with errors that are only logged.                 *)
(***************************************************************************)
EXTENDS Integers, Sequences, SequencesExt, FiniteSetsExt, Bags

CONSTANTS
  Chans, Accounts,
  Messages,           \* what a line holds: [action, words, smileys]
  MaxPending,         \* maxpending
  MaxRowsPerQuery,    \* maxrowsperquery
  Instants,           \* bound: when something happens, in hours of standard time since 1970
  Summer,             \* the instants of summer time
  MonthStarts,        \* the days, since 1970, on which a month begins
  MaxEvents           \* bound: what there is to count

\* With no rows in a query Flush would not come to an end.
ASSUME RowsAssumption == MaxRowsPerQuery \in Nat \ {0} /\ MaxPending \in Nat
\* 1970-01-01 begins a month.
ASSUME TimeAssumption == Instants \subseteq Nat /\ MonthStarts \subseteq Nat /\ 0 \in MonthStarts
\* "" stands for no channel and for no account.
ASSUME NamesAssumption == "" \notin Chans \union Accounts
ASSUME MessagesAssumption == Messages \subseteq [action : BOOLEAN, words : Nat, smileys : Nat]

\* Counters are bags: of [row, metric], or of what was done.
VARIABLES
  up,                 \* the module is loaded
  timer,              \* flush_timer
  sql,                \* the SQL engine is there
  csStats, nsStats,   \* CS_STATS_PLUS, NS_STATS_PLUS: channels and accounts that are counted
  pending,
  queue,              \* queries the SQL module has not run
  table,              \* the rows in the database
  now,
  done,               \* what users did and should be counted: [chan, nick, day, metric]
  intact              \* no query has failed, nothing in memory was lost

vars == <<up, timer, sql, csStats, nsStats, pending, queue, table, now, done, intact>>

-----------------------------------------------------------------------------
(* Local time: hours since 1970, one ahead in summer                       *)

Day == 24

localtime(t) == [h |-> IF t \in Summer THEN t + 1 ELSE t, isdst |-> t \in Summer]
mktime(l)    == IF l.isdst THEN l.h - 1 ELSE l.h

DateOf(t) == localtime(t).h \div Day

\* 1970-01-01 was a Thursday.
DaysFromMonday(d) == (d + 3) % 7
FirstOfMonth(d)   == Max({m \in MonthStarts : m <= d})

FormatDateYMD(t) == DateOf(t)
StartOfDay(t)    == mktime([localtime(t) EXCEPT !.h = DateOf(t) * Day])
StartOfMonth(t)  == mktime([localtime(t) EXCEPT !.h = FirstOfMonth(DateOf(t)) * Day])
StartOfWeek(t)   == StartOfDay(t) - DaysFromMonday(DateOf(t)) * Day

\* The start of a day and of a month keep the flag of the time asked for, so that
\* one before summer time is an hour early: on the day, and in the week and the
\* month, in which summer time begins. This says that no instant is in those.
SummerSettled ==
  \A t \in Instants \intersect Summer : {StartOfDay(t), StartOfWeek(t), StartOfMonth(t)} \subseteq Summer

-----------------------------------------------------------------------------
(* Counting and flushing                                                   *)

Row(chan, nick, period, start) == [chan |-> chan, nick |-> nick, period |-> period, start |-> start]

Rows(chan, nick) ==
  {Row(chan, nick, "total", 0),
   Row(chan, nick, "monthly", FormatDateYMD(StartOfMonth(now))),
   Row(chan, nick, "weekly", FormatDateYMD(StartOfWeek(now))),
   Row(chan, nick, "daily", FormatDateYMD(StartOfDay(now)))}

\* delta: how often each metric is counted; none is counted 0 times.
AddForPeriods(p, chan, nick, delta) ==
  p (+) [x \in {[row |-> r, metric |-> m] : r \in Rows(chan, nick), m \in DOMAIN delta} |->
           delta[x.metric]]

RowsOf(p) == {x.row : x \in DOMAIN p}

OnlyRows(p, rows) == [x \in {y \in DOMAIN p : y.row \in rows} |-> p[x]]

\* The order of the hash table.
InOrder(rows) == FoldSet(LAMBDA r, s : Append(s, r), <<>>, rows)

\* One query for each MaxRowsPerQuery rows.
Queries(p) ==
  LET order == InOrder(RowsOf(p))
      Part(i) == {order[j] : j \in {k \in DOMAIN order : (k - 1) \div MaxRowsPerQuery = i - 1}}
  IN [i \in 1..((Len(order) + MaxRowsPerQuery - 1) \div MaxRowsPerQuery) |-> OnlyRows(p, Part(i))]

\* A plausible slip: the rows of the last query are not erased.
FlushKeepingLast(s) ==
  IF sql /\ s.pending # EmptyBag
  THEN [pending |-> Last(Queries(s.pending)), queue |-> s.queue \o Queries(s.pending)] ELSE s

Flush(s) ==
  IF sql THEN [pending |-> EmptyBag, queue |-> s.queue \o Queries(s.pending)] ELSE s

AddEvent(s, chan, nick, delta) ==
  LET p == AddForPeriods(s.pending, chan, "", delta)
      q == IF nick = "" THEN p
           ELSE AddForPeriods(AddForPeriods(p, chan, nick, delta), "", nick, delta)
      t == [s EXCEPT !.pending = q]
  IN IF Cardinality(RowsOf(q)) >= MaxPending THEN Flush(t) ELSE t

\* Accounts that want to be counted by name, users who are logged in to one.
GetDisplay(u) == IF u \in nsStats THEN u ELSE ""

Memory == [pending |-> pending, queue |-> queue]

Remember(s) == pending' = s.pending /\ queue' = s.queue

Note(chan, nick, delta) ==
  [x \in {[chan |-> chan, nick |-> nick, day |-> DateOf(now), metric |-> m] : m \in DOMAIN delta} |->
     delta[x.metric]]

\* Something to count in a channel of which statistics are kept.
Counts(c) == up /\ c \in csStats /\ BagCardinality(done) < MaxEvents

Count(c, u, delta) ==
  /\ Counts(c)
  /\ Remember(AddEvent(Memory, c, GetDisplay(u), delta))
  /\ done' = done (+) Note(c, GetDisplay(u), delta)
  /\ UNCHANGED <<up, timer, sql, csStats, nsStats, table, now, intact>>

Once(metric) == SetToBag({metric})

\* Users without an account are "".
OnTopicUpdated(c, u) == u # "" /\ Count(c, u, Once("topics"))
OnModeChange(c, u)   == u # "" /\ Count(c, u, Once("modes"))

Positive(delta) == [m \in {k \in DOMAIN delta : delta[k] > 0} |-> delta[m]]

OnPrivmsg(c, u) ==
  \E msg \in Messages :
    Count(c, u, Positive([lines   |-> 1,
                          actions |-> IF msg.action THEN 1 ELSE 0,
                          words   |-> IF msg.smileys >= msg.words THEN 0 ELSE msg.words - msg.smileys,
                          smileys |-> msg.smileys]))

OnPreUserKicked(c, source, target) ==
  /\ Counts(c)
  /\ Remember(AddEvent(AddEvent(Memory, c, GetDisplay(target), Once("kicked")),
                       c, GetDisplay(source), Once("kicks")))
  /\ done' = done (+) Note(c, GetDisplay(target), Once("kicked"))
                  (+) Note(c, GetDisplay(source), Once("kicks"))
  /\ UNCHANGED <<up, timer, sql, csStats, nsStats, table, now, intact>>

-----------------------------------------------------------------------------
(* Settings, the timer and the life of the module                          *)

SetChannel(c) ==
  /\ up
  /\ csStats' \in {csStats \union {c}, csStats \ {c}}
  /\ UNCHANGED <<up, timer, sql, nsStats, pending, queue, table, now, done, intact>>

SetNick(a) ==
  /\ up
  /\ nsStats' \in {nsStats \union {a}, nsStats \ {a}}
  /\ UNCHANGED <<up, timer, sql, csStats, pending, queue, table, now, done, intact>>

FlushTimer ==
  /\ up /\ timer
  /\ Remember(Flush(Memory))
  /\ UNCHANGED <<up, timer, sql, csStats, nsStats, table, now, done, intact>>

\* Without the engine a reload leaves the timer as it is.
OnReload ==
  /\ up
  /\ timer' = (timer \/ sql)
  /\ UNCHANGED <<up, sql, csStats, nsStats, pending, queue, table, now, done, intact>>

Load ==
  /\ ~up /\ up' = TRUE
  /\ timer' = sql
  /\ UNCHANGED <<sql, csStats, nsStats, pending, queue, table, now, done, intact>>

\* A table to which some of the queries have added.
After(t, queries, ok) == FoldSet(LAMBDA i, rows : rows (+) queries[i], t, ok)

\* The destructor flushes and waits for each query; one that fails is gone. The
\* SQL module may drop what it has not run for a module that goes.
Unload ==
  /\ up /\ up' = FALSE
  /\ timer' = FALSE
  /\ \E ok \in SUBSET DOMAIN Queries(pending) :
       /\ ~sql => ok = {}
       /\ table' = After(table, Queries(pending), ok)
       /\ queue' \in {queue, <<>>}
       /\ intact' = (intact /\ ok = DOMAIN Queries(pending) /\ queue' = queue)
  /\ pending' = EmptyBag
  /\ UNCHANGED <<sql, csStats, nsStats, now, done>>

Crash ==
  /\ up /\ up' = FALSE
  /\ timer' = FALSE
  /\ pending' = EmptyBag /\ queue' = <<>>
  /\ intact' = (intact /\ pending = EmptyBag /\ queue = <<>>)
  /\ UNCHANGED <<sql, csStats, nsStats, table, now, done>>

-----------------------------------------------------------------------------
(* The SQL module and the clock                                            *)

\* ON DUPLICATE KEY UPDATE adds to the rows that are there.
RunQuery ==
  /\ sql /\ queue # <<>>
  /\ table' = table (+) Head(queue) /\ queue' = Tail(queue)
  /\ UNCHANGED <<up, timer, sql, csStats, nsStats, pending, now, done, intact>>

OnError ==
  /\ queue # <<>>
  /\ queue' = Tail(queue) /\ intact' = FALSE
  /\ UNCHANGED <<up, timer, sql, csStats, nsStats, pending, table, now, done>>

SqlComes ==
  /\ ~sql /\ sql' = TRUE
  /\ UNCHANGED <<up, timer, csStats, nsStats, pending, queue, table, now, done, intact>>

SqlGoes ==
  /\ sql /\ sql' = FALSE
  /\ queue' = <<>> /\ intact' = (intact /\ queue = <<>>)
  /\ UNCHANGED <<up, timer, csStats, nsStats, pending, table, now, done>>

Tick ==
  /\ now' \in {t \in Instants : t > now}
  /\ UNCHANGED <<up, timer, sql, csStats, nsStats, pending, queue, table, done, intact>>

-----------------------------------------------------------------------------
Init ==
  /\ up = TRUE /\ sql \in BOOLEAN /\ timer = sql
  /\ csStats = {} /\ nsStats = {}
  /\ pending = EmptyBag /\ queue = <<>> /\ table = EmptyBag
  /\ now \in Instants
  /\ done = EmptyBag /\ intact = TRUE

Event(c) ==
  \/ \E u \in Accounts \union {""} : OnTopicUpdated(c, u) \/ OnModeChange(c, u) \/ OnPrivmsg(c, u)
  \/ \E u, v \in Accounts \union {""} : OnPreUserKicked(c, u, v)

Next ==
  \/ \E c \in Chans : Event(c) \/ SetChannel(c)
  \/ \E a \in Accounts : SetNick(a)
  \/ FlushTimer \/ OnReload \/ Load \/ Unload \/ Crash
  \/ RunQuery \/ OnError \/ SqlComes \/ SqlGoes \/ Tick

Spec == Init /\ [][Next]_vars

-----------------------------------------------------------------------------
(* Properties *)

\* How often an item, [row, metric], is counted in a bag.
Copies(x, b) == IF x \in DOMAIN b THEN b[x] ELSE 0

Periods == {"total", "monthly", "weekly", "daily"}

Start(period, d) ==
  CASE period = "total"   -> 0
    [] period = "monthly" -> FirstOfMonth(d)
    [] period = "weekly"  -> d - DaysFromMonday(d)
    [] period = "daily"   -> d

\* Who the rows that are to hold what was done are of.
Whose(e) == {<<e.chan, "">>} \union (IF e.nick = "" THEN {} ELSE {<<e.chan, e.nick>>, <<"", e.nick>>})

Covers(row, e) == <<row.chan, row.nick>> \in Whose(e) /\ row.start = Start(row.period, e.day)

RowsFor(e) ==
  {Row(w[1], w[2], period, Start(period, e.day)) :
     w \in Whose(e), period \in Periods}

Expected(x) ==
  SumFunction([e \in DOMAIN done |-> IF e.metric = x.metric /\ Covers(x.row, e) THEN done[e] ELSE 0])

Waiting(x) == SumFunction([i \in DOMAIN queue |-> Copies(x, queue[i])])

Counted(x) == Copies(x, table) + Copies(x, pending) + Waiting(x)

Kept == DOMAIN table \union DOMAIN pending \union UNION {DOMAIN queue[i] : i \in DOMAIN queue}

\* Whatever is flushed when, in whichever batches, and across midnights, weeks
\* and months: each row comes to what was done in its time, and to no more when
\* queries failed or services crashed (AddEvent, Flush).
RowsAddUp ==
  /\ \A x \in Kept : Counted(x) <= Expected(x) /\ (intact => Counted(x) >= Expected(x))
  /\ intact => \A e \in DOMAIN done : \A r \in RowsFor(e) : [row |-> r, metric |-> e.metric] \in Kept
=============================================================================
