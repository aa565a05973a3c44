------------------------------ MODULE ChanFix ------------------------------
(***************************************************************************)
(* One channel and its ChanFix record: who holds ops in an unregistered    *)
(* channel is sampled, decays, and decides who gets ops back when the      *)
(* channel has none (src/ChanFix/chanfix_core.cpp).                        *)
(*                                                                         *)
(* The handlers treat channels one by one and share nothing between them.  *)
(* Times are ages: 0 when just set, growing with the clock up to the       *)
(* largest value the code tells apart.  Scores and steps are doubles in    *)
(* the code; here they are rationals in hundredths, rounded down where the *)
(* code casts to an integer.  No two users share a host or an account.     *)
(***************************************************************************)
EXTENDS Integers, FiniteSets, FiniteSetsExt

CONSTANTS
  Users,             \* users who come and go
  Ulined,            \* those on servers of services
  Registrants,       \* those who own a NickServ account
  Admins, Auspexes,  \* sources holding admin_priv, auspex_priv
  ChannelModes,      \* modes that the ops of the channel play with
  StaffFlags,        \* "nofix", "marked": the flags staff use
  Configs,           \* sets of options that are switched on
  OpThreshold, MinFixScore, ExpireDivisor,
  AccountWeight, InitialStep, FinalStep,   \* in hundredths
  FixTime, RetentionTime,
  MaxScore,          \* the largest unsigned int
  MaxAge             \* bound: samples per operator

Options == {"autofix", "deop_below_threshold_on_fix", "clear_modes_on_fix",
            "clear_bans_on_fix", "clear_moderated_on_fix"}

ASSUME ConfigAssumption ==
  /\ Configs \subseteq SUBSET Options
  /\ {OpThreshold, MinFixScore, AccountWeight, InitialStep, FinalStep,
      FixTime, RetentionTime, MaxScore, MaxAge} \subseteq Nat
  /\ ExpireDivisor \in Nat \ {0}
  /\ StaffFlags \subseteq {"nofix", "marked"}

VARIABLES
  conf,                               \* the configuration
  present, opped, modes, registered,  \* the channel and ChanServ's list
  loggedin,                           \* users logged in to their accounts
  known,        \* the channel has a record (ChanFixChannelList)
  ops,          \* oprecords: key -> samples (age) and time since lastevent
  fix,          \* time since fix_started
  requested,    \* fix_requested
  flags,        \* nofix, marked
  idle          \* time since lastupdate

channel == <<present, opped, modes, registered, loggedin>>
record  == <<known, ops, fix, requested, flags, idle>>
vars    == <<conf, channel, record>>

NotStarted == -1                      \* fix_started = 0
EmptyMap == [k \in {} |-> [age |-> 0, idle |-> 0]]

\* Operators are recorded under their account or under user@host.
Keys == {"account", "host"} \X Users
KeyForUser(u) == <<IF u \in loggedin THEN "account" ELSE "host", u>>

IsAdmin(s)  == s \in Admins
IsAuspex(s) == s \in Auspexes \union Admins

-----------------------------------------------------------------------------
(* Scores *)

Weighed(k) ==
  IF k[1] = "account" THEN (ops[k].age * AccountWeight) \div 100 ELSE ops[k].age

CalculateScore(k) == IF Weighed(k) > MaxScore THEN MaxScore ELSE Weighed(k)

ScoreOf(u) == IF KeyForUser(u) \in DOMAIN ops THEN CalculateScore(KeyForUser(u)) ELSE 0

GetHighScore == Max({0} \union {CalculateScore(k) : k \in DOMAIN ops})

\* The step goes from InitialStep to FinalStep while a fix lasts.
Ramp(t) == InitialStep * FixTime + (FinalStep - InitialStep) * (IF t < FixTime THEN t ELSE FixTime)

Scaled(t) ==
  IF FixTime = 0
  THEN (GetHighScore * InitialStep) \div 100
  ELSE (GetHighScore * Ramp(t)) \div (100 * FixTime)

\* A plausible slip: without a floor of 1 users nobody has heard of qualify.
UnclampedThreshold(t) == Scaled(t)

\* A plausible slip: the threshold stays where it started.
FlatThreshold(t) == IF Scaled(0) < 1 THEN 1 ELSE Scaled(0)

GetThreshold(t) == IF Scaled(t) < 1 THEN 1 ELSE Scaled(t)

-----------------------------------------------------------------------------
(* The record of the channel *)

Forget ==
  /\ known' = FALSE /\ ops' = EmptyMap /\ idle' = 0
  /\ fix' = NotStarted /\ requested' = FALSE /\ flags' = {}

\* GetOrCreateRecord stamps a new record; MARK and NOFIX leave lastupdate at 0.
Touch   == known' = TRUE /\ idle' = IF known THEN idle ELSE 0
Annotate == known' = TRUE /\ idle' = IF known THEN idle ELSE RetentionTime

\* The operators that GatherTick samples.
Sampled == opped \ Ulined

\* A plausible slip: the host record is taken over whenever the user is logged in.
AlwaysUpgrades(u) == u \in loggedin /\ <<"host", u>> \in DOMAIN ops

\* FindRecord moves the host record of a user to the account it logged in to.
Upgrades(u) ==
  /\ u \in loggedin /\ <<"account", u>> \notin DOMAIN ops
  /\ <<"host", u>> \in DOMAIN ops

\* UpdateOpRecord
SampleOf(u) ==
  LET k == IF Upgrades(u) THEN <<"host", u>> ELSE KeyForUser(u)
  IN  [age |-> 1 + IF k \in DOMAIN ops THEN ops[k].age ELSE 0, idle |-> 0]

SampledKeys == {KeyForUser(u) : u \in Sampled}
MovedKeys   == {<<"host", u>> : u \in {v \in Sampled : Upgrades(v)}}

\* A plausible slip: only a new operator refreshes lastupdate.
UpdateWithoutRefresh ==
  /\ ops' = [k \in (DOMAIN ops \union SampledKeys) \ MovedKeys |->
               IF k \in SampledKeys THEN SampleOf(k[2]) ELSE ops[k]]
  /\ known' = TRUE
  /\ idle' = IF known /\ SampledKeys \subseteq DOMAIN ops THEN idle ELSE 0

UpdateOpRecords ==
  /\ ops' = [k \in (DOMAIN ops \union SampledKeys) \ MovedKeys |->
               IF k \in SampledKeys THEN SampleOf(k[2]) ELSE ops[k]]
  /\ known' = TRUE
  /\ idle' = IF known /\ Sampled = {} THEN idle ELSE 0

GatherTick ==
  /\ present # {} /\ ~registered
  /\ \A u \in Sampled : SampleOf(u).age <= MaxAge
  /\ UpdateOpRecords
  /\ UNCHANGED <<conf, channel, fix, requested, flags>>

Decayed(age) == age - (age + ExpireDivisor - 1) \div ExpireDivisor

\* A plausible slip: an operator without a score left is kept.
SurvivorsWithoutScore ==
  {k \in DOMAIN ops : Decayed(ops[k].age) >= 0 /\ ops[k].idle < RetentionTime}

Survivors == {k \in DOMAIN ops : Decayed(ops[k].age) > 0 /\ ops[k].idle < RetentionTime}

Keep == Survivors # {} /\ idle < RetentionTime

ExpireTick ==
  /\ known
  /\ \/ /\ Keep
        /\ ops' = [k \in Survivors |-> [ops[k] EXCEPT !.age = Decayed(@)]]
        /\ UNCHANGED <<known, fix, requested, flags, idle>>
     \/ ~Keep /\ Forget
  /\ UNCHANGED <<conf, channel>>

-----------------------------------------------------------------------------
(* Fixes *)

\* A plausible slip: a fix with ops in the channel has no end.
ShouldHandleForever ==
  /\ ~registered /\ "nofix" \notin flags
  /\ Cardinality(opped) < OpThreshold
  /\ opped # {} => fix # NotStarted

ShouldHandle ==
  /\ ~registered /\ "nofix" \notin flags
  /\ Cardinality(opped) < OpThreshold
  /\ opped # {} => fix \in 0..FixTime

CanStartFix ==
  /\ opped = {}
  /\ GetHighScore >= MinFixScore
  /\ \E u \in present :
       /\ KeyForUser(u) \in DOMAIN ops
       /\ ScoreOf(u) >= (GetHighScore * FinalStep) \div 100

\* Users whose score makes them operators, t after the start of the fix.
Qualified(t) == {u \in present : ScoreOf(u) >= GetThreshold(t)}

\* The modes that a successful fix clears.
Cleared ==
  IF "clear_modes_on_fix" \notin conf THEN {}
  ELSE {"INVITE", "LIMIT", "KEY"}
         \union (IF "clear_moderated_on_fix" \in conf THEN {"MODERATED"} ELSE {})
         \union (IF "clear_bans_on_fix" \in conf THEN {"BAN"} ELSE {})

ClearBans == opped' = opped /\ modes' = modes \ {"INVITE", "LIMIT", "KEY", "BAN"}

\* A plausible slip: operators are removed although nobody qualifies to stay.
FixChannelDeoppingAll(t) ==
  /\ opped' = IF "deop_below_threshold_on_fix" \in conf THEN Qualified(t)
              ELSE opped \union Qualified(t)
  /\ modes' = modes \ Cleared

\* FixChannel that returns true: somebody qualifies.
FixChannel(t) ==
  /\ Qualified(t) # {}
  /\ opped' = IF "deop_below_threshold_on_fix" \in conf THEN Qualified(t)
              ELSE opped \union Qualified(t)
  /\ modes' = modes \ Cleared

StartFix ==
  /\ ShouldHandle /\ fix = NotStarted /\ CanStartFix
  /\ fix' = 0
  /\ FixChannel(0) \/ (Qualified(0) = {} /\ ClearBans)
  /\ UNCHANGED requested

\* The channel waits for somebody who may be made an operator.
OpenUp ==
  /\ ShouldHandle /\ fix = NotStarted /\ ~CanStartFix
  /\ ClearBans
  /\ UNCHANGED <<fix, requested>>

ContinueFix ==
  /\ ShouldHandle /\ fix # NotStarted
  /\ \/ FixChannel(fix)
     \/ Qualified(fix) = {} /\ opped = {} /\ ClearBans
     \/ Qualified(fix) = {} /\ opped # {} /\ UNCHANGED <<opped, modes>>
  /\ UNCHANGED <<fix, requested>>

EndFix ==
  /\ ~ShouldHandle
  /\ fix' = NotStarted /\ requested' = FALSE
  /\ UNCHANGED <<opped, modes>>

AutoFixTick ==
  /\ known /\ present # {}
  /\ "autofix" \in conf \/ requested
  /\ StartFix \/ OpenUp \/ ContinueFix \/ EndFix
  /\ UNCHANGED <<conf, present, registered, loggedin, known, ops, flags, idle>>

-----------------------------------------------------------------------------
(* Commands of staff and operators *)

AcceptRequest ==
  /\ present # {} /\ ~registered
  /\ "nofix" \notin flags
  /\ Touch
  /\ UNCHANGED <<conf, channel, ops, flags>>
  /\ IF GetHighScore >= MinFixScore
     THEN requested' = TRUE /\ fix' = NotStarted
     ELSE UNCHANGED <<requested, fix>>

RequestFix(s) == IsAdmin(s) /\ AcceptRequest

RequestFixFromChanServ(s) == (IsAdmin(s) \/ s \in opped) /\ AcceptRequest

SetFlag(flag, on) ==
  /\ flags' = IF on THEN flags \union {flag} ELSE flags \ {flag}
  /\ Annotate
  /\ UNCHANGED <<conf, channel, ops, fix, requested>>

SetMark(s, on)  == IsAuspex(s) /\ "marked" \in StaffFlags /\ SetFlag("marked", on)
SetNoFix(s, on) == IsAdmin(s) /\ "nofix" \in StaffFlags /\ SetFlag("nofix", on)

Command(s) ==
  \/ RequestFix(s)
  \/ RequestFixFromChanServ(s)
  \/ \E on \in BOOLEAN : SetMark(s, on) \/ SetNoFix(s, on)

-----------------------------------------------------------------------------
(* What users, ChanServ and the clock do *)

\* Whoever creates a channel is its operator.
Join(u) ==
  /\ u \notin present
  /\ present' = present \union {u}
  /\ opped' = IF present = {} THEN {u} ELSE opped
  /\ UNCHANGED <<conf, modes, registered, loggedin, record>>

\* An empty channel is gone, with its modes.
Leave(u) ==
  /\ u \in present
  /\ present' = present \ {u} /\ opped' = opped \ {u}
  /\ modes' = IF present = {u} THEN {} ELSE modes
  /\ UNCHANGED <<conf, registered, loggedin, record>>

ChangeStatus(u) ==
  /\ opped # {} /\ u \in present
  /\ opped' = IF u \in opped THEN opped \ {u} ELSE opped \union {u}
  /\ UNCHANGED <<conf, present, modes, registered, loggedin, record>>

ChangeMode(m) ==
  /\ opped # {}
  /\ modes' = IF m \in modes THEN modes \ {m} ELSE modes \union {m}
  /\ UNCHANGED <<conf, present, opped, registered, loggedin, record>>

LogInOut(u) ==
  /\ u \in Registrants
  /\ loggedin' = IF u \in loggedin THEN loggedin \ {u} ELSE loggedin \union {u}
  /\ UNCHANGED <<conf, present, opped, modes, registered, record>>

\* ChanServ REGISTER asks for an operator; DROP and expiry do not.
Register ==
  /\ registered \/ opped # {}
  /\ registered' = ~registered
  /\ UNCHANGED <<conf, present, opped, modes, loggedin, record>>

Older(t, limit) == IF t < limit THEN t + 1 ELSE limit

Tick ==
  /\ fix' = IF fix = NotStarted THEN fix ELSE Older(fix, FixTime + 1)
  /\ idle' = IF known THEN Older(idle, RetentionTime) ELSE idle
  /\ ops' = [k \in DOMAIN ops |-> [ops[k] EXCEPT !.idle = Older(@, RetentionTime)]]
  /\ UNCHANGED <<conf, channel, known, requested, flags>>

Environment ==
  \/ \E u \in Users : Join(u) \/ Leave(u) \/ ChangeStatus(u) \/ LogInOut(u)
  \/ \E m \in ChannelModes : ChangeMode(m)
  \/ Register
  \/ Tick

-----------------------------------------------------------------------------

Init ==
  /\ conf \in Configs
  /\ present = {} /\ opped = {} /\ modes = {} /\ registered = FALSE /\ loggedin = {}
  /\ known = FALSE /\ ops = EmptyMap /\ fix = NotStarted /\ requested = FALSE
  /\ flags = {} /\ idle = 0

Next ==
  \/ GatherTick \/ ExpireTick \/ AutoFixTick
  \/ \E s \in Admins \union Auspexes \union Users : Command(s)
  \/ Environment

Spec == Init /\ [][Next]_vars

\* The autofix timer and the clock keep running; nothing else is owed.
FairSpec == Spec /\ WF_vars(AutoFixTick) /\ WF_vars(Tick)

-----------------------------------------------------------------------------
(* Properties *)

TypeOK ==
  /\ conf \in Configs
  /\ present \subseteq Users /\ opped \subseteq present
  /\ loggedin \subseteq Registrants
  /\ registered \in BOOLEAN /\ known \in BOOLEAN /\ requested \in BOOLEAN
  /\ ops = [k \in DOMAIN ops |-> [age |-> ops[k].age, idle |-> ops[k].idle]]
  /\ DOMAIN ops \subseteq Keys
  /\ \A k \in DOMAIN ops : ops[k].age \in Nat \ {0} /\ ops[k].idle \in 0..RetentionTime
  /\ fix \in {NotStarted} \union 0..(FixTime + 1)
  /\ flags \subseteq StaffFlags
  /\ idle \in 0..RetentionTime

\* Without autofix a fix is under way only where one was requested, so that the
\* timer that skips unrequested channels also gets to end it (AutoFixTick).
ManualFixIsRequested == "autofix" \notin conf /\ fix # NotStarted => requested

\* lastupdate is never older than a lastevent, and without a record nothing is under way.
RecordInv ==
  /\ \A k \in DOMAIN ops : idle <= ops[k].idle
  /\ ~known => DOMAIN ops = {} /\ fix = NotStarted /\ ~requested /\ flags = {}

\* The inductive invariant.
IInv == TypeOK /\ ManualFixIsRequested /\ RecordInv

\* ChanFix leaves ops and modes of registered and of NOFIX channels alone, also when
\* the channel becomes one while a fix is under way (wiki/chanfix.md; AutoFixTick).
LeavesAlone ==
  [][(registered \/ "nofix" \in flags) /\ AutoFixTick => UNCHANGED <<opped, modes>>]_vars

\* Only users with a history in the channel are given ops, however far scores have
\* decayed since the fix began (FixChannel, GetThreshold).
OpsAreEarned ==
  [][\A u \in opped' \ opped : AutoFixTick => KeyForUser(u) \in DOMAIN ops /\ ScoreOf(u) >= 1]_vars

\* ChanFix takes ops away only if configured to, within FixTime of a start, and when
\* somebody with a history holds ops afterwards (FixChannel, ShouldHandle).
TakeoverReversal ==
  [][opped \ opped' # {} /\ AutoFixTick =>
       /\ "deop_below_threshold_on_fix" \in conf
       /\ fix \in 0..FixTime
       /\ \E u \in opped' : ScoreOf(u) >= 1
    ]_vars

SamplesUnder(f, k) == IF k \in DOMAIN f THEN f[k].age ELSE 0
Samples(f, u)      == SamplesUnder(f, <<"account", u>>) + SamplesUnder(f, <<"host", u>>)

\* History is lost by expiry only: moving a user's record from the host to the
\* account keeps every sample, also when the account has had one all along
\* (FindRecord, UpdateOpRecord).
HistoryOnlyExpires ==
  [][\A u \in Users : Samples(ops', u) < Samples(ops, u) => ExpireTick]_vars

\* A record goes only when none of its operators was seen within RetentionTime with
\* a score left: lastupdate never lags behind lastevent (ExpireTick, UpdateOpRecord).
LiveHistoryKept ==
  [][known /\ ~known' => Survivors = {}]_vars

\* AutoFixTick looks at the channel.
Watched == known /\ present # {} /\ ("autofix" \in conf \/ requested)

\* An opless channel that ChanFix may fix, with a candidate in it.
Fixable ==
  /\ Watched /\ opped = {} /\ ~registered /\ "nofix" \notin flags
  /\ fix # NotStarted \/ GetHighScore >= MinFixScore
  /\ \E u \in present :
       /\ KeyForUser(u) \in DOMAIN ops
       /\ ScoreOf(u) >= Max({1, (GetHighScore * FinalStep) \div 100})

\* A channel does not stay opless with a candidate in it, unless requests keep setting
\* the fix back to its start (AutoFixTick, GetThreshold).
OplessIsFixed == <>[][~AcceptRequest]_vars => []<>~Fixable

\* A fix does not go on for ever in a channel with ops: it ends FixTime after its start
\* even if nobody qualifies (ShouldHandle, AutoFixTick).
FixesEnd == []<>~(Watched /\ opped # {} /\ fix # NotStarted)
=============================================================================
