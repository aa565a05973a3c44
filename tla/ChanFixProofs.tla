--------------------------- MODULE ChanFixProofs ---------------------------
(***************************************************************************)
(* Proofs about ChanFix: the inductive invariant and what a tick of the    *)
(* autofix timer may do to the ops and modes of a channel.                 *)
(***************************************************************************)
EXTENDS ChanFix, FiniteSetTheorems, WellFoundedInduction, TLAPS

-----------------------------------------------------------------------------
(* Arithmetic *)

\* Integer division of the scores and of the decay.
LEMMA DivIsInteger == \A a \in Int, b \in Nat \ {0} : a \div b \in Int
OBVIOUS

\* Percentages are natural numbers.
LEMMA DivIsNatural == \A a \in Nat : a \div 100 \in Nat
OBVIOUS

\* The configuration, for leaves that need no more of it than its types.
LEMMA ConfigTypes ==
  /\ {OpThreshold, MinFixScore, AccountWeight, InitialStep, FinalStep,
      FixTime, RetentionTime, MaxScore, MaxAge} \subseteq Nat
  /\ ExpireDivisor \in Nat \ {0}
  /\ Configs \subseteq SUBSET Options
BY ConfigAssumption

\* A bounded set of naturals has a largest element: among the sets of its elements
\* above a given one, all finite, one is smallest.
LEMMA BoundedMax ==
  ASSUME NEW S \in SUBSET Nat, S # {}, NEW b \in Nat, \A x \in S : x <= b
  PROVE  Max(S) \in S /\ \A x \in S : Max(S) >= x
<1> DEFINE Above(x) == {y \in S : y >= x}
           T == {Above(x) : x \in S}
<1>1. IsFiniteSet(S)
  BY FS_BoundedSetOfNaturals
<1>2. FiniteSubsetsOf(S) = SUBSET S
  BY <1>1, FS_FiniteSubsetsOfFinite
<1>3. IsWellFoundedOn(StrictSubsetOrdering(S), SUBSET S)
  BY <1>2, FS_StrictSubsetOrderingWellFounded
<1>4. T \subseteq SUBSET S /\ T # {}
  OBVIOUS
<1>5. \E t \in T : \A u \in T : ~(<<u, t>> \in StrictSubsetOrdering(S))
  <2> HIDE DEF T
  <2> QED BY <1>3, <1>4, WFMin
<1>6. PICK m \in S : \A u \in T : ~(<<u, Above(m)>> \in StrictSubsetOrdering(S))
  BY <1>5
<1>7. ASSUME NEW x \in S PROVE m >= x
  <2> SUFFICES ASSUME x > m PROVE FALSE
    OBVIOUS
  <2>1. Above(x) \subseteq Above(m) /\ m \in Above(m) /\ m \notin Above(x)
    <3>1. x \in Nat /\ m \in Nat
      OBVIOUS
    <3>2. \A y \in S : y \in Nat /\ (y >= x => y >= m)
      BY <3>1
    <3>3. ~(m >= x) /\ m >= m
      BY <3>1
    <3> QED BY <3>2, <3>3
  <2>2. <<Above(x), Above(m)>> \in StrictSubsetOrdering(S)
    <3>1. Above(x) \in SUBSET S /\ Above(m) \in SUBSET S /\ Above(x) # Above(m)
      BY <2>1
    <3> HIDE DEF Above
    <3> QED BY <2>1, <3>1 DEF StrictSubsetOrdering
  <2> QED BY <1>6, <2>2
<1> QED BY <1>7 DEF Max

-----------------------------------------------------------------------------
(* Scores *)

\* Operator records hold samples and ages.
LEMMA RecordTypes ==
  ASSUME TypeOK, NEW k \in DOMAIN ops
  PROVE  /\ k \in Keys
         /\ ops[k].age \in Nat \ {0}
         /\ ops[k].idle \in 0..RetentionTime
         /\ ops[k] = [age |-> ops[k].age, idle |-> ops[k].idle]
BY DEF TypeOK

\* A score lies between 0 and the bound CalculateScore clamps it to.
LEMMA ScoreType ==
  ASSUME TypeOK, NEW k \in DOMAIN ops
  PROVE  CalculateScore(k) \in 0..MaxScore
<1>1. ops[k].age * AccountWeight \in Nat
  BY RecordTypes, ConfigTypes
<1>2. Weighed(k) \in Nat
  BY <1>1, RecordTypes, DivIsNatural DEF Weighed
<1> QED BY <1>2, ConfigTypes DEF CalculateScore

\* Users without a record have a score too.
LEMMA UserScoreType ==
  ASSUME TypeOK, NEW u
  PROVE  ScoreOf(u) \in Int
BY ScoreType DEF ScoreOf

\* There is a highest score, although the operators are any number.
LEMMA HighScoreType ==
  ASSUME TypeOK
  PROVE  GetHighScore \in Nat
<1> DEFINE S == {0} \union {CalculateScore(k) : k \in DOMAIN ops}
<1>1. S \in SUBSET Nat /\ S # {} /\ \A x \in S : x <= MaxScore
  BY ScoreType, ConfigTypes
<1>2. MaxScore \in Nat
  BY ConfigTypes
<1>3. Max(S) \in S
  <2> HIDE DEF S
  <2> QED BY <1>1, <1>2, BoundedMax
<1> QED BY <1>1, <1>3 DEF GetHighScore

\* Whatever the scores and the step, the threshold is at least 1.
LEMMA ThresholdType ==
  ASSUME TypeOK, NEW t \in Int
  PROVE  GetThreshold(t) \in Int /\ GetThreshold(t) >= 1
<1>1. GetHighScore \in Int /\ InitialStep \in Int /\ FinalStep \in Int /\ FixTime \in Nat
  BY HighScoreType, ConfigTypes
<1>2. GetHighScore * InitialStep \in Int
  BY <1>1
<1>3. Ramp(t) \in Int
  <2>1. (IF t < FixTime THEN t ELSE FixTime) \in Int
    BY <1>1
  <2>2. InitialStep * FixTime \in Int /\ FinalStep - InitialStep \in Int
    BY <1>1
  <2> QED BY <2>1, <2>2 DEF Ramp
<1>4. GetHighScore * Ramp(t) \in Int
  BY <1>1, <1>3
<1>5. FixTime # 0 => 100 * FixTime \in Nat \ {0}
  BY <1>1
<1>6. Scaled(t) \in Int
  BY <1>1, <1>2, <1>4, <1>5, DivIsInteger DEF Scaled
<1> QED BY <1>6 DEF GetThreshold

\* Whoever passes a threshold is in the channel and has a record with a score.
LEMMA QualifiedUsers ==
  ASSUME TypeOK, NEW t \in Int
  PROVE  /\ Qualified(t) \subseteq present
         /\ \A u \in Qualified(t) : KeyForUser(u) \in DOMAIN ops /\ ScoreOf(u) >= 1
<1> SUFFICES ASSUME NEW u \in Qualified(t)
             PROVE  u \in present /\ KeyForUser(u) \in DOMAIN ops /\ ScoreOf(u) >= 1
  OBVIOUS
<1>1. ScoreOf(u) >= GetThreshold(t) /\ u \in present
  BY DEF Qualified
<1>2. ScoreOf(u) >= 1
  BY <1>1, ThresholdType, UserScoreType
<1>3. KeyForUser(u) \in DOMAIN ops
  BY <1>2 DEF ScoreOf
<1> QED BY <1>1, <1>2, <1>3

-----------------------------------------------------------------------------
(* The inductive invariant *)

\* A new record has no operators.
LEMMA EmptyMapType ==
  /\ DOMAIN EmptyMap = {}
  /\ EmptyMap = [k \in DOMAIN EmptyMap |-> [age |-> EmptyMap[k].age, idle |-> EmptyMap[k].idle]]
BY DEF EmptyMap

\* A channel starts without a record.
LEMMA InitIInv == Init => IInv
<1> SUFFICES ASSUME Init PROVE IInv
  OBVIOUS
<1>1. DOMAIN ops = {} /\ ops = [k \in DOMAIN ops |-> [age |-> ops[k].age, idle |-> ops[k].idle]]
  BY EmptyMapType DEF Init
<1>2. idle \in 0..RetentionTime
  BY ConfigTypes DEF Init
<1>3. TypeOK
  BY <1>1, <1>2 DEF Init, TypeOK
<1> QED
  BY <1>1, <1>3 DEF Init, IInv, ManualFixIsRequested, RecordInv

\* The record is forgotten, the channel is left alone.
LEMMA ForgetKeeps ==
  ASSUME IInv, Forget, UNCHANGED <<conf, channel>>
  PROVE  IInv'
<1>1. DOMAIN ops' = {} /\ ops' = [k \in DOMAIN ops' |-> [age |-> ops'[k].age, idle |-> ops'[k].idle]]
  BY EmptyMapType DEF Forget
<1>2. idle' \in 0..RetentionTime
  BY ConfigTypes DEF Forget
<1>3. TypeOK'
  BY <1>1, <1>2 DEF Forget, channel, IInv, TypeOK
<1> QED
  BY <1>1, <1>3 DEF Forget, IInv, ManualFixIsRequested, RecordInv

\* What UpdateOpRecord writes is a record of an operator seen just now.
LEMMA SampleType ==
  ASSUME TypeOK, NEW u \in Users
  PROVE  /\ KeyForUser(u) \in Keys
         /\ SampleOf(u).age \in Nat \ {0} /\ SampleOf(u).idle = 0
         /\ SampleOf(u) = [age |-> SampleOf(u).age, idle |-> SampleOf(u).idle]
<1>1. KeyForUser(u) \in Keys
  BY DEF KeyForUser, Keys
<1>2. \A k \in DOMAIN ops : ops[k].age \in Nat
  BY DEF TypeOK
<1> QED BY <1>1, <1>2 DEF SampleOf

\* Gathering touches the channel and its operators together.
LEMMA GatherKeeps ==
  ASSUME IInv, GatherTick
  PROVE  IInv'
<1> USE DEF IInv
<1>1. Sampled \subseteq Users
  BY DEF TypeOK, Sampled
<1>2. \A k \in SampledKeys : k \in Keys /\ k[2] \in Users
  BY <1>1 DEF SampledKeys, KeyForUser, Keys
<1>3. /\ DOMAIN ops' = (DOMAIN ops \union SampledKeys) \ MovedKeys
      /\ \A k \in DOMAIN ops' : ops'[k] = IF k \in SampledKeys THEN SampleOf(k[2]) ELSE ops[k]
      /\ ops' = [k \in DOMAIN ops' |-> ops'[k]]
  BY DEF GatherTick, UpdateOpRecords
<1>4. ASSUME NEW k \in DOMAIN ops'
      PROVE  /\ k \in Keys /\ ops'[k].age \in Nat \ {0} /\ ops'[k].idle \in 0..RetentionTime
             /\ ops'[k] = [age |-> ops'[k].age, idle |-> ops'[k].idle]
             /\ idle' <= ops'[k].idle
  <2>1. idle' \in 0..RetentionTime /\ (idle' = 0 \/ (idle' = idle /\ SampledKeys = {}))
    BY ConfigTypes DEF GatherTick, UpdateOpRecords, TypeOK, SampledKeys
  <2>2. CASE k \in SampledKeys
    BY <1>2, <1>3, <2>1, <2>2, SampleType, ConfigTypes
  <2>3. CASE k \notin SampledKeys
    <3>1. k \in DOMAIN ops /\ ops'[k] = ops[k]
      BY <1>3, <2>3
    <3> QED BY <2>1, <3>1, RecordTypes DEF RecordInv
  <2> QED BY <2>2, <2>3
<1>5. known' /\ idle' \in 0..RetentionTime
  BY ConfigTypes DEF GatherTick, UpdateOpRecords, TypeOK
<1>6. ops' = [k \in DOMAIN ops' |-> [age |-> ops'[k].age, idle |-> ops'[k].idle]]
  BY <1>3, <1>4
<1> QED
  BY <1>4, <1>5, <1>6
  DEF GatherTick, UpdateOpRecords, channel, TypeOK, ManualFixIsRequested, RecordInv

\* Decay is taken off an integer.
LEMMA DecayedType == \A age \in Nat : Decayed(age) \in Int
BY ConfigTypes, DivIsInteger DEF Decayed

\* Survivors keep their lastevent; a record that goes leaves nothing behind.
LEMMA ExpireKeeps ==
  ASSUME IInv, ExpireTick
  PROVE  IInv'
<1>1. CASE Keep /\ ops' = [k \in Survivors |-> [ops[k] EXCEPT !.age = Decayed(@)]]
                /\ UNCHANGED <<known, fix, requested, flags, idle>>
  <2>1. ASSUME NEW k \in Survivors
        PROVE  /\ k \in DOMAIN ops /\ k \in Keys
               /\ ops'[k] = [age |-> Decayed(ops[k].age), idle |-> ops[k].idle]
               /\ ops'[k].age \in Nat \ {0} /\ ops'[k].idle \in 0..RetentionTime
               /\ idle' <= ops'[k].idle
    <3>1. k \in DOMAIN ops /\ Decayed(ops[k].age) > 0
      BY DEF Survivors
    <3>2. ops'[k] = [age |-> Decayed(ops[k].age), idle |-> ops[k].idle]
      BY <1>1, <3>1, RecordTypes DEF IInv
    <3>3. Decayed(ops[k].age) \in Int
      BY <3>1, RecordTypes, DecayedType DEF IInv
    <3> QED BY <1>1, <3>1, <3>2, <3>3, RecordTypes DEF IInv, RecordInv
  <2>2. DOMAIN ops' = Survivors /\ ops' = [k \in DOMAIN ops' |-> ops'[k]]
    BY <1>1
  <2>3. ops' = [k \in DOMAIN ops' |-> [age |-> ops'[k].age, idle |-> ops'[k].idle]]
    BY <2>1, <2>2
  <2>4. known
    BY DEF ExpireTick
  <2> QED
    BY <1>1, <2>1, <2>2, <2>3, <2>4
    DEF ExpireTick, channel, IInv, TypeOK, ManualFixIsRequested, RecordInv
<1>2. CASE Forget
  BY <1>2, ForgetKeeps DEF ExpireTick
<1> QED BY <1>1, <1>2 DEF ExpireTick

\* The autofix tick changes the fix state and the ops, never the records.
LEMMA FixKeeps ==
  ASSUME IInv, AutoFixTick
  PROVE  IInv'
<1> USE DEF IInv, TypeOK
<1>1. fix \in Int /\ 0 \in Int
  BY ConfigTypes DEF NotStarted
<1>2. Qualified(0) \subseteq present /\ Qualified(fix) \subseteq present
  BY <1>1, QualifiedUsers
<1>3. opped' \subseteq present'
  BY <1>2 DEF AutoFixTick, StartFix, OpenUp, ContinueFix, EndFix, FixChannel, ClearBans
<1>4. fix' \in {NotStarted} \union 0..(FixTime + 1)
  <2>1. fix' \in {fix, 0, NotStarted}
    BY DEF AutoFixTick, StartFix, OpenUp, ContinueFix, EndFix
  <2> QED BY <2>1, ConfigTypes
<1>5. requested' \in BOOLEAN
  <2>1. requested' = requested \/ requested' = FALSE
    BY DEF AutoFixTick, StartFix, OpenUp, ContinueFix, EndFix
  <2> QED BY <2>1
<1>6. ManualFixIsRequested'
  <2>1. conf' = conf /\ ("autofix" \in conf \/ requested)
    BY DEF AutoFixTick
  <2>2. requested' = requested \/ fix' = NotStarted
    BY DEF AutoFixTick, StartFix, OpenUp, ContinueFix, EndFix
  <2> QED BY <2>1, <2>2 DEF ManualFixIsRequested
<1>7. TypeOK'
  BY <1>3, <1>4, <1>5 DEF AutoFixTick
<1>8. RecordInv'
  BY DEF AutoFixTick, RecordInv
<1> QED BY <1>6, <1>7, <1>8

\* FIX and REQUEST mark the fix as requested, MARK and NOFIX touch the record.
LEMMA CommandKeeps ==
  ASSUME IInv, NEW s, Command(s)
  PROVE  IInv'
<1> USE DEF IInv, TypeOK, ManualFixIsRequested, RecordInv, channel, NotStarted
<1>1. CASE AcceptRequest
  <2>1. known' /\ idle' \in 0..RetentionTime /\ idle' <= idle
    BY <1>1, ConfigTypes DEF AcceptRequest, Touch
  <2>2. \/ requested' = TRUE /\ fix' = NotStarted
        \/ requested' = requested /\ fix' = fix
    BY <1>1 DEF AcceptRequest
  <2>3. known' = TRUE /\ UNCHANGED <<conf, present, opped, registered, loggedin, ops, flags>>
    BY <1>1 DEF AcceptRequest, Touch
  <2>4. TypeOK'
    BY <2>1, <2>2, <2>3
  <2>5. ManualFixIsRequested'
    BY <2>2, <2>3
  <2>6. \A k \in DOMAIN ops : idle' <= ops[k].idle
    BY <2>1, ConfigTypes
  <2> QED BY <2>1, <2>3, <2>4, <2>5, <2>6
<1>2. ASSUME NEW flag \in StaffFlags, NEW on \in BOOLEAN, SetFlag(flag, on)
      PROVE  IInv'
  BY <1>2, ConfigTypes DEF SetFlag, Annotate
<1> QED
  BY <1>1, <1>2 DEF Command, RequestFix, RequestFixFromChanServ, SetMark, SetNoFix

\* An age grows up to its limit and no further.
LEMMA OlderType ==
  \A limit \in Nat : \A t \in 0..limit : Older(t, limit) \in 0..limit /\ Older(t, limit) >= t
BY DEF Older

\* The clock makes lastupdate and every lastevent older alike.
LEMMA TickKeeps ==
  ASSUME IInv, Tick
  PROVE  IInv'
<1>1. \A k \in DOMAIN ops :
        /\ ops'[k] = [age |-> ops[k].age, idle |-> Older(ops[k].idle, RetentionTime)]
        /\ ops[k].idle \in 0..RetentionTime /\ idle <= ops[k].idle
  BY RecordTypes DEF Tick, IInv, RecordInv
<1>2. DOMAIN ops' = DOMAIN ops /\ ops' = [k \in DOMAIN ops' |-> ops'[k]]
  BY DEF Tick
<1>3. idle' \in 0..RetentionTime
  BY OlderType, ConfigTypes DEF Tick, IInv, TypeOK
<1>4. \A k \in DOMAIN ops : ops'[k].idle \in 0..RetentionTime /\ idle' <= ops'[k].idle
  BY <1>1, ConfigTypes DEF Older, Tick, IInv, TypeOK
<1>5. fix' \in {NotStarted} \union 0..(FixTime + 1) /\ (fix' = NotStarted <=> fix = NotStarted)
  BY ConfigTypes DEF Older, Tick, IInv, TypeOK, NotStarted
<1>6. ops' = [k \in DOMAIN ops' |-> [age |-> ops'[k].age, idle |-> ops'[k].idle]]
  BY <1>1, <1>2
<1>7. TypeOK'
  <2>1. UNCHANGED <<conf, present, opped, registered, loggedin, known, requested, flags>>
    BY DEF Tick, channel
  <2>2. \A k \in DOMAIN ops : ops'[k].age \in Nat \ {0}
    <3>1. ASSUME NEW k \in DOMAIN ops PROVE ops'[k].age \in Nat \ {0}
      <4>1. ops'[k] = [age |-> ops[k].age, idle |-> Older(ops[k].idle, RetentionTime)]
        BY <1>1
      <4>2. ops'[k].age = ops[k].age
        BY <4>1
      <4> QED BY <4>2, RecordTypes DEF IInv
    <3> QED BY <3>1
  <2> QED BY <1>2, <1>3, <1>4, <1>5, <1>6, <2>1, <2>2 DEF IInv, TypeOK
<1>8. ManualFixIsRequested'
  BY <1>5 DEF Tick, IInv, ManualFixIsRequested
<1>9. RecordInv'
  BY <1>2, <1>4, <1>5 DEF Tick, IInv, RecordInv
<1> QED BY <1>7, <1>8, <1>9 DEF IInv

\* Users, ChanServ and the clock.
LEMMA EnvironmentKeeps ==
  ASSUME IInv, Environment
  PROVE  IInv'
<1> USE DEF IInv, TypeOK, ManualFixIsRequested, RecordInv, record
<1>1. ASSUME NEW u \in Users, Join(u) PROVE IInv'
  BY <1>1 DEF Join
<1>2. ASSUME NEW u \in Users, Leave(u) PROVE IInv'
  BY <1>2 DEF Leave
<1>3. ASSUME NEW u \in Users, ChangeStatus(u) PROVE IInv'
  BY <1>3 DEF ChangeStatus
<1>4. ASSUME NEW u \in Users, LogInOut(u) PROVE IInv'
  BY <1>4 DEF LogInOut
<1>5. ASSUME NEW m \in ChannelModes, ChangeMode(m) PROVE IInv'
  BY <1>5 DEF ChangeMode
<1>6. CASE Register
  BY <1>6 DEF Register
<1>7. CASE Tick
  BY <1>7, TickKeeps
<1> QED
  BY <1>1, <1>2, <1>3, <1>4, <1>5, <1>6, <1>7 DEF Environment

\* Every step of the system.
LEMMA NextIInv ==
  ASSUME IInv, [Next]_vars
  PROVE  IInv'
<1>1. CASE UNCHANGED vars
  BY <1>1 DEF vars, channel, record, IInv, TypeOK, ManualFixIsRequested, RecordInv
<1> QED
  BY <1>1, GatherKeeps, ExpireKeeps, FixKeeps, CommandKeeps, EnvironmentKeeps DEF Next

\* The record and the fix of a channel keep their types, without autofix no fix runs
\* unrequested, and lastupdate is never older than a lastevent.
THEOREM Invariance == Spec => []IInv
<1>1. IInv /\ [Next]_vars => IInv'
  BY NextIInv
<1> QED BY <1>1, InitIInv, PTL DEF Spec

\* Without autofix a fix is under way only where one was requested (AutoFixTick).
THEOREM FixesAreRequested == Spec => []ManualFixIsRequested
<1>1. IInv => ManualFixIsRequested
  BY DEF IInv
<1> QED BY <1>1, Invariance, PTL

-----------------------------------------------------------------------------
(* What a tick may do *)

\* Ops and modes change only in channels that ChanFix should handle, and the ops of a
\* channel become those of a fix or stay.
LEMMA TickEffect ==
  ASSUME IInv, AutoFixTick
  PROVE  /\ ~ShouldHandle => UNCHANGED <<opped, modes>>
         /\ \/ opped' = opped
            \/ \E t \in Int : FixChannel(t) /\ ShouldHandle
<1>1. fix \in Int /\ 0 \in Int
  BY ConfigTypes DEF IInv, TypeOK, NotStarted
<1>2. CASE StartFix
  BY <1>1, <1>2 DEF StartFix, ClearBans
<1>3. CASE OpenUp
  BY <1>3 DEF OpenUp, ClearBans
<1>4. CASE ContinueFix
  BY <1>1, <1>4 DEF ContinueFix, ClearBans
<1>5. CASE EndFix
  BY <1>5 DEF EndFix
<1> QED BY <1>2, <1>3, <1>4, <1>5 DEF AutoFixTick

\* Registered channels and channels with NOFIX are left alone, also those that become
\* one while a fix is under way.
THEOREM HandsOff == Spec => LeavesAlone
<1>1. IInv /\ [Next]_vars =>
        [(registered \/ "nofix" \in flags) /\ AutoFixTick => UNCHANGED <<opped, modes>>]_vars
  BY TickEffect DEF ShouldHandle
<1> QED BY <1>1, Invariance, PTL DEF Spec, LeavesAlone

\* Nobody without a history in the channel is ever given ops.
THEOREM EarnedOps == Spec => OpsAreEarned
<1> DEFINE Earned == \A u \in opped' \ opped :
                       AutoFixTick => KeyForUser(u) \in DOMAIN ops /\ ScoreOf(u) >= 1
<1>1. ASSUME IInv PROVE Earned
  <2> SUFFICES ASSUME AutoFixTick, NEW u \in opped' \ opped
               PROVE  KeyForUser(u) \in DOMAIN ops /\ ScoreOf(u) >= 1
    OBVIOUS
  <2>1. PICK t \in Int : FixChannel(t)
    BY <1>1, TickEffect
  <2>2. u \in Qualified(t)
    BY <2>1 DEF FixChannel
  <2> QED BY <1>1, <2>2, QualifiedUsers DEF IInv
<1>2. IInv /\ [Next]_vars => [Earned]_vars
  BY <1>1
<1> QED BY <1>2, Invariance, PTL DEF Spec, OpsAreEarned

\* Ops are taken away only if so configured, while the fix is young, and when somebody
\* with a history keeps them.
THEOREM Reversal == Spec => TakeoverReversal
<1> DEFINE Bounded ==
      opped \ opped' # {} /\ AutoFixTick =>
        /\ "deop_below_threshold_on_fix" \in conf
        /\ fix \in 0..FixTime
        /\ \E u \in opped' : ScoreOf(u) >= 1
<1>1. ASSUME IInv PROVE Bounded
  <2> SUFFICES ASSUME AutoFixTick, opped \ opped' # {}
               PROVE  /\ "deop_below_threshold_on_fix" \in conf
                      /\ fix \in 0..FixTime
                      /\ \E u \in opped' : ScoreOf(u) >= 1
    OBVIOUS
  <2>1. PICK t \in Int : FixChannel(t) /\ ShouldHandle
    BY <1>1, TickEffect
  <2>2. "deop_below_threshold_on_fix" \in conf /\ opped' = Qualified(t) /\ opped' # {}
    BY <2>1 DEF FixChannel
  <2>3. fix \in 0..FixTime
    BY <2>1 DEF ShouldHandle
  <2>4. \A u \in opped' : ScoreOf(u) >= 1
    BY <1>1, <2>2, QualifiedUsers DEF IInv
  <2> QED BY <2>2, <2>3, <2>4
<1>2. IInv /\ [Next]_vars => [Bounded]_vars
  BY <1>1
<1> QED BY <1>2, Invariance, PTL DEF Spec, TakeoverReversal

\* The record of a channel whose operators are still around is never deleted.
THEOREM HistoryKept == Spec => LiveHistoryKept
<1>1. ASSUME IInv, Next, known, ~known' PROVE Survivors = {}
  <2>1. ExpireTick
    BY <1>1
    DEF Next, GatherTick, UpdateOpRecords, AutoFixTick, Command, RequestFix,
        RequestFixFromChanServ, AcceptRequest, Touch, SetMark, SetNoFix, SetFlag, Annotate,
        Environment, Join, Leave, ChangeStatus, LogInOut, ChangeMode, Register, Tick, record
  <2>2. ~Keep
    BY <1>1, <2>1 DEF ExpireTick
  <2>3. ASSUME NEW k \in Survivors PROVE idle < RetentionTime
    <3>1. k \in DOMAIN ops /\ ops[k].idle < RetentionTime
      BY DEF Survivors
    <3>2. idle <= ops[k].idle /\ idle \in Int /\ ops[k].idle \in Int
      BY <1>1, <3>1, RecordTypes, ConfigTypes DEF IInv, RecordInv, TypeOK
    <3> QED BY <3>1, <3>2, ConfigTypes
  <2> QED BY <2>2, <2>3 DEF Keep
<1>2. IInv /\ [Next]_vars => [known /\ ~known' => Survivors = {}]_vars
  BY <1>1
<1> QED BY <1>2, Invariance, PTL DEF Spec, LiveHistoryKept

\* The samples of a user, after a tick of GatherTick.
LEMMA GatherKeepsSamples ==
  ASSUME IInv, GatherTick, NEW u \in Users
  PROVE  ~(Samples(ops', u) < Samples(ops, u))
<1> DEFINE acc == <<"account", u>>
           hst == <<"host", u>>
<1>1. /\ DOMAIN ops' = (DOMAIN ops \union SampledKeys) \ MovedKeys
      /\ \A k \in DOMAIN ops' : ops'[k] = IF k \in SampledKeys THEN SampleOf(k[2]) ELSE ops[k]
  BY DEF GatherTick, UpdateOpRecords
<1>2. \A k \in DOMAIN ops : ops[k].age \in Nat
  BY DEF IInv, TypeOK
<1>3. acc # hst /\ acc[2] = u /\ hst[2] = u
  OBVIOUS
<1>4. /\ acc \in SampledKeys <=> u \in Sampled /\ u \in loggedin
      /\ hst \in SampledKeys <=> u \in Sampled /\ u \notin loggedin
      /\ hst \in MovedKeys <=> u \in Sampled /\ Upgrades(u)
      /\ acc \notin MovedKeys
  BY DEF SampledKeys, MovedKeys, KeyForUser
<1>5. SampleOf(u).age = 1 + SamplesUnder(ops, IF Upgrades(u) THEN hst ELSE KeyForUser(u))
  BY DEF SampleOf, SamplesUnder
<1>6. /\ Upgrades(u) => u \in loggedin /\ acc \notin DOMAIN ops /\ hst \in DOMAIN ops
      /\ KeyForUser(u) = IF u \in loggedin THEN acc ELSE hst
  BY DEF Upgrades, KeyForUser
<1>7. SamplesUnder(ops, acc) \in Nat /\ SamplesUnder(ops, hst) \in Nat
  BY <1>2 DEF SamplesUnder
<1> HIDE DEF acc, hst
<1>8. CASE u \notin Sampled
  <2>1. SamplesUnder(ops', acc) = SamplesUnder(ops, acc) /\ SamplesUnder(ops', hst) = SamplesUnder(ops, hst)
    BY <1>1, <1>4, <1>8 DEF SamplesUnder
  <2> QED BY <2>1, <1>7 DEF Samples, acc, hst
<1>9. CASE u \in Sampled /\ Upgrades(u)
  <2>1. SamplesUnder(ops', acc) = 1 + SamplesUnder(ops, hst)
    BY <1>1, <1>3, <1>4, <1>5, <1>6, <1>9 DEF SamplesUnder
  <2>2. SamplesUnder(ops, acc) = 0 /\ SamplesUnder(ops', hst) = 0
    BY <1>1, <1>4, <1>6, <1>9 DEF SamplesUnder
  <2> QED BY <2>1, <2>2, <1>7 DEF Samples, acc, hst
<1>10. CASE u \in Sampled /\ ~Upgrades(u) /\ u \in loggedin
  <2>1. SamplesUnder(ops', acc) = 1 + SamplesUnder(ops, acc)
    BY <1>1, <1>3, <1>4, <1>5, <1>6, <1>10 DEF SamplesUnder
  <2>2. SamplesUnder(ops', hst) = SamplesUnder(ops, hst)
    BY <1>1, <1>4, <1>10 DEF SamplesUnder
  <2> QED BY <2>1, <2>2, <1>7 DEF Samples, acc, hst
<1>11. CASE u \in Sampled /\ ~Upgrades(u) /\ u \notin loggedin
  <2>1. SamplesUnder(ops', hst) = 1 + SamplesUnder(ops, hst)
    BY <1>1, <1>3, <1>4, <1>5, <1>6, <1>11 DEF SamplesUnder
  <2>2. SamplesUnder(ops', acc) = SamplesUnder(ops, acc)
    BY <1>1, <1>4, <1>11 DEF SamplesUnder
  <2> QED BY <2>1, <2>2, <1>7 DEF Samples, acc, hst
<1> QED BY <1>8, <1>9, <1>10, <1>11

\* The clock moves records and takes no sample.
LEMMA TickKeepsSamples ==
  ASSUME IInv, Tick, NEW u \in Users
  PROVE  Samples(ops', u) = Samples(ops, u)
<1>1. DOMAIN ops' = DOMAIN ops
  BY DEF Tick
<1>2. ASSUME NEW k \in DOMAIN ops PROVE ops'[k].age = ops[k].age
  <2>1. ops[k] = [age |-> ops[k].age, idle |-> ops[k].idle]
    BY RecordTypes DEF IInv
  <2>2. ops'[k] = [ops[k] EXCEPT !.idle = Older(@, RetentionTime)]
    BY DEF Tick
  <2> QED BY <2>1, <2>2
<1> QED BY <1>1, <1>2 DEF Samples, SamplesUnder

\* Whatever users log in to, and whichever records they have, a user's samples
\* get less by expiry only.
THEOREM HistoryLeavesByExpiry == Spec => HistoryOnlyExpires
<1>1. ASSUME IInv, Next, NEW u \in Users, Samples(ops', u) < Samples(ops, u)
      PROVE  ExpireTick
  <2>1. Samples(ops, u) \in Int /\ Samples(ops, u) >= Samples(ops, u)
    <3>1. \A k \in DOMAIN ops : ops[k].age \in Nat
      BY <1>1 DEF IInv, TypeOK
    <3> QED BY <3>1 DEF Samples, SamplesUnder
  <2>2. ops' # ops
    BY <1>1, <2>1
  <2>3. GatherTick \/ Tick \/ ExpireTick
    BY <1>1, <2>2
    DEF Next, AutoFixTick, Command, RequestFix, RequestFixFromChanServ, AcceptRequest, SetMark,
        SetNoFix, SetFlag, Environment, Join, Leave, ChangeStatus, LogInOut, ChangeMode, Register,
        record
  <2>4. CASE GatherTick
    BY <1>1, <2>1, <2>4, GatherKeepsSamples
  <2>5. CASE Tick
    BY <1>1, <2>1, <2>5, TickKeepsSamples
  <2> QED BY <2>3, <2>4, <2>5
<1>2. IInv /\ [Next]_vars =>
        [\A u \in Users : Samples(ops', u) < Samples(ops, u) => ExpireTick]_vars
  BY <1>1
<1> QED BY <1>2, Invariance, PTL DEF Spec, HistoryOnlyExpires
=============================================================================
