--------------------------- MODULE ParseFlagsLoop ---------------------------
(***************************************************************************)
(* GroupServCore::ParseFlags as the code runs it: one pass over the tokens *)
(* with an accumulator, and the founder rule after the last token.  The    *)
(* other modules use its declarative meaning, GroupServFlags!ParseFlags.   *)
(***************************************************************************)
EXTENDS GroupServFlags

CONSTANTS Inputs,       \* flag strings typed by users, sequences of tokens
          Currents      \* flag sets the strings are applied to

ASSUME InputsAssumption   == Inputs \subseteq Seq(Token)
ASSUME CurrentsAssumption == Currents \subseteq SUBSET AccessFlags

VARIABLES input, allowMinus, current,   \* the arguments
          pos,                          \* tokens consumed
          flags,                        \* the accumulator
          done                          \* the function has returned

loopVars == <<input, allowMinus, current, pos, flags, done>>

LoopInit ==
  /\ input \in Inputs
  /\ allowMinus \in BOOLEAN
  /\ current \in Currents
  /\ pos = 0
  /\ flags = current
  /\ done = FALSE

\* A plausible slip: a lone "-" clears ALL, which leaves BAN behind.
ApplyKeepingBan(tok, fl) ==
  IF tok.bare
  THEN IF tok.dir = "-" THEN fl \ All ELSE fl \union AllNoFounder
  ELSE IF tok.dir = "-" THEN fl \ tok.bits ELSE fl \union tok.bits

\* The body of the token loop.
Apply(tok, fl) ==
  IF tok.bare
  THEN IF tok.dir = "-" THEN {} ELSE fl \union AllNoFounder
  ELSE IF tok.dir = "-" THEN fl \ tok.bits ELSE fl \union tok.bits

NextToken ==
  /\ pos < Len(input)
  /\ pos' = pos + 1
  /\ flags' = IF input[pos + 1].dir = "-" /\ ~allowMinus
              THEN flags
              ELSE Apply(input[pos + 1], flags)
  /\ UNCHANGED <<input, allowMinus, current, done>>

\* A plausible slip: the founder rule is forgotten.
ReturnPlain ==
  /\ pos = Len(input) /\ ~done
  /\ flags' = flags
  /\ done' = TRUE
  /\ UNCHANGED <<input, allowMinus, current, pos>>

Return ==
  /\ pos = Len(input) /\ ~done
  /\ flags' = IF "FOUNDER" \in flags THEN flags \union AllNoFounder ELSE flags
  /\ done' = TRUE
  /\ UNCHANGED <<input, allowMinus, current, pos>>

LoopNext == NextToken \/ Return

LoopSpec == LoopInit /\ [][LoopNext]_loopVars

LoopTypes ==
  /\ input \in Seq(Token)
  /\ allowMinus \in BOOLEAN
  /\ current \subseteq AccessFlags
  /\ pos \in 0..Len(input)
  /\ flags \subseteq AccessFlags
  /\ done \in BOOLEAN

\* The loop computes the declarative meaning: for every flag the last token
\* that mentions it decides, whatever mixture of single letters, long names and
\* lone signs was typed (GroupServCore::ParseFlags).
ComputesLastWord ==
  done => flags = ParseFlags(input, allowMinus, current)

\* Applying the same flag string to its own result changes nothing, so a command
\* repeated after a lost reply is harmless (FLAGS, FFLAGS).
Idempotent ==
  done => ParseFlags(input, allowMinus, flags) = flags

\* The loop invariant behind ComputesLastWord.
LoopInv ==
  /\ LoopTypes
  /\ ~done => flags = LastWord(input, pos, allowMinus, current)
  /\ done  => pos = Len(input) /\ flags = ParseFlags(input, allowMinus, current)
=============================================================================
