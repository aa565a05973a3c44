-------------------------------- MODULE Dice --------------------------------
(***************************************************************************)
(* DiceServ: how a roll request is read and answered                       *)
(* (src/DiceServ/diceserv.cpp).  The text is fixed (FixInfix), validated   *)
(* (CheckInfix), cut into tokens (TokenizeInfix), put into postfix order   *)
(* by a shunting yard that counts the arguments of functions               *)
(* (InfixToPostfix) and evaluated on a stack (EvaluatePostfix), once for   *)
(* the number of sets and once for each set (Roller).                      *)
(*                                                                         *)
(* A digit, an operator, a function name and a constant is one symbol of   *)
(* the text.  Numbers are integers: decimals, "/" and the functions of     *)
(* real numbers are left out, and the constants e and pi stand for an      *)
(* integer.  The positions kept for error messages and the wording of      *)
(* replies are left out too.                                               *)
(***************************************************************************)
EXTENDS Integers, SequencesExt

CONSTANTS
  Requests,           \* bound: what users ask for, and what it means
  DiceMaxTimes, DiceMaxDice, DiceMaxSides,
  IntMax,             \* std::numeric_limits<int>::max()
  UnsignedSize,       \* number of values of an unsigned
  DoubleMax,          \* a double beyond it is infinite
  ConstantValue       \* stands for e and pi

ASSUME LimitsAssumption ==
  /\ {DiceMaxTimes, DiceMaxDice, DiceMaxSides} \subseteq Nat \ {0}
  /\ {IntMax, UnsignedSize, DoubleMax} \subseteq Nat \ {0}
  /\ ConstantValue \in Int
  /\ DiceMaxDice > 1 /\ DiceMaxSides > 1

VARIABLES
  request,            \* the text, whether it is for EXROLL; no step looks at its meaning
  timesPart, dicePart,
  part,               \* "times" or "dice": the expression at work
  phase,              \* "start", "parse", "evaluate", "reply" or "done"
  rest,               \* tokens InfixToPostfix has not read
  op_stack, arity_stack, prev_was_number, prev_was_close,
  postfix,
  todo, num_stack,    \* values EvaluatePostfix has not read, and its stack
  n,                  \* sets still to roll
  hasOps,             \* timesResults, opResults: dice were thrown or a function called
  results, errCode,
  replies             \* "result", "overflow" or "error", as sent

parser == <<rest, op_stack, arity_stack, prev_was_number, prev_was_close, postfix>>
asked  == <<request, timesPart, dicePart>>
vars   == <<asked, part, phase, parser, todo, num_stack, n, hasOps, results, errCode, replies>>

-----------------------------------------------------------------------------
(* Symbols *)

Digits    == {"0", "1", "2", "3", "4", "5", "6", "7", "8", "9"}
DigitOf   == [c \in Digits |-> CHOOSE i \in 0..9 : ToString(i) = c]
Constants == {"e", "pi"}
OneArg    == {"abs", "fac"}
TwoArgs   == {"rand"}
ManyArgs  == {"max", "min"}
Functions == OneArg \union TwoArgs \union ManyArgs
MulDiv    == {"*", "%"}
PlusMin   == {"+", "-"}
OpNoParen == PlusMin \union MulDiv \union {"^", "d"}

\* A call binds tightest: any operator pops a function.
Precedence(o) ==
  CASE o \in Functions -> 5 [] o = "d" -> 4 [] o = "^" -> 3 [] o \in MulDiv -> 2 [] o \in PlusMin -> 1

-----------------------------------------------------------------------------
(* FixInfix, CheckInfix and TokenizeInfix *)

Before(s, x) == IF x > 1 THEN s[x - 1] ELSE ""
After(s, x)  == IF x < Len(s) THEN s[x + 1] ELSE ""

\* prev_was_func and prev_was_const: a name does not reset the flag of another.
PrevWas(s, x, names) ==
  \E k \in 1..(x - 1) : s[k] \in names /\ \A j \in k..(x - 1) : s[j] \in Functions \union Constants

If(c, s) == IF c THEN s ELSE <<>>

\* What FixInfix writes for a minus sign: _ marks a negative number, and 0- is
\* put for the sign of what follows otherwise.
FixMinus(s, x) ==
  LET p == Before(s, x)
      q == After(s, x)
      sign == q # "" /\ (x = 1 \/ p \in OpNoParen \union {"(", ","})
  IN IF sign /\ q \in {"("} \union Functions THEN <<"0", "-">>
     ELSE IF sign /\ q \in Digits \union Constants THEN <<"_">>
     ELSE <<"-">>

\* What it writes for the symbol at x: a 1 before a bare d, 100 for the % after
\* a d, and the * of an implicit multiplication.
FixSymbol(s, x) ==
  LET p == Before(s, x)
      q == After(s, x)
      c == s[x]
  IN CASE c \in Functions -> If(p \in Digits, <<"*">>) \o <<c>>
       [] c \in Constants -> If(p \in Digits, <<"*">>) \o <<c>>
                             \o If(q \in Digits \union Constants \union Functions, <<"*">>)
       [] c = "d" -> If(p \notin Digits \union {")"} /\ ~PrevWas(s, x, Constants), <<"1">>) \o <<"d">>
                     \o If(q = "%", <<"1", "0", "0">>)
       [] c = "%" -> If(p # "d", <<"%">>)
       [] c = "(" -> If(~PrevWas(s, x, Functions) /\ (p \in Digits \/ PrevWas(s, x, Constants)), <<"*">>)
                     \o <<"(">>
       [] c = ")" -> <<")">> \o If(q \in Digits \union {"("} \union Constants, <<"*">>)
       [] c = "-" -> FixMinus(s, x)
       [] OTHER   -> <<c>>

FixInfix(s) ==
  IF s = <<"%">> THEN <<"1", "d", "1", "0", "0">>
  ELSE FlattenSeq([x \in DOMAIN s |-> FixSymbol(s, x)])

AfterNumber(s, x) == Before(s, x) \in Digits \union {")"} \/ PrevWas(s, x, Constants)
BeforeNumber(s, x) == After(s, x) \in Digits \union {"(", "_"} \union Constants \union Functions

\* A plausible slip: something follows a function, a bracket or not.
FollowedByAnything(s, x) == After(s, x) # ""
FollowedByBracket(s, x) == After(s, x) = "("

CheckInfix(s) ==
  \A x \in DOMAIN s :
    LET p == Before(s, x)
        q == After(s, x)
        c == s[x]
    IN \/ c \in Functions /\ FollowedByBracket(s, x)
       \/ c \in Constants \union Digits \union {"_"}
       \/ c \in OpNoParen \union {","} /\ AfterNumber(s, x) /\ BeforeNumber(s, x)
       \/ /\ c = "("
          /\ p \in OpNoParen \union {"", "(", ","} \/ PrevWas(s, x, Functions)
          /\ q = "" \/ BeforeNumber(s, x)
       \/ /\ c = ")"
          /\ p = "" \/ AfterNumber(s, x)
          /\ q \in OpNoParen \union {"", ")", ","}

Word == Digits \union {"_"}

\* Digits and _ run together; a constant joins a _ before it.
TokenizeInfix(s) ==
  FoldLeft(LAMBDA ts, c :
             IF ts # <<>> /\ \/ c \in Word /\ Last(Last(ts)) \in Word
                             \/ c \in Constants /\ Last(Last(ts)) = "_"
             THEN Front(ts) \o <<Append(Last(ts), c)>>
             ELSE Append(ts, <<c>>),
           <<>>, s)

Item(kind, name, value) == [kind |-> kind, name |-> name, value |-> value]

Decimal(ds) == FoldLeft(LAMBDA v, c : 10 * v + DigitOf[c], 0, ds)

\* The token as InfixToPostfix takes it: a number, not a number, or a symbol.
Token(t) ==
  LET neg  == t[1] = "_"
      body == IF neg THEN Tail(t) ELSE t
      sign == IF neg THEN -1 ELSE 1
  IN IF body # <<>> /\ Range(body) \subseteq Digits THEN Item("number", "", sign * Decimal(body))
     ELSE IF body # <<>> /\ body[1] \in Constants THEN Item("number", "", sign * ConstantValue)
     ELSE IF t[1] \in Word THEN Item("nan", "", 0)
     ELSE Item("symbol", t[1], 0)

Tokens(s) == LET ts == TokenizeInfix(s) IN [i \in DOMAIN ts |-> Token(ts[i])]

-----------------------------------------------------------------------------
(* PreParse, Roller and DoParse *)

\* x[y] is another way to write x~y, and the first ~ ends the number of times.
Bracketless(s) ==
  LET at == SelectInSeq(s, LAMBDA c : c = "[") IN
  IF at > 0 /\ Last(s) = "]" THEN Front([s EXCEPT ![at] = "~"]) ELSE s

Stop(e) ==
  /\ phase' = "reply" /\ errCode' = e
  /\ UNCHANGED <<part, parser, todo, num_stack, n, results>>

Fail(e) == Stop(e) /\ UNCHANGED <<asked, hasOps, replies>>

\* DoParse up to InfixToPostfix.
Parse(text, p) ==
  /\ part' = p
  /\ LET s == FixInfix(text) IN
     IF s = <<>>
     THEN phase' = "reply" /\ UNCHANGED <<parser, errCode>>
     ELSE IF ~CheckInfix(s)
     THEN phase' = "reply" /\ errCode' = "parse" /\ UNCHANGED parser
     ELSE /\ phase' = "parse"
          /\ rest' = Tokens(s)
          /\ op_stack' = <<>> /\ arity_stack' = <<>> /\ postfix' = <<>>
          /\ prev_was_number' = FALSE /\ prev_was_close' = FALSE
          /\ UNCHANGED errCode
  /\ todo' = <<>> /\ num_stack' = <<>>
  /\ UNCHANGED results

Start ==
  /\ phase = "start"
  /\ LET s  == Bracketless(request.text)
         at == SelectInSeq(s, LAMBDA c : c = "~")
         times == SubSeq(s, 1, at - 1)
         dice  == SubSeq(s, at + 1, Len(s))
     IN /\ timesPart' = times /\ dicePart' = dice
        /\ IF times = <<>> THEN Parse(dice, "dice") /\ n' = 1
           ELSE IF dice = <<>> THEN Stop("parse")
           ELSE Parse(times, "times") /\ UNCHANGED n
  /\ UNCHANGED <<request, hasOps, replies>>

\* CheckMessageLengthPreProcess: not even the request fits a message.
RefuseLong ==
  /\ phase = "start"
  /\ phase' = "done" /\ replies' = <<"overflow">>
  /\ UNCHANGED <<asked, part, parser, todo, num_stack, n, hasOps, results, errCode>>

-----------------------------------------------------------------------------
(* InfixToPostfix *)

Top == IF op_stack = <<>> THEN "" ELSE Last(op_stack)

\* A plausible slip: ^ associates to the left, like the others.
WouldPopLeft(adding, top) ==
  /\ top \notin {"", "("}
  /\ adding \in OpNoParen => Precedence(top) >= Precedence(adding)

\* would_pop for the adding of an operator, of ) and , and of nothing.
WouldPop(adding, top) ==
  /\ top \notin {"", "("}
  /\ adding \in OpNoParen => \/ Precedence(top) > Precedence(adding)
                             \/ Precedence(top) = Precedence(adding) /\ adding # "^"

Parsing    == phase = "parse"
Reads(S)   == Parsing /\ rest # <<>> /\ rest[1].kind = "symbol" /\ rest[1].name \in S
Parsed     == UNCHANGED <<asked, part, todo, num_stack, n, hasOps, results, replies>>
Reading    == Parsed /\ UNCHANGED <<phase, errCode>>
Next1      == rest' = Tail(rest)

AddNumber ==
  /\ Parsing /\ rest # <<>> /\ rest[1].kind = "number"
  /\ Next1 /\ postfix' = Append(postfix, rest[1])
  /\ prev_was_number' = TRUE
  /\ Reading /\ UNCHANGED <<op_stack, arity_stack, prev_was_close>>

\* A plausible slip: the arguments of the call are not counted.
AddFunctionUncounted ==
  /\ Reads(Functions)
  /\ Next1 /\ op_stack' = Append(op_stack, rest[1].name)
  /\ Reading /\ UNCHANGED <<arity_stack, prev_was_number, prev_was_close, postfix>>

AddFunction ==
  /\ Reads(Functions)
  /\ Next1 /\ op_stack' = Append(op_stack, rest[1].name)
  /\ arity_stack' = Append(arity_stack, 1)
  /\ Reading /\ UNCHANGED <<prev_was_number, prev_was_close, postfix>>

HasNumber == prev_was_number \/ prev_was_close

\* A number that is none, or an operator without a number before it.
RefuseToken ==
  /\ Parsing /\ rest # <<>>
  /\ LET bare == rest[1].name \in OpNoParen /\ ~HasNumber IN
     /\ rest[1].kind = IF bare THEN "symbol" ELSE "nan"
     /\ Fail(IF bare THEN "parse" ELSE "undefined")

\* The top of op_stack goes to the postfix; a function takes its number of
\* arguments along where the code looks at arity_stack.
PopWith(counted) ==
  LET f == Top IN
  /\ op_stack' = Front(op_stack)
  /\ IF f \in Functions /\ counted
     THEN /\ postfix' = Append(postfix, Item("function", f, IF f \in ManyArgs THEN Last(arity_stack) ELSE 0))
          /\ arity_stack' = Front(arity_stack)
     ELSE /\ postfix' = Append(postfix, Item(IF f \in Functions THEN "function" ELSE "operator", f, 0))
          /\ UNCHANGED arity_stack
  /\ Reading /\ UNCHANGED <<rest, prev_was_number, prev_was_close>>

PopForOperator == Reads(OpNoParen) /\ HasNumber /\ WouldPop(rest[1].name, Top) /\ PopWith(TRUE)

\* ) and , pop functions without a look at arity_stack.
PopInBrackets == Reads({")", ","}) /\ WouldPop(rest[1].name, Top) /\ PopWith(FALSE)

PushOperator ==
  /\ Reads(OpNoParen) /\ HasNumber /\ ~WouldPop(rest[1].name, Top)
  /\ Next1 /\ op_stack' = Append(op_stack, rest[1].name)
  /\ prev_was_number' = FALSE /\ prev_was_close' = FALSE
  /\ Reading /\ UNCHANGED <<arity_stack, postfix>>

Open ==
  /\ Reads({"("})
  /\ Next1 /\ op_stack' = Append(op_stack, "(")
  /\ prev_was_number' = FALSE /\ prev_was_close' = FALSE
  /\ Reading /\ UNCHANGED <<arity_stack, postfix>>

Close ==
  /\ Reads({")"}) /\ ~WouldPop(")", Top)
  /\ IF Top # "(" THEN Fail("parse")
     ELSE /\ Next1 /\ op_stack' = Front(op_stack)
          /\ prev_was_number' = FALSE /\ prev_was_close' = TRUE
          /\ Reading /\ UNCHANGED <<arity_stack, postfix>>

InCall == Len(op_stack) > 1 /\ op_stack[Len(op_stack) - 1] \in Functions

Comma ==
  /\ Reads({","}) /\ ~WouldPop(",", Top)
  /\ IF Top # "(" \/ ~InCall THEN Fail("parse")
     ELSE /\ Next1
          /\ arity_stack' = [arity_stack EXCEPT ![Len(arity_stack)] = @ + 1]
          /\ Reading /\ UNCHANGED <<op_stack, prev_was_number, prev_was_close, postfix>>

Flush == Parsing /\ rest = <<>> /\ WouldPop("", Top) /\ PopWith(TRUE)

\* What is left is evaluated, unless it is an open bracket or nothing at all.
EndParse ==
  /\ Parsing /\ rest = <<>> /\ ~WouldPop("", Top)
  /\ IF op_stack # <<>> THEN Fail("parse")
     ELSE /\ phase' = IF postfix = <<>> THEN "reply" ELSE "evaluate"
          /\ todo' = postfix /\ num_stack' = <<>>
          /\ UNCHANGED <<asked, part, parser, n, hasOps, results, errCode, replies>>

-----------------------------------------------------------------------------
(* EvaluatePostfix: a value, or an error, out of those that may come *)

Value(v) == [err |-> "none", v |-> v]
Error(e) == [err |-> e, v |-> 0]

Abs(v)     == IF v < 0 THEN -v ELSE v
Largest(S) == CHOOSE v \in S : \A w \in S : w <= v
Least(S)   == CHOOSE v \in S : \A w \in S : v <= w
Fmod(a, b) == IF a < 0 THEN -((-a) % Abs(b)) ELSE a % Abs(b)
Factorial  == [k \in 0..12 |-> FoldLeft(LAMBDA v, i : v * i, 1, [i \in 1..k |-> i])]

\* Dice and DiceResult::Sum: any total, in unsigned arithmetic.
Sums(num, sides) == {Value(t % UnsignedSize) : t \in num..(num * sides)}

Call(f, args) ==
  CASE f = "abs"  -> {Value(Abs(args[1]))}
    [] f = "fac"  -> {IF args[1] < 0 THEN Error("undefined")
                      ELSE IF args[1] > 12 THEN Error("range")
                      ELSE Value(Factorial[args[1]])}
    [] f = "rand" -> {Value(v) : v \in Least(Range(args))..Largest(Range(args))}
    [] f = "max"  -> {Value(Largest(Range(args)))}
    [] f = "min"  -> {Value(Least(Range(args)))}

\* A negative power of a number other than 1 and -1 is a fraction.
Checked(v) == IF Abs(v) > DoubleMax THEN Error("range") ELSE Value(v)

PowerUpTo(a, b) ==
  FoldLeft(LAMBDA v, i : IF Abs(v) > DoubleMax THEN v ELSE v * a, 1, [i \in 1..b |-> i])

Power(a, b) ==
  IF a = 0 /\ b = 0 THEN Error("div0")
  ELSE IF a = 0 /\ b < 0 THEN Error("range")
  ELSE IF b >= 0 \/ Abs(a) = 1 THEN Checked(PowerUpTo(a, Abs(b)))
  ELSE Error("fraction")

Operate(o, a, b) ==
  CASE o = "+" -> {Checked(a + b)}
    [] o = "-" -> {Checked(a - b)}
    [] o = "*" -> {Checked(a * b)}
    [] o = "%" -> {IF b = 0 THEN Error("div0") ELSE Value(Fmod(a, b))}
    [] o = "^" -> {Power(a, b)}
    [] o = "d" -> IF a < 1 \/ a > DiceMaxDice THEN {Error("dice")}
                  ELSE IF b < 1 \/ b > DiceMaxSides THEN {Error("sides")}
                  ELSE Sums(a, b)

Evaluating(kind) == phase = "evaluate" /\ todo # <<>> /\ todo[1].kind = kind

\* The last k numbers are replaced by one of the outcomes.
Reduce(k, shown, outcomes) ==
  \E r \in outcomes :
    IF r.err # "none" THEN Fail(r.err)
    ELSE /\ num_stack' = Append(SubSeq(num_stack, 1, Len(num_stack) - k), r.v)
         /\ todo' = Tail(todo)
         /\ hasOps' = (hasOps \/ shown)
         /\ UNCHANGED <<asked, part, phase, parser, n, results, errCode, replies>>

LastOf(k) == SubSeq(num_stack, Len(num_stack) - k + 1, Len(num_stack))

EvaluateNumber == Evaluating("number") /\ Reduce(0, FALSE, {Value(todo[1].value)})

EvaluateOperator ==
  /\ Evaluating("operator")
  /\ IF Len(num_stack) < 2 THEN Fail("stack")
     ELSE Reduce(2, todo[1].name = "d", Operate(todo[1].name, LastOf(2)[1], LastOf(2)[2]))

ArgumentCount(i) ==
  IF i.name \in ManyArgs THEN i.value ELSE IF i.name \in TwoArgs THEN 2 ELSE 1

EvaluateFunction ==
  /\ Evaluating("function")
  /\ LET f == todo[1].name
         k == ArgumentCount(todo[1])
     IN IF (f \in ManyArgs /\ k < 2) \/ Len(num_stack) < k THEN Fail("stack")
        ELSE Reduce(k, TRUE, Call(f, LastOf(k)))

\* DoEvaluate, and what Roller does with the value.
EndEvaluate ==
  /\ phase = "evaluate" /\ todo = <<>>
  /\ LET v == Last(num_stack) IN
     IF Len(num_stack) > 1 THEN Stop("stack")
     ELSE IF v > IntMax \/ v < -IntMax - 1 THEN Stop("range")
     ELSE IF part = "times"
     THEN IF v < 1 \/ v > DiceMaxTimes THEN Stop("times")
          ELSE Parse(dicePart, "dice") /\ n' = v
     ELSE /\ results' = Append(results, v)
          /\ n' = n - 1
          /\ phase' = IF n = 1 THEN "reply" ELSE phase
          /\ todo' = postfix /\ num_stack' = <<>>
          /\ UNCHANGED <<part, parser, errCode>>
  /\ UNCHANGED <<asked, hasOps, replies>>

-----------------------------------------------------------------------------
(* Execute of ROLL and EXROLL: with what is shown for each die, in short,   *)
(* or the results alone                                                    *)

HasExtended == request.extended /\ hasOps

Outputs == IF HasExtended THEN 3 ELSE 1

Answer(said) ==
  /\ phase = "reply"
  /\ phase' = "done" /\ replies' = said
  /\ UNCHANGED <<asked, part, parser, todo, num_stack, n, hasOps, results, errCode>>

ReplyError == errCode # "none" /\ Answer(<<"error">>)

\* CheckMessageLengthPostProcess tells the user of each output that is too long.
ReplyResult ==
  /\ errCode = "none"
  /\ \E k \in 0..Outputs :
       Answer([i \in 1..k |-> "overflow"] \o If(k < Outputs, <<"result">>))

-----------------------------------------------------------------------------
Init ==
  /\ request \in Requests
  /\ timesPart = <<>> /\ dicePart = <<>>
  /\ part = "dice" /\ phase = "start"
  /\ rest = <<>> /\ op_stack = <<>> /\ arity_stack = <<>> /\ postfix = <<>>
  /\ prev_was_number = FALSE /\ prev_was_close = FALSE
  /\ todo = <<>> /\ num_stack = <<>>
  /\ n = 0 /\ hasOps = FALSE /\ results = <<>> /\ errCode = "none" /\ replies = <<>>

InfixToPostfix ==
  \/ AddNumber \/ RefuseToken \/ AddFunction
  \/ PopForOperator \/ PushOperator
  \/ Open \/ PopInBrackets \/ Close \/ Comma
  \/ Flush \/ EndParse

EvaluatePostfix == EvaluateNumber \/ EvaluateOperator \/ EvaluateFunction \/ EndEvaluate

Done == phase = "done" /\ UNCHANGED vars

Execute == Start \/ RefuseLong \/ ReplyError \/ ReplyResult

Next == Execute \/ InfixToPostfix \/ EvaluatePostfix \/ Done

Spec == Init /\ [][Next]_vars

-----------------------------------------------------------------------------
(* Properties *)

FunctionsOn(s) == {i \in DOMAIN s : s[i] \in Functions}

\* The tops of stacks the code reads without a look are there: arity_stack has
\* an entry for each function on op_stack, and the evaluation ends with a
\* number on num_stack (InfixToPostfix, EvaluatePostfix).
StacksHoldWhatIsRead ==
  /\ phase = "parse" => Cardinality(FunctionsOn(op_stack)) <= Len(arity_stack)
  /\ phase = "evaluate" /\ todo = <<>> => num_stack # <<>>
=============================================================================
