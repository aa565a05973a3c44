----------------------------- MODULE DiceProofs -----------------------------
(***************************************************************************)
(* DiceServ never reads the top of an empty stack, for any text a user     *)
(* types and any limits: an invariant over the shunting yard, which pops   *)
(* functions with and without their argument counts, and over the stack    *)
(* machine, which ends with a number.  Nothing is assumed of the tokens,   *)
(* so neither FixInfix nor CheckInfix is needed for it.                    *)
(***************************************************************************)
EXTENDS Dice, FiniteSetTheorems, TLAPS

\* A sequence, of whatever.
Sequence(s) == \E S : s \in Seq(S)

\* What the postfix is made of: a function comes with a number of arguments.
Postfix(s) == Sequence(s) /\ \A i \in DOMAIN s : s[i].kind = "function" => s[i].value \in Nat

OnOpStack == Functions \union OpNoParen \union {"("}

\* There is an argument count for each function on the operator stack.
Counted(ops, arities) ==
  /\ ops \in Seq(OnOpStack) /\ arities \in Seq(Nat)
  /\ Cardinality(FunctionsOn(ops)) <= Len(arities)

\* Values are left to evaluate or a number is on the stack.
Productive == postfix # <<>> /\ (todo = <<>> => num_stack # <<>>)

IInv ==
  /\ Counted(op_stack, arity_stack)
  /\ Postfix(postfix) /\ Postfix(todo) /\ Sequence(num_stack)
  /\ phase = "evaluate" => Productive

-----------------------------------------------------------------------------
(* Sequences *)

\* Appending to a sequence makes one that is not empty.
LEMMA AppendMakes ==
  ASSUME NEW s, Sequence(s), NEW e
  PROVE  Sequence(Append(s, e)) /\ Append(s, e) # <<>>
<1>1. PICK S : s \in Seq(S)
  BY DEF Sequence
<1>2. s \in Seq(S \union {e}) /\ e \in S \union {e}
  BY <1>1
<1>3. Append(s, e) \in Seq(S \union {e}) /\ Len(Append(s, e)) = Len(s) + 1 /\ Len(s) \in Nat
  BY <1>2
<1>4. Append(s, e) # <<>>
  BY <1>3
<1> QED BY <1>3, <1>4 DEF Sequence

\* The front of a sequence is one.
LEMMA FrontMakes ==
  ASSUME NEW s, Sequence(s), NEW k \in Nat, k <= Len(s)
  PROVE  Sequence(SubSeq(s, 1, Len(s) - k))
<1>1. PICK S : s \in Seq(S)
  BY DEF Sequence
<1>2. SubSeq(s, 1, Len(s) - k) \in Seq(S)
  BY <1>1
<1> QED BY <1>2 DEF Sequence

\* Nothing is a sequence.
LEMMA EmptyMakes == Sequence(<<>>) /\ Postfix(<<>>)
<1>1. <<>> \in Seq({}) /\ DOMAIN <<>> = {}
  OBVIOUS
<1> QED BY <1>1 DEF Sequence, Postfix

\* A postfix grows by a value that is no function or carries its count.
LEMMA PostfixGrows ==
  ASSUME NEW s, Postfix(s), NEW e, e.kind = "function" => e.value \in Nat
  PROVE  Postfix(Append(s, e))
<1>1. PICK S : s \in Seq(S)
  BY DEF Postfix, Sequence
<1>2. s \in Seq(S \union {e}) /\ e \in S \union {e}
  BY <1>1
<1>3. /\ DOMAIN Append(s, e) = 1..(Len(s) + 1) /\ DOMAIN s = 1..Len(s) /\ Len(s) \in Nat
      /\ \A i \in 1..Len(s) : Append(s, e)[i] = s[i]
      /\ Append(s, e)[Len(s) + 1] = e
  BY <1>2
<1>4. \A i \in 1..(Len(s) + 1) : i \in 1..Len(s) \/ i = Len(s) + 1
  BY <1>3
<1>5. Sequence(Append(s, e))
  BY AppendMakes DEF Postfix
<1> QED BY <1>3, <1>4, <1>5 DEF Postfix

\* What is left of a postfix after its first value.
LEMMA PostfixShrinks ==
  ASSUME NEW s, Postfix(s), s # <<>>
  PROVE  Postfix(Tail(s)) /\ (s[1].kind = "function" => s[1].value \in Nat)
<1>1. PICK S : s \in Seq(S)
  BY DEF Postfix, Sequence
<1>2. /\ Tail(s) \in Seq(S) /\ DOMAIN Tail(s) = 1..(Len(s) - 1) /\ DOMAIN s = 1..Len(s)
      /\ Len(s) \in Nat /\ Len(s) > 0
      /\ \A i \in 1..(Len(s) - 1) : Tail(s)[i] = s[i + 1] /\ i + 1 \in 1..Len(s)
  BY <1>1
<1>3. 1 \in DOMAIN s
  BY <1>2
<1> QED BY <1>2, <1>3 DEF Postfix, Sequence

-----------------------------------------------------------------------------
(* Functions on the operator stack *)

\* They are finitely many.
LEMMA FunctionsFinite ==
  ASSUME NEW s \in Seq(OnOpStack)
  PROVE  IsFiniteSet(FunctionsOn(s)) /\ Cardinality(FunctionsOn(s)) \in Nat
<1>1. FunctionsOn(s) \subseteq 1..Len(s) /\ Len(s) \in Nat
  BY DEF FunctionsOn
<1>2. IsFiniteSet(1..Len(s))
  BY <1>1, FS_Interval
<1> QED BY <1>1, <1>2, FS_Subset, FS_CardinalityType

\* A push adds one, if it is a function.
LEMMA Pushed ==
  ASSUME NEW s \in Seq(OnOpStack), NEW o \in OnOpStack
  PROVE  /\ Append(s, o) \in Seq(OnOpStack)
         /\ FunctionsOn(Append(s, o)) =
              FunctionsOn(s) \union (IF o \in Functions THEN {Len(s) + 1} ELSE {})
         /\ Len(s) + 1 \notin FunctionsOn(s)
BY DEF FunctionsOn

\* A pop takes one away, if it is a function.
LEMMA Popped ==
  ASSUME NEW s \in Seq(OnOpStack), s # <<>>
  PROVE  /\ Front(s) \in Seq(OnOpStack)
         /\ FunctionsOn(Front(s)) = FunctionsOn(s) \ {Len(s)}
         /\ Len(s) \in FunctionsOn(s) <=> Last(s) \in Functions
<1>1. /\ Len(s) \in Nat /\ Len(s) > 0 /\ DOMAIN s = 1..Len(s)
      /\ Front(s) = SubSeq(s, 1, Len(s) - 1) /\ Last(s) = s[Len(s)]
  BY DEF Front, Last
<1>2. /\ Front(s) \in Seq(OnOpStack) /\ DOMAIN Front(s) = 1..(Len(s) - 1)
      /\ \A i \in 1..(Len(s) - 1) : Front(s)[i] = s[i]
  BY <1>1
<1>3. 1..(Len(s) - 1) = (1..Len(s)) \ {Len(s)} /\ Len(s) \in 1..Len(s)
  BY <1>1
<1> QED BY <1>1, <1>2, <1>3 DEF FunctionsOn

\* The counts suffice for a smaller set of functions.
LEMMA FewerFunctions ==
  ASSUME NEW s \in Seq(OnOpStack), s # <<>>
  PROVE  /\ Cardinality(FunctionsOn(Front(s))) <= Cardinality(FunctionsOn(s))
         /\ Last(s) \in Functions =>
              Cardinality(FunctionsOn(Front(s))) = Cardinality(FunctionsOn(s)) - 1
<1>1. /\ IsFiniteSet(FunctionsOn(s)) /\ Cardinality(FunctionsOn(s)) \in Nat
      /\ FunctionsOn(Front(s)) = FunctionsOn(s) \ {Len(s)}
      /\ Len(s) \in FunctionsOn(s) <=> Last(s) \in Functions
  BY FunctionsFinite, Popped
<1>2. Cardinality(FunctionsOn(s) \ {Len(s)}) =
        IF Len(s) \in FunctionsOn(s) THEN Cardinality(FunctionsOn(s)) - 1 ELSE Cardinality(FunctionsOn(s))
  BY <1>1, FS_RemoveElement
<1> QED BY <1>1, <1>2

\* Where there is a function there is a count to read.
LEMMA CountIsThere ==
  ASSUME NEW ops, NEW arities, Counted(ops, arities), NEW i \in DOMAIN ops, ops[i] \in Functions
  PROVE  Len(arities) \in Nat /\ Len(arities) > 0 /\ Cardinality(FunctionsOn(ops)) > 0
<1>1. IsFiniteSet(FunctionsOn(ops)) /\ Cardinality(FunctionsOn(ops)) \in Nat
  BY FunctionsFinite DEF Counted
<1>2. FunctionsOn(ops) # {}
  BY DEF FunctionsOn
<1>3. Cardinality(FunctionsOn(ops)) # 0
  BY <1>1, <1>2, FS_EmptySet
<1> QED BY <1>1, <1>3 DEF Counted

-----------------------------------------------------------------------------
(* InfixToPostfix, action by action *)

\* Steps that leave the evaluation and the stacks of the parser alone.
LEMMA NothingMoves ==
  ASSUME IInv, UNCHANGED <<op_stack, arity_stack, postfix, todo, num_stack>>,
         phase' = "evaluate" => phase = "evaluate"
  PROVE  IInv'
BY DEF IInv, Counted, Postfix, Sequence, Productive

\* A step of the parser that moves symbols between its stacks keeps the invariant.
LEMMA ParserMoves ==
  ASSUME IInv, Parsing, Reading,
         Counted(op_stack', arity_stack'), Postfix(postfix')
  PROVE  IInv'
BY DEF IInv, Parsing, Reading, Parsed, Postfix, Sequence, Counted

\* Failing ends the parse or the evaluation where it stands.
LEMMA FailKeeps ==
  ASSUME IInv, NEW e, Fail(e)
  PROVE  IInv'
BY NothingMoves DEF Fail, Stop, parser

\* A number goes to the postfix.
LEMMA AddNumberKeeps == ASSUME IInv, AddNumber PROVE IInv'
<1>1. Postfix(postfix')
  BY PostfixGrows DEF AddNumber, IInv
<1>2. Counted(op_stack', arity_stack') /\ Parsing /\ Reading
  BY DEF AddNumber, IInv
<1> QED BY <1>1, <1>2, ParserMoves

\* A function comes with a first argument.
LEMMA AddFunctionKeeps == ASSUME IInv, AddFunction PROVE IInv'
<1> DEFINE f == rest[1].name
           n1 == Len(op_stack) + 1
<1>1. /\ Counted(op_stack, arity_stack) /\ Parsing /\ Reading /\ Postfix(postfix')
      /\ f \in Functions /\ f \in OnOpStack
      /\ op_stack' = Append(op_stack, f) /\ arity_stack' = Append(arity_stack, 1)
  BY DEF AddFunction, Reads, OnOpStack, IInv
<1> HIDE DEF f
<1>2. /\ op_stack' \in Seq(OnOpStack)
      /\ FunctionsOn(op_stack') = FunctionsOn(op_stack) \union {n1}
      /\ n1 \notin FunctionsOn(op_stack)
  BY <1>1, Pushed DEF Counted
<1> HIDE DEF n1
<1>3. IsFiniteSet(FunctionsOn(op_stack)) /\ Cardinality(FunctionsOn(op_stack)) \in Nat
  BY <1>1, FunctionsFinite DEF Counted
<1>4. Cardinality(FunctionsOn(op_stack) \union {n1}) = Cardinality(FunctionsOn(op_stack)) + 1
  BY <1>2, <1>3, FS_AddElement
<1>5. arity_stack' \in Seq(Nat) /\ Len(arity_stack') = Len(arity_stack) + 1 /\ Len(arity_stack) \in Nat
  BY <1>1 DEF Counted
<1>6. Cardinality(FunctionsOn(op_stack')) <= Len(arity_stack')
  BY <1>1, <1>2, <1>3, <1>4, <1>5 DEF Counted
<1>7. Counted(op_stack', arity_stack')
  BY <1>2, <1>5, <1>6 DEF Counted
<1> QED BY <1>1, <1>7, ParserMoves

\* Pushing anything but a function needs no count.
LEMMA PushKeeps ==
  ASSUME IInv, Parsing, Reading, NEW o \in OnOpStack \ Functions,
         op_stack' = Append(op_stack, o), UNCHANGED <<arity_stack, postfix>>
  PROVE  IInv'
<1>1. Counted(op_stack, arity_stack) /\ Postfix(postfix')
  BY DEF IInv
<1>2. op_stack' \in Seq(OnOpStack) /\ FunctionsOn(op_stack') = FunctionsOn(op_stack)
  BY <1>1, Pushed DEF Counted
<1>3. Counted(op_stack', arity_stack')
  BY <1>1, <1>2 DEF Counted
<1> QED BY <1>1, <1>3, ParserMoves

\* Operators and open brackets are pushed.
LEMMA PushesKeep == ASSUME IInv, PushOperator \/ Open PROVE IInv'
<1>1. "(" \notin Functions /\ OpNoParen \intersect Functions = {}
  BY DEF OpNoParen, PlusMin, MulDiv, Functions, OneArg, TwoArgs, ManyArgs
<1>2. CASE PushOperator
  BY <1>1, <1>2, PushKeeps DEF PushOperator, Reads, OnOpStack
<1>3. CASE Open
  BY <1>1, <1>3, PushKeeps DEF Open, Reads, OnOpStack
<1> QED BY <1>2, <1>3

\* A top that is something is the last of the operator stack.
LEMMA TopIsLast ==
  /\ op_stack = <<>> => Top = ""
  /\ op_stack # <<>> => Top = Last(op_stack)
BY DEF Top

\* A stack that is not empty has a last element.
LEMMA LastIsThere ==
  ASSUME NEW S, NEW s \in Seq(S), s # <<>>
  PROVE  /\ Len(s) \in Nat /\ Len(s) > 0 /\ Len(s) \in DOMAIN s
         /\ Last(s) = s[Len(s)] /\ Last(s) \in S
         /\ Front(s) \in Seq(S) /\ Len(Front(s)) = Len(s) - 1
<1>1. Len(s) \in Nat /\ Len(s) > 0 /\ DOMAIN s = 1..Len(s)
  OBVIOUS
<1>2. Len(s) \in DOMAIN s /\ s[Len(s)] \in S
  BY <1>1
<1>3. Front(s) = SubSeq(s, 1, Len(s) - 1) /\ Last(s) = s[Len(s)]
  BY DEF Front, Last
<1>4. SubSeq(s, 1, Len(s) - 1) \in Seq(S) /\ Len(SubSeq(s, 1, Len(s) - 1)) = Len(s) - 1
  BY <1>1
<1> QED BY <1>1, <1>2, <1>3, <1>4

\* Popping without a look at arity_stack leaves counts over; popping with one takes
\* the count of the function, which is there.
LEMMA PopKeeps ==
  ASSUME IInv, Parsing, op_stack # <<>>, NEW counted \in BOOLEAN, PopWith(counted)
  PROVE  IInv'
<1>1. Counted(op_stack, arity_stack) /\ Postfix(postfix) /\ Reading /\ op_stack' = Front(op_stack)
  BY DEF IInv, PopWith
<1>2. Top = Last(op_stack) /\ Last(op_stack) = op_stack[Len(op_stack)] /\ Len(op_stack) \in DOMAIN op_stack
  BY <1>1, TopIsLast, LastIsThere DEF Counted
<1>3. /\ op_stack' \in Seq(OnOpStack)
      /\ Cardinality(FunctionsOn(op_stack')) <= Cardinality(FunctionsOn(op_stack))
      /\ Top \in Functions =>
           Cardinality(FunctionsOn(op_stack')) = Cardinality(FunctionsOn(op_stack)) - 1
  BY <1>1, <1>2, Popped, FewerFunctions DEF Counted
<1>4. Cardinality(FunctionsOn(op_stack)) \in Nat /\ Cardinality(FunctionsOn(op_stack')) \in Nat
  BY <1>1, <1>3, FunctionsFinite DEF Counted
<1>5. CASE Top \in Functions /\ counted
  <2>1. op_stack[Len(op_stack)] \in Functions
    BY <1>2, <1>5
  <2>2. Len(arity_stack) \in Nat /\ Len(arity_stack) > 0 /\ arity_stack \in Seq(Nat)
    BY <1>1, <1>2, <2>1, CountIsThere DEF Counted
  <2>3. /\ arity_stack' = Front(arity_stack)
        /\ postfix' = Append(postfix, Item("function", Top, IF Top \in ManyArgs THEN Last(arity_stack) ELSE 0))
    BY <1>5 DEF PopWith
  <2>4. /\ arity_stack' \in Seq(Nat) /\ Len(arity_stack') = Len(arity_stack) - 1
        /\ Last(arity_stack) \in Nat
    <3>1. arity_stack # <<>>
      BY <2>2
    <3> QED BY <2>2, <2>3, <3>1, LastIsThere
  <2>5. Cardinality(FunctionsOn(op_stack)) <= Len(arity_stack)
    BY <1>1 DEF Counted
  <2>6. Cardinality(FunctionsOn(op_stack')) <= Len(arity_stack')
    BY <1>3, <1>4, <1>5, <2>2, <2>4, <2>5
  <2>7. Counted(op_stack', arity_stack')
    BY <1>3, <2>4, <2>6 DEF Counted
  <2>8. Postfix(postfix')
    BY <1>1, <2>3, <2>4, PostfixGrows DEF Item
  <2> QED BY <1>1, <2>7, <2>8, ParserMoves
<1>6. CASE ~(Top \in Functions /\ counted)
  <2>1. /\ arity_stack' = arity_stack
        /\ postfix' = Append(postfix, Item(IF Top \in Functions THEN "function" ELSE "operator", Top, 0))
    BY <1>6 DEF PopWith
  <2>2. /\ Cardinality(FunctionsOn(op_stack)) <= Len(arity_stack)
        /\ arity_stack \in Seq(Nat) /\ Len(arity_stack) \in Nat
    BY <1>1 DEF Counted
  <2>3. Cardinality(FunctionsOn(op_stack')) <= Len(arity_stack)
    BY <1>3, <1>4, <2>2
  <2>4. Counted(op_stack', arity_stack')
    BY <1>3, <2>1, <2>2, <2>3 DEF Counted
  <2>5. Postfix(postfix')
    BY <1>1, <2>1, PostfixGrows DEF Item
  <2> QED BY <1>1, <2>4, <2>5, ParserMoves
<1> QED BY <1>5, <1>6

\* The three places that pop.
LEMMA PopsKeep == ASSUME IInv, PopForOperator \/ PopInBrackets \/ Flush PROVE IInv'
<1>1. Parsing /\ op_stack # <<>> /\ (PopWith(TRUE) \/ PopWith(FALSE))
  BY TopIsLast DEF PopForOperator, PopInBrackets, Flush, Reads, WouldPop
<1> QED BY <1>1, PopKeeps

\* A closing bracket takes its open one away.
LEMMA CloseKeeps == ASSUME IInv, Close PROVE IInv'
<1>1. CASE Top # "("
  BY <1>1, FailKeeps DEF Close
<1>2. CASE Top = "("
  <2>1. /\ Counted(op_stack, arity_stack) /\ Postfix(postfix') /\ Parsing /\ Reading
        /\ op_stack' = Front(op_stack) /\ arity_stack' = arity_stack
    BY <1>2 DEF Close, Reads, IInv
  <2>2. op_stack # <<>>
    BY <1>2, TopIsLast
  <2>3. /\ op_stack' \in Seq(OnOpStack)
        /\ Cardinality(FunctionsOn(op_stack')) <= Cardinality(FunctionsOn(op_stack))
    BY <2>1, <2>2, Popped, FewerFunctions DEF Counted
  <2>4. Cardinality(FunctionsOn(op_stack)) \in Nat /\ Cardinality(FunctionsOn(op_stack')) \in Nat
    BY <2>1, <2>3, FunctionsFinite DEF Counted
  <2>5. Counted(op_stack', arity_stack')
    BY <2>1, <2>3, <2>4 DEF Counted
  <2> QED BY <2>1, <2>5, ParserMoves
<1> QED BY <1>1, <1>2

\* A comma in a call counts one more argument of it.
LEMMA CommaKeeps == ASSUME IInv, Comma PROVE IInv'
<1>1. CASE Top # "(" \/ ~InCall
  BY <1>1, FailKeeps DEF Comma
<1>2. CASE Top = "(" /\ InCall
  <2>1. /\ Counted(op_stack, arity_stack) /\ Postfix(postfix') /\ Parsing /\ Reading
        /\ op_stack' = op_stack
        /\ arity_stack' = [arity_stack EXCEPT ![Len(arity_stack)] = @ + 1]
    BY <1>2 DEF Comma, Reads, IInv
  <2>2. Len(op_stack) - 1 \in DOMAIN op_stack /\ op_stack[Len(op_stack) - 1] \in Functions
    BY <1>2, <2>1 DEF InCall, Counted
  <2>3. Len(arity_stack) \in Nat /\ Len(arity_stack) > 0 /\ arity_stack \in Seq(Nat)
    BY <2>1, <2>2, CountIsThere DEF Counted
  <2>4. arity_stack' \in Seq(Nat) /\ Len(arity_stack') = Len(arity_stack)
    BY <2>1, <2>3
  <2>5. Counted(op_stack', arity_stack')
    BY <2>1, <2>4 DEF Counted
  <2> QED BY <2>1, <2>5, ParserMoves
<1> QED BY <1>1, <1>2

\* What is evaluated is the postfix, if there is one.
LEMMA EndParseKeeps == ASSUME IInv, EndParse PROVE IInv'
<1>1. CASE op_stack # <<>>
  BY <1>1, FailKeeps DEF EndParse
<1>2. CASE op_stack = <<>>
  BY <1>2, EmptyMakes DEF EndParse, IInv, Productive, parser
<1> QED BY <1>1, <1>2

\* Every step of the parser.
LEMMA ParserKeeps == ASSUME IInv, InfixToPostfix PROVE IInv'
<1>1. CASE RefuseToken
  BY <1>1, FailKeeps DEF RefuseToken
<1> QED
  BY <1>1, AddNumberKeeps, AddFunctionKeeps, PushesKeep, PopsKeep, CloseKeeps, CommaKeeps,
     EndParseKeeps DEF InfixToPostfix

-----------------------------------------------------------------------------
(* The rest of a request *)

\* DoParse starts with empty stacks, or not at all.
LEMMA ParseKeeps ==
  ASSUME IInv, NEW text, NEW p, Parse(text, p)
  PROVE  IInv'
<1>1. /\ Counted(op_stack, arity_stack) /\ Postfix(postfix)
      /\ todo' = <<>> /\ num_stack' = <<>>
      /\ phase' # "evaluate"
  BY DEF Parse, IInv
<1>2. \/ UNCHANGED parser
      \/ op_stack' = <<>> /\ arity_stack' = <<>> /\ postfix' = <<>>
  BY DEF Parse
<1>3. FunctionsOn(<<>>) = {} /\ <<>> \in Seq(OnOpStack) /\ <<>> \in Seq(Nat) /\ Len(<<>>) = 0
  BY DEF FunctionsOn
<1>4. Counted(<<>>, <<>>)
  BY <1>3, FS_EmptySet DEF Counted
<1>5. CASE UNCHANGED parser
  BY <1>1, <1>5, EmptyMakes DEF IInv, parser
<1>6. CASE op_stack' = <<>> /\ arity_stack' = <<>> /\ postfix' = <<>>
  BY <1>1, <1>4, <1>6, EmptyMakes DEF IInv
<1> QED BY <1>2, <1>5, <1>6

\* Reading and refusing a request, and the replies.
LEMMA ExecuteKeeps == ASSUME IInv, Execute PROVE IInv'
<1>1. CASE Start
  <2>1. \/ \E text, p : Parse(text, p)
        \/ Stop("parse")
    BY <1>1 DEF Start
  <2>2. CASE Stop("parse")
    <3>1. UNCHANGED <<op_stack, arity_stack, postfix, todo, num_stack>> /\ phase' # "evaluate"
      BY <2>2 DEF Stop, parser
    <3> QED BY <3>1, NothingMoves
  <2> QED BY <2>1, <2>2, ParseKeeps
<1>2. CASE RefuseLong \/ ReplyError \/ ReplyResult
  <2>1. UNCHANGED <<op_stack, arity_stack, postfix, todo, num_stack>> /\ phase' # "evaluate"
    BY <1>2 DEF RefuseLong, ReplyError, ReplyResult, Answer, parser
  <2> QED BY <2>1, NothingMoves
<1> QED BY <1>1, <1>2 DEF Execute

\* A value takes the place of those it is made of.
LEMMA ReduceKeeps ==
  ASSUME IInv, phase = "evaluate", todo # <<>>, NEW k \in Nat, k <= Len(num_stack),
         NEW shown, NEW outcomes, Reduce(k, shown, outcomes)
  PROVE  IInv'
<1>1. PICK r \in outcomes :
        \/ Fail(r.err)
        \/ /\ num_stack' = Append(SubSeq(num_stack, 1, Len(num_stack) - k), r.v)
           /\ todo' = Tail(todo)
           /\ UNCHANGED <<phase, parser>>
  BY DEF Reduce
<1>2. CASE Fail(r.err)
  BY <1>2, FailKeeps
<1>3. CASE /\ num_stack' = Append(SubSeq(num_stack, 1, Len(num_stack) - k), r.v)
           /\ todo' = Tail(todo)
           /\ UNCHANGED <<phase, parser>>
  <2>1. Sequence(SubSeq(num_stack, 1, Len(num_stack) - k))
    BY FrontMakes DEF IInv
  <2>2. Sequence(num_stack') /\ num_stack' # <<>>
    BY <1>3, <2>1, AppendMakes
  <2>3. Postfix(todo')
    BY <1>3, PostfixShrinks DEF IInv
  <2> QED BY <1>3, <2>2, <2>3 DEF IInv, Productive, parser
<1> QED BY <1>1, <1>2, <1>3

\* The length of a sequence is a number.
LEMMA LenOfSequence == ASSUME NEW s, Sequence(s) PROVE Len(s) \in Nat
BY DEF Sequence

\* Every step of the stack machine, and what Roller does with a value.
LEMMA EvaluationKeeps == ASSUME IInv, EvaluatePostfix PROVE IInv'
<1>1. Len(num_stack) \in Nat
  BY LenOfSequence DEF IInv
<1>2. CASE EvaluateNumber
  <2>1. phase = "evaluate" /\ todo # <<>> /\ Reduce(0, FALSE, {Value(todo[1].value)})
    BY <1>2 DEF EvaluateNumber, Evaluating
  <2>2. 0 \in Nat /\ 0 <= Len(num_stack)
    BY <1>1
  <2> QED BY <2>1, <2>2, ReduceKeeps
<1>3. CASE EvaluateOperator
  <2>1. CASE Len(num_stack) < 2
    BY <1>3, <2>1, FailKeeps DEF EvaluateOperator
  <2>2. CASE ~(Len(num_stack) < 2)
    BY <1>1, <1>3, <2>2, ReduceKeeps DEF EvaluateOperator, Evaluating
  <2> QED BY <2>1, <2>2
<1>4. CASE EvaluateFunction
  <2> DEFINE f == todo[1].name
             k == ArgumentCount(todo[1])
  <2>1. phase = "evaluate" /\ todo # <<>> /\ todo[1].value \in Nat
    BY <1>4, PostfixShrinks DEF EvaluateFunction, Evaluating, IInv
  <2>2. k \in Nat
    BY <2>1 DEF ArgumentCount
  <2>3. \/ Fail("stack")
        \/ ~(Len(num_stack) < k) /\ Reduce(k, TRUE, Call(f, LastOf(k)))
    BY <1>4, Zenon DEF EvaluateFunction
  <2> HIDE DEF f, k
  <2>4. CASE ~(Len(num_stack) < k) /\ Reduce(k, TRUE, Call(f, LastOf(k)))
    <3>1. k <= Len(num_stack)
      BY <1>1, <2>2, <2>4
    <3> QED BY <2>1, <2>2, <2>4, <3>1, ReduceKeeps
  <2> QED BY <2>3, <2>4, FailKeeps
<1>5. CASE EndEvaluate
  <2>1. \/ \E e : Stop(e)
        \/ Parse(dicePart, "dice")
        \/ todo' = postfix /\ num_stack' = <<>> /\ UNCHANGED parser /\ phase = "evaluate"
    BY <1>5 DEF EndEvaluate
  <2>2. CASE \E e : Stop(e)
    <3>1. UNCHANGED <<op_stack, arity_stack, postfix, todo, num_stack>> /\ phase' # "evaluate"
      BY <2>2 DEF Stop, parser
    <3> QED BY <3>1, NothingMoves
  <2>3. CASE Parse(dicePart, "dice")
    BY <2>3, ParseKeeps
  <2>4. CASE todo' = postfix /\ num_stack' = <<>> /\ UNCHANGED parser /\ phase = "evaluate"
    BY <2>4, EmptyMakes DEF IInv, Productive, parser
  <2> QED BY <2>1, <2>2, <2>3, <2>4
<1> QED BY <1>2, <1>3, <1>4, <1>5 DEF EvaluatePostfix

-----------------------------------------------------------------------------
(* Theorems *)

\* The stacks are sequences, a function on the operator stack has a count beside it
\* and a value under evaluation has a number to come, for every text.
THEOREM StacksInvariance == Spec => []IInv
<1>1. Init => IInv
  <2>1. FunctionsOn(<<>>) = {} /\ <<>> \in Seq(OnOpStack) /\ <<>> \in Seq(Nat) /\ Len(<<>>) = 0
    BY DEF FunctionsOn
  <2>2. Counted(<<>>, <<>>)
    BY <2>1, FS_EmptySet DEF Counted
  <2> QED BY <2>2, EmptyMakes DEF Init, IInv
<1>2. IInv /\ [Next]_vars => IInv'
  <2> SUFFICES ASSUME IInv, [Next]_vars PROVE IInv'
    OBVIOUS
  <2>1. CASE Done \/ UNCHANGED vars
    BY <2>1, NothingMoves DEF Done, vars, parser
  <2> QED BY <2>1, ExecuteKeeps, ParserKeeps, EvaluationKeeps DEF Next
<1> QED BY <1>1, <1>2, PTL DEF Spec

\* InfixToPostfix never takes a count from an empty arity_stack, and EvaluatePostfix
\* never the result from an empty num_stack, whatever text they are given.
THEOREM StacksHold == Spec => []StacksHoldWhatIsRead
<1>1. IInv => StacksHoldWhatIsRead
  BY DEF IInv, Counted, Productive, StacksHoldWhatIsRead
<1> QED BY <1>1, StacksInvariance, PTL
=============================================================================
