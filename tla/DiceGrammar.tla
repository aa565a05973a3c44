---------------------------- MODULE DiceGrammar ----------------------------
(***************************************************************************)
(* What a dice expression means, by the grammar the help of ROLL           *)
(* describes (src/DiceServ/ds_roll.cpp, HELP ROLL EXPRESSIONS): the usual  *)
(* precedences, d above all of them, ^ to the right, everything else to    *)
(* the left, implicit multiplication beside brackets, constants and        *)
(* functions, a minus sign before a number.  Expressions are built here    *)
(* from their meaning, so that nothing of the program's parser is used;    *)
(* the values of operators and functions are those of Dice.                *)
(***************************************************************************)
EXTENDS Dice

CONSTANTS
  Numbers,            \* bound: digits, constants and functions in texts
  Names,
  Longest             \* bound: symbols of a text

Node(op, args)  == [op |-> op, v |-> 0, args |-> args]
Number(v)       == [op |-> "number", v |-> v, args |-> <<>>]
Unknown         == Node("unknown", <<>>)
Expr(text, tree) == [text |-> text, tree |-> tree]

-----------------------------------------------------------------------------
(* The expressions of len symbols, from those of fewer symbols               *)

Two(op, L, sep, R) ==
  {Expr(l.text \o sep \o r.text, Node(op, <<l.tree, r.tree>>)) : l \in L, r \in R}

\* Operands that are multiplied when they stand beside each other.
Beside(l, r) ==
  LET a == Last(l.text)
      b == r.text[1]
  IN \/ a \in Digits /\ b \in Constants \union Functions \union {"("}
     \/ a \in Constants /\ b \in Digits \union Constants \union Functions \union {"("}
     \/ a = ")" /\ b \in Digits \union Constants \union {"("}

OneDie == Number(1)

\* g[k] holds the expressions of k < len symbols by the operator at their root.
Level(g, len) ==
  LET Parts(m) == {<<k, m - k>> : k \in 1..(m - 1)}
      Over(op, L(_), sep, R(_)) ==
        UNION {Two(op, L(p[1]), <<sep>>, R(p[2])) : p \in Parts(len - 1)}
      Sub(k)  == IF k > 0 THEN g[k].sum ELSE {}
      number  == {Expr(ds, Number(Decimal(ds))) : ds \in IF len > 2 THEN {} ELSE [1..len -> Numbers]}
      const   == IF len = 1 THEN {Expr(<<c>>, Number(ConstantValue)) : c \in Constants \intersect Names} ELSE {}
      bracket == {Expr(<<"(">> \o e.text \o <<")">>, e.tree) : e \in Sub(len - 2)}
      call1   == {Expr(<<f, "(">> \o e.text \o <<")">>, Node(f, <<e.tree>>)) :
                    f \in OneArg \intersect Names, e \in Sub(len - 3)}
      call2   == UNION {{Expr(<<f>> \o <<"(">> \o e.text \o <<")">>, Node(f, e.tree.args)) :
                           f \in (TwoArgs \union ManyArgs) \intersect Names,
                           e \in Two("", Sub(p[1]), <<",">>, Sub(p[2]))} : p \in Parts(len - 4)}
      signed  == IF len = 1 THEN {}
                 ELSE {Expr(<<"-">> \o e.text, Number(-e.tree.v)) : e \in g[len - 1].atom}
      atom    == number \union const
      operand == atom \union bracket \union call1 \union call2 \union signed
      \* What may stand before a d, a bare d of one die included.
      Thrower(k) == g[k].thrower
      bare    == (IF len = 1 THEN {Expr(<<"d">>, Node("d", <<OneDie, OneDie>>))}
                  ELSE {Expr(l.text \o <<"d">>, Node("d", <<l.tree, OneDie>>)) : l \in Thrower(len - 1)})
      Operand(k) == g[k].operand
      rolled  == operand \union Over("d", Thrower, "d", Operand)
                 \union IF len = 1 THEN {}
                        ELSE {Expr(<<"d">> \o r.text, Node("d", <<OneDie, r.tree>>)) : r \in Operand(len - 1)}
      percent == IF len = 1 THEN {}
                 ELSE IF len = 2 THEN {Expr(<<"d", "%">>, Node("d", <<OneDie, Number(100)>>))}
                 ELSE {Expr(l.text \o <<"d", "%">>, Node("d", <<l.tree, Number(100)>>)) : l \in Thrower(len - 2)}
      dice    == rolled \union percent
      Dice(k) == g[k].dice
      Pow(k)  == g[k].pow
      pow     == dice \union Over("^", Dice, "^", Pow)
      Mul(k)  == g[k].mul
      beside  == UNION {{Expr(l.text \o r.text, Node("*", <<l.tree, r.tree>>)) :
                           <<l, r>> \in {q \in Mul(p[1]) \X Pow(p[2]) : Beside(q[1], q[2])}} : p \in Parts(len)}
      mul     == pow \union Over("*", Mul, "*", Pow) \union Over("%", Mul, "%", Pow) \union beside
      minus   == IF len = 1 THEN {}
                 ELSE {Expr(<<"-">> \o e.text, Node("-", <<Number(0), e.tree>>)) :
                         e \in {m \in Mul(len - 1) : m.text[1] \in Functions \union {"("}}}
      sum     == mul \union Over("+", Sub, "+", Mul) \union Over("-", Sub, "-", Mul) \union minus
  IN [atom |-> atom, operand |-> operand, thrower |-> rolled \union bare,
      dice |-> dice, pow |-> pow, mul |-> mul, sum |-> sum]

Levels == FoldLeft(LAMBDA g, len : Append(g, Level(g, len)), <<>>, [len \in 1..Longest |-> len])

\* A lone % is a percentile die.
Expressions ==
  UNION {Levels[len].sum : len \in 1..Longest} \union {Expr(<<"%">>, Node("d", <<OneDie, Number(100)>>))}

-----------------------------------------------------------------------------
(* The values and errors an expression may come to, operands first         *)

RECURSIVE Outcomes(_), ArgumentLists(_)

Outcomes(t) ==
  IF t.op = "number" THEN {Value(t.v)}
  ELSE UNION {IF l.err # "none" THEN {Error(l.err)}
              ELSE IF t.op \in Functions THEN Call(t.op, l.v)
              ELSE Operate(t.op, l.v[1], l.v[2]) : l \in ArgumentLists(t.args)}

ArgumentLists(ts) ==
  IF ts = <<>> THEN {[err |-> "none", v |-> <<>>]}
  ELSE UNION {IF l.err # "none" THEN {l}
              ELSE {[err |-> o.err, v |-> Append(l.v, o.v)] : o \in Outcomes(Last(ts))} :
              l \in ArgumentLists(Front(ts))}

Answers(t) ==
  {IF o.v > IntMax \/ o.v < -IntMax - 1 THEN Error("range") ELSE o : o \in Outcomes(t)}

\* The number of sets to roll.
SetsOf(t) ==
  {IF o.err = "none" /\ o.v \notin 1..DiceMaxTimes THEN Error("times") ELSE o : o \in Answers(t)}
-----------------------------------------------------------------------------
(* Properties *)

\* What a user is sent as the result of a well-formed request is what it
\* means: as many sets as asked for and each a value the expression has, or an
\* error it can run into, operands before operators and the number of sets
\* before the dice (FixInfix to EvaluatePostfix, Roller).
AnswersTheExpression ==
  phase = "done" /\ request.dice # Unknown /\ replies \notin {<<>>, <<"overflow">>} =>
    IF errCode = "none"
    THEN /\ Value(Len(results)) \in SetsOf(request.times)
         /\ {Value(v) : v \in Range(results)} \subseteq Answers(request.dice)
    ELSE \/ Error(errCode) \in SetsOf(request.times)
         \/ /\ \E o \in SetsOf(request.times) : o.err = "none"
            /\ Error(errCode) \in Answers(request.dice)

\* A text that means nothing is never answered with a result: CheckInfix, the
\* shunting yard or the stack machine finds it out.
IllFormedIsRefused ==
  phase \in {"reply", "done"} /\ request.dice = Unknown => errCode # "none" \/ replies = <<"overflow">>
=============================================================================
