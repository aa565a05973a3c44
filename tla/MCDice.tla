------------------------------- MODULE MCDice -------------------------------
(***************************************************************************)
(* Requests for TLC: every short text, well formed or not, and longer      *)
(* expressions with calls, numbers of sets and extended output.            *)
(***************************************************************************)
EXTENDS DiceGrammar

CONSTANT LongestGarbled  \* bound: symbols of a text that means nothing

Ask(text, ex, times, dice) ==
  [text |-> text, extended |-> ex, times |-> times, dice |-> dice]
Once(e) == Ask(e.text, FALSE, OneDie, e.tree)

\* The symbol two places on, where d% stands at i.
AfterPercent(s) ==
  {IF i + 2 > Len(s) THEN "" ELSE s[i + 2] : i \in {j \in 1..(Len(s) - 1) : s[j] = "d" /\ s[j + 1] = "%"}}

-----------------------------------------------------------------------------
(* Texts that mean something: all of the grammar's, less the minus after   *)
(* d% that FixInfix takes for a sign                                       *)

Reads100(s) == AfterPercent(s) = {} \/ (Len(s) < 5 /\ "-" \notin AfterPercent(s))
Short(exprs) == {Once(e) : e \in {x \in exprs : Reads100(x.text)}}

List(as) == FoldLeft(LAMBDA t, e : t \o <<",">> \o e.text, as[1].text, Tail(as))
CallOf(f, as) == Expr(<<f, "(">> \o List(as) \o <<")">>, Node(f, [i \in DOMAIN as |-> as[i].tree]))

Dual == {Expr(<<"2">>, Number(2))}

Pairs(atoms)  == {CallOf(f, <<a, b>>) : f \in {"max", "rand"}, a \in atoms, b \in atoms}
Triples(atoms) == {CallOf("min", <<a, b, c>>) : a \in atoms, b \in atoms, c \in atoms}
Inside(calls) == UNION {Two(o, calls, <<o>>, Dual) \union Two(o, Dual, <<o>>, calls) : o \in {"d", "^", "+", "*"}}
Nested(atoms, calls) ==
  {CallOf("abs", <<e>>) : e \in UNION {Two(o, calls, <<o>>, Dual) : o \in {"d", "-"}}}
  \union {CallOf("rand", <<CallOf("abs", <<a>>), b>>) : a \in atoms, b \in atoms}

Calls(atoms) ==
  LET calls == Pairs(atoms) IN
  {Once(e) : e \in calls \union Two("*", Dual, <<>>, calls) \union Triples(atoms)
                   \union Inside(calls) \union Nested(atoms, calls)}

Atoms == {Expr(<<"0">>, Number(0)), Expr(<<"e">>, Number(ConstantValue)), Expr(<<"-", "2">>, Number(-2)),
          Expr(<<"2", "+", "e">>, Node("+", <<Number(2), Number(ConstantValue)>>))}

-----------------------------------------------------------------------------
(* Numbers of sets, in both notations, and extended output                 *)

Sets   == Atoms \union Dual \union {Expr(<<"3">>, Number(3)), Expr(<<"d", "3">>, Node("d", <<OneDie, Number(3)>>)),
                                  Expr(<<"2", "*">>, Unknown)}
Rolls  == Dual \union {Expr(<<"d", "2">>, Node("d", <<OneDie, Number(2)>>)),
                       Expr(<<"2", "d", "0">>, Node("d", <<Number(2), Number(0)>>)),
                       Expr(<<"+">>, Unknown), Expr(<<>>, Unknown)}

Repeated ==
  {Ask(text, ex, t.tree, IF t.tree = Unknown THEN Unknown ELSE r.tree) :
     <<text, ex, t, r>> \in UNION {{<<t.text \o <<"~">> \o r.text, ex, t, r>>,
                                    <<t.text \o <<"[">> \o r.text \o <<"]">>, ex, t, r>>} :
                                     t \in Sets, r \in Rolls, ex \in BOOLEAN}}

-----------------------------------------------------------------------------
(* All other short texts, less the forms in which the 100 of d% runs into  *)
(* what follows                                                            *)

Symbols == {"2", "e", "abs", "(", ")", ",", "d", "%", "+", "-"}

\* The sign FixInfix writes, typed by the user.
Signs == {<<"_">>, <<"2", "_">>, <<"2", "_", "2">>, <<"_", "2", "_">>}

Garbled(meant) ==
  {Ask(t, FALSE, OneDie, Unknown) :
     t \in Signs \union {s \in UNION {[1..len -> Symbols] : len \in 1..LongestGarbled} :
              s \notin meant /\ AfterPercent(s) \intersect (Digits \union {"d", "-"}) = {}}}

MCRequests ==
  LET exprs == Expressions
      meant == {e.text : e \in exprs}
  IN Short(exprs) \union Calls(Atoms) \union Repeated \union Garbled(meant)
=============================================================================
