--------------------------- MODULE GroupServFlags ---------------------------
(***************************************************************************)
(* Access flags of a GroupServ group and the meaning of a flag string      *)
(* (src/GroupServ/groupserv.h, GroupServCore::ParseFlags).                 *)
(*                                                                         *)
(* A flag string is a sequence of tokens.  A token is a direction, the set *)
(* of flags its letters or long names denote (unknown ones denote nothing) *)
(* and whether it is bare, that is a lone "+" or "-".                      *)
(***************************************************************************)
EXTENDS Naturals, Sequences

AccessFlags == {"FOUNDER", "FLAGS", "ACLVIEW", "MEMO", "CHANACCESS",
                "VHOST", "SET", "INVITE", "BAN"}
All         == AccessFlags \ {"BAN"}
AllNoFounder == All \ {"FOUNDER"}

Token == [dir : {"+", "-"}, bits : SUBSET AccessFlags, bare : BOOLEAN]

Plus(S)   == [dir |-> "+", bits |-> S, bare |-> FALSE]
Minus(S)  == [dir |-> "-", bits |-> S, bare |-> FALSE]
BarePlus  == [dir |-> "+", bits |-> {}, bare |-> TRUE]
BareMinus == [dir |-> "-", bits |-> {}, bare |-> TRUE]

\* The flags a token decides: a bare "-" resets every flag, BAN included,
\* a bare "+" grants every permission except FOUNDER.
Mentions(tok) ==
  IF tok.bare THEN IF tok.dir = "-" THEN AccessFlags ELSE AllNoFounder
              ELSE tok.bits

\* JOINFLAGS and default_joinflags are parsed with minus tokens ignored.
Counts(tok, allowMinus) == tok.dir = "+" \/ allowMinus

\* What the first n tokens make of the flags `current`: for each flag the
\* last token that mentions it has the last word.
LastWord(tokens, n, allowMinus, current) ==
  {f \in AccessFlags :
     \/ \E i \in 1..n :
          /\ tokens[i].dir = "+"
          /\ f \in Mentions(tokens[i])
          /\ \A j \in i+1..n : Counts(tokens[j], allowMinus) => f \notin Mentions(tokens[j])
     \/ /\ f \in current
        /\ \A i \in 1..n : Counts(tokens[i], allowMinus) => f \notin Mentions(tokens[i])}

\* A plausible slip: the founder rule is forgotten.
NotImplied(flags) == flags

\* Founder implies management powers.
ImpliedBy(flags) ==
  IF "FOUNDER" \in flags THEN flags \union AllNoFounder ELSE flags

ParseFlags(tokens, allowMinus, current) ==
  ImpliedBy(LastWord(tokens, Len(tokens), allowMinus, current))

\* Every founder holds the management powers (wiki: "F implies management powers").
Managed(flags) == "FOUNDER" \in flags => AllNoFounder \subseteq flags
=============================================================================
