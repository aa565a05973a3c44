-------------------------- MODULE MCParseFlagsLoop --------------------------
\* Flag strings of up to three tokens over single letters, a compact token,
\* the long name ALL and both lone signs.
EXTENDS ParseFlagsLoop

MCTokens == {Plus({"FOUNDER"}), Minus({"FOUNDER"}), Plus({"BAN"}), Minus({"FLAGS", "SET"}),
             Plus({"INVITE", "ACLVIEW"}), Minus(All), BarePlus, BareMinus}

MCInputs == UNION {[1..n -> MCTokens] : n \in 0..3}

MCCurrents == {{}, {"BAN"}, {"INVITE", "SET"}, All, AccessFlags}
=============================================================================
