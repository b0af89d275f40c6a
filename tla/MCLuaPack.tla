----------------------------- MODULE MCLuaPack -----------------------------
(* Instantiates LuaPack for TLC: 2-bit chars and 2-char integers, so       *)
(* lua_Integer and size_t have 4 bits, and MAXINTSIZE 3 exceeds them.      *)
EXTENDS LuaPack

Tok(c, n) == [c |-> c, n |-> n]

\* Every kind of option once: fixed sizes, sized integers and strings
\* (defaults, the widest, a size out of limits), 'c', 'z', padding, 'X',
\* the endianness and alignment settings, a space and an invalid option.
MCTokens ==
  {Tok(o, NoNum) : o \in {"b", "B", "j", "J", "T", "i", "s", "z", "x", "X", " ", "<", ">", "=", "?"}}
  \cup {Tok("I", 3), Tok("i", 3), Tok("i", 4), Tok("s", 1), Tok("c", 1), Tok("c", NoNum),
        Tok("!", 2), Tok("!", 3), Tok("!", 0)}

\* Items that interact through alignment, in formats of three.
MCAligning == {Tok("!", 2), Tok("b", NoNum), Tok("j", NoNum), Tok("s", 1), Tok("z", NoNum),
               Tok("X", NoNum), Tok(">", NoNum)}

MCFormats == SeqOf(MCTokens, 2) \cup {f \in SeqOf(MCAligning, 3) : Len(f) = 3}

MCIntVals == {-8, -2, -1, 0, 1, 2, 7}
MCStrVals == {<<>>, <<0>>, <<2>>, <<1, 3>>, <<3, 3, 3, 3>>}
MCRecv == SeqOf(0..3, 3)
MCInits == {1, -1, 0, 5}
=============================================================================
