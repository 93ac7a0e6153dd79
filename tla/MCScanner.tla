----------------------------- MODULE MCScanner -----------------------------
(* Short sources of a mixed alphabet, and longer ones of the characters    *)
(* that meet in a comment, in a word, in a number or string, in a symbol.  *)
EXTENDS Scanner

CONSTANTS MixedMax, LengthMax

Mixed == {" ", "\n", "/", "*", "=", "\"", ".", "1", "f", "@"}
Alphabets == {{"/", "*", "\n", "f"}, {"f", "n", "i", "_"},
              {"1", ".", "\"", "\n"}, {"<", "=", ">", "-"}, {"0", "1"}}

Strings(chars, max) == UNION {[1..n -> chars] : n \in 0..max}

MCSources == Strings(Mixed, MixedMax) \cup UNION {Strings(a, LengthMax) : a \in Alphabets}
MCKeywords == {<<"f", "n">>, <<"i", "f">>}
============================================================================
