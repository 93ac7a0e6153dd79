------------------------------ MODULE Scanner ------------------------------
(***************************************************************************)
(* The scanner of src/src/scanner.c: scan_tokens turns a source into the    *)
(* list of tokens that the parser walks.                                    *)
(*                                                                         *)
(* A source is a sequence of characters; its end is the NUL the C string    *)
(* ends with.  One step is one iteration of the loop of skip_with_espace    *)
(* or the scanning of one token.  A token is its kind, the place and length *)
(* of its lexeme in the source (place 0: the lexeme is a message or ""),    *)
(* and its line.  Which keyword or symbol a token is follows from its       *)
(* lexeme, so the kinds do not tell them apart.                             *)
(***************************************************************************)
EXTENDS Naturals, Sequences, SequencesExt

CONSTANTS Sources,   \* the sources to scan: sequences of one-character strings
          Letters, Digits,
          Keywords,  \* words of the language, as sequences of letters
          INT32_MAX  \* the largest value of an i32 literal

ASSUME SourcesAreText == \A s \in Sources : s \in Seq(STRING)
ASSUME CharactersAreApart ==
  "_" \in Letters /\ Letters \cap Digits = {} /\ "NUL" \notin Letters \cup Digits
ASSUME KeywordsAreWords == Keywords \subseteq Seq(Letters \ {"_"}) /\ <<"f", "n">> \in Keywords
ASSUME LimitIsANumber == INT32_MAX \in Nat

VARIABLES source, current, line,  \* the Scanner
          tokens,                 \* its token list
          phase,                  \* "loop", "token", "done", "exited" or "panicked"
          spans                   \* ghost: the text each token of the list was read from

vars == <<source, current, line, tokens, phase, spans>>

Kinds == {"symbol", "identifier", "underscore", "keyword",
          "i32", "i64", "f64", "string", "error", "eof"}

Init ==
  /\ source \in Sources
  /\ current = 1 /\ line = 1
  /\ tokens = <<>> /\ spans = <<>>
  /\ phase = "loop"

-----------------------------------------------------------------------------
NUL == "NUL"

Char(i) == IF i <= Len(source) THEN source[i] ELSE NUL

is_alpha(c) == c \in Letters
is_digit(c) == c \in Digits

is_at_end == Char(current) = NUL

\* The places where one of these characters is.
Places(chars) == {i \in DOMAIN source : source[i] \in chars}

\* Where a loop that advances from i to one of these places, or the end, stops.
Until(i, places) == Min({j \in places : j >= i} \cup {Len(source) + 1})

Newlines(i, j) == Cardinality({k \in i..(j - 1) : Char(k) = "\n"})

\* The text from current up to next has been read, and its lines counted.
ReadTo(next) ==
  /\ current' = next
  /\ line' = line + Newlines(current, next)

-----------------------------------------------------------------------------
(* skip_with_espace                                                        *)

Spaces == {" ", "\r", "\t", "\n"}

Slashed(c) == Char(current) = "/" /\ Char(current + 1) = c

skip_space ==
  /\ Char(current) \in Spaces
  /\ ReadTo(current + 1)
  /\ UNCHANGED phase

\* Mutant: a line comment is recognized and not read.
SkipLineUnread ==
  /\ Slashed("/")
  /\ UNCHANGED <<current, line, phase>>

skip_line ==
  /\ Slashed("/")
  /\ ReadTo(Until(current, Places({"\n"})))
  /\ UNCHANGED phase

Closings == {i \in Places({"*"}) : Char(i + 1) = "/"}

\* Mutant: the star that opens the comment may close it.
CommentEndAtOpening == Until(current + 1, Closings)

\* The end of the comment is looked for behind its first two characters.
CommentEnd == Until(current + 2, Closings)

\* Mutant: the lines of a block comment are not counted.
SkipCommentUncounted ==
  /\ Slashed("*")
  /\ IF Char(CommentEnd) = NUL
       THEN phase' = "panicked" /\ UNCHANGED <<current, line>>
       ELSE current' = CommentEnd + 2 /\ UNCHANGED <<line, phase>>

skip_comment ==
  /\ Slashed("*")
  /\ IF Char(CommentEnd) = NUL
       THEN phase' = "panicked" /\ UNCHANGED <<current, line>>
       ELSE ReadTo(CommentEnd + 2) /\ UNCHANGED phase

skip_with_espace ==
  /\ phase = "token"
  /\ skip_space \/ skip_line \/ skip_comment
  /\ UNCHANGED <<source, tokens, spans>>

Skips == Char(current) \in Spaces \/ Slashed("/") \/ Slashed("*")

-----------------------------------------------------------------------------
(* scan_token                                                              *)

Token(kind, from, length, ln) == [kind |-> kind, from |-> from, length |-> length, line |-> ln]

\* The token whose text ends before next joins the list.
list_add_token(kind, next) ==
  /\ ReadTo(next)
  /\ tokens' = Append(tokens, IF kind = "error" THEN Token(kind, 0, 0, line')
                              ELSE Token(kind, current, next - current, line'))
  /\ spans' = Append(spans, <<current, next>>)
  /\ phase' = "loop"

Assigned == {"%", "-", "+", "/", "*", "|", "&", "^", "~", "!", "=", "<", ">"}
Pairs    == {<<":", ":">>, <<"-", ">">>, <<"=", ">">>}
Singles  == {"(", ")", "[", "]", "{", "}", "?", ":", ";", ",", "."} \cup Assigned

\* The letters and digits of is_alpha and is_digit are no symbols.
ASSUME SymbolsAreApart == (Letters \cup Digits) \cap (Singles \cup {"\""}) = {}

\* The characters the nested matches of scan_token take, after the first.
SymbolEnd ==
  LET c == Char(current)
      d == Char(current + 1)
  IN  CASE d = "=" /\ c \in Assigned    -> current + 2
        [] d = c /\ c \in {"<", ">"}    -> IF Char(current + 2) = "=" THEN current + 3
                                                                      ELSE current + 2
        [] <<c, d>> \in Pairs           -> current + 2
        [] OTHER                        -> current + 1

scan_symbol ==
  /\ Char(current) \in Singles
  /\ list_add_token("symbol", SymbolEnd)

scan_unexpected ==
  /\ Char(current) \notin Singles \cup Letters \cup Digits \cup {"\"", NUL}
  /\ list_add_token("error", current + 1)

StringEnd == Until(current + 1, Places({"\""}))

\* Mutant: the closing quote is taken to be there.
ScanStringUnchecked ==
  /\ Char(current) = "\""
  /\ list_add_token("string", StringEnd + 1)

scan_string ==
  /\ Char(current) = "\""
  /\ IF Char(StringEnd) = NUL THEN list_add_token("error", StringEnd)
                              ELSE list_add_token("string", StringEnd + 1)

\* The number that digits write.
Value(digits) == FoldLeft(LAMBDA n, d : 10 * n + (CHOOSE k \in 0..9 : ToString(k) = d), 0, digits)

NumberEnd(i) == Until(i, DOMAIN source \ Places(Digits))

check_number(next) ==
  IF Value(SubSeq(source, current, next - 1)) > INT32_MAX THEN "i64" ELSE "i32"

\* A point must have a digit behind it, or the process exits.
scan_number ==
  LET point == NumberEnd(current)
  IN  /\ is_digit(Char(current))
      /\ \/ /\ Char(point) # "."
            /\ list_add_token(check_number(point), point)
         \/ /\ Char(point) = "." /\ is_digit(Char(point + 1))
            /\ list_add_token("f64", NumberEnd(point + 1))
         \/ /\ Char(point) = "." /\ ~ is_digit(Char(point + 1))
            /\ phase' = "exited"
            /\ UNCHANGED <<current, line, tokens, spans>>

\* Mutant: a word that begins with a keyword is the keyword.
IdentifierTypeOfPrefix(word) ==
  IF \E k \in Keywords : IsPrefix(k, word) THEN "keyword" ELSE "identifier"

\* A word is a keyword when it is all of one; what begins like fn is fn.
identifier_type(word) ==
  IF word \in Keywords \/ IsPrefix(<<"f", "n">>, word) THEN "keyword" ELSE "identifier"

scan_identifier ==
  LET next == Until(current, DOMAIN source \ Places(Letters \cup Digits))
      word == SubSeq(source, current, next - 1)
  IN  /\ is_alpha(Char(current))
      /\ list_add_token(IF word = <<"_">> THEN "underscore" ELSE identifier_type(word), next)

scan_end == is_at_end /\ list_add_token("eof", current)

scan_token ==
  /\ phase = "token" /\ ~ Skips
  /\ \/ scan_end \/ scan_identifier \/ scan_number
     \/ scan_symbol \/ scan_string \/ scan_unexpected
  /\ UNCHANGED source

\* The loop of scan_tokens: a token more, or the eof that ends the list.
scan_tokens ==
  /\ phase = "loop"
  /\ \/ /\ ~ is_at_end
        /\ phase' = "token"
        /\ UNCHANGED <<tokens, spans>>
     \/ /\ is_at_end
        /\ phase' = "done"
        /\ tokens' = Append(tokens, Token("eof", 0, 0, line))
        /\ spans' = Append(spans, <<current, current>>)
  /\ UNCHANGED <<source, current, line>>

\* The list is the parser's; an exit or a panic ends the process.
HasStopped == phase \in {"done", "exited", "panicked"}
Stopped == HasStopped /\ UNCHANGED vars

Next == scan_tokens \/ skip_with_espace \/ scan_token \/ Stopped

\* The scanner is sequential code: it goes on until it has stopped.
Spec == Init /\ [][Next]_vars /\ WF_vars(Next)

-----------------------------------------------------------------------------
(* Properties                                                              *)

\* The state has the shape scanner.h and token.h give it, and the list is
\* never longer than the text with the two ends that trailing blanks cause.
TypeOK ==
  /\ source \in Sources
  /\ current \in 1..(Len(source) + 1)
  /\ line \in 1..(Len(source) + 1)
  /\ phase \in {"loop", "token", "done", "exited", "panicked"}
  /\ tokens \in Seq([kind : Kinds, from : 0..(Len(source) + 1),
                     length : 0..Len(source), line : 1..(Len(source) + 1)])
  /\ Len(tokens) = Len(spans) /\ Len(tokens) <= Len(source) + 2

Text(i, j) == SubSeq(source, i, j - 1)

\* One piece of what the language skips: a space or a whole comment, which
\* ends before a line end or the end of the source, or at its first */.
IsBlank(i, j) ==
  LET t == Text(i, j)
  IN  \/ Len(t) = 1 /\ t[1] \in Spaces
      \/ /\ IsPrefix(<<"/", "/">>, t)
         /\ "\n" \notin Range(t)
         /\ Char(j) \in {"\n", NUL}
      \/ /\ IsPrefix(<<"/", "*">>, t)
         /\ {k \in 3..(Len(t) - 1) : t[k] = "*" /\ t[k + 1] = "/"} = {Len(t) - 1}

\* A text of blanks falls into pieces that are each one.
AreBlanks(i, j) ==
  \E cuts \in SUBSET (i..j) :
    /\ {i, j} \subseteq cuts
    /\ \A a, b \in cuts : a < b /\ (\A c \in cuts : ~ (a < c /\ c < b)) => IsBlank(a, b)

\* Nothing of the source is lost and nothing is read twice: what lies between
\* the texts of two tokens, and before the first, is blanks (scan_token,
\* skip_with_espace), and a list that is complete has reached the end.
GapsAreBlanks == HasStopped =>
  /\ \A k \in DOMAIN spans :
       LET from == IF k = 1 THEN 1 ELSE spans[k - 1][2]
       IN  from <= spans[k][1] /\ AreBlanks(from, spans[k][1])
  /\ phase = "done" => /\ is_at_end
                       /\ tokens[Len(tokens)].kind = "eof"

\* The lexical grammar: what a text is by itself.
Symbols ==
  {<<c>> : c \in Singles} \cup {<<c, "=">> : c \in Assigned} \cup Pairs
    \cup UNION {{<<c, c>>, <<c, c, "=">>} : c \in {"<", ">"}}

KindsOf(t) ==
  {k \in Kinds :
     \/ k = "symbol" /\ t \in Symbols
     \/ k = "string" /\ Len(t) > 1 /\ {i \in DOMAIN t : t[i] = "\""} = {1, Len(t)}
     \/ /\ k = "underscore" /\ t = <<"_">>
     \/ /\ k \in {"keyword", "identifier"}
        /\ t # <<>> /\ t # <<"_">> /\ t[1] \in Letters /\ Range(t) \subseteq Letters \cup Digits
        /\ k = "keyword" <=> t \in Keywords
     \/ /\ k \in {"i32", "i64"}
        /\ t # <<>> /\ Range(t) \subseteq Digits
        /\ k = "i64" <=> Value(t) > INT32_MAX
     \/ /\ k = "f64"
        /\ \E p \in 2..(Len(t) - 1) : t[p] = "." /\ \A i \in DOMAIN t \ {p} : t[i] \in Digits}

\* A word that begins with fn is taken for the keyword, whatever follows.
LooksLikeFn(t) == IsPrefix(<<"f", "n">>, t) /\ Len(t) > 2

\* The text from i to j is the longest of the grammar from i on, and the token's
\* kind one that the grammar gives it; an error stands where the grammar has none.
IsLongest(token, i, j) ==
  LET text   == Text(i, j)
      Beyond == (j + 1)..(Len(source) + 1)
  IN  /\ token.kind \notin {"eof", "error"} =>
           /\ token.kind \in KindsOf(text) \/ LooksLikeFn(text)
           /\ text = Text(token.from, token.from + token.length)
           /\ \A e \in Beyond : KindsOf(Text(i, e)) = {}
      /\ token.kind = "error" => \A e \in {j} \cup Beyond : KindsOf(Text(i, e)) = {}
      /\ token.kind = "eof" => text = <<>> /\ Char(i) = NUL

\* Every token is the longest text of the grammar at its place, with the kind
\* the grammar gives it: the nested matches of scan_token, the loops of
\* scan_string, scan_number and scan_identifier and the trie of
\* identifier_type agree with it, but for the words that begin with fn.
LongestMatch == HasStopped =>
  \A k \in DOMAIN tokens : IsLongest(tokens[k], spans[k][1], spans[k][2])

\* A token is reported on the line its last character is on: the newlines of
\* spaces, comments and strings are all counted, each once.
LinesAreRight ==
  \A k \in DOMAIN tokens :
    tokens[k].line = 1 + Newlines(1, spans[k][2])

\* The scanner comes to an end: a list with an eof, an exit or a panic.
ScanningEnds == <>HasStopped
=============================================================================
