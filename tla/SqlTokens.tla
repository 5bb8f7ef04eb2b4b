------------------------------ MODULE SqlTokens ------------------------------
(***************************************************************************)
(* tokenizer.c and the string functions of utils.c that cut SQL text.      *)
(*                                                                         *)
(* A text is a sequence of symbols.  A run of letters is one symbol, a     *)
(* keyword (in any case) or a name, so that two words that come to touch   *)
(* make one longer word; every other symbol is one character: "0" stands   *)
(* for a digit, "#" for a character that begins no token.                  *)
(***************************************************************************)
EXTENDS Naturals, SequencesExt

CONSTANTS
  Name,      \* runs of letters that are no keyword
  MaxToken   \* MAX_TOKEN_VALUE - 1, the length of the longest token

Keyword == {"INSERT", "SELECT", "DELETE", "INTO", "FROM", "WHERE", "VALUES"}

Letter == Keyword \cup Name

Digit == {"0"}

Space == {" ", "\n"}

Other == {"(", ")", ",", ";", "*", "'", "!", "<", ">", "=", "-", "#"}

Symbol == Letter \cup Digit \cup Space \cup Other

ASSUME SqlTokensAssumption ==
  /\ Name \cap (Keyword \cup Digit \cup Space \cup Other \cup {"\\0"}) = {}
  /\ MaxToken \in Nat

Blank(t) == ToSet(t) \subseteq Space

\* utils_trim
Trim(t) ==
  LET kept == { i \in 1..Len(t) : t[i] \notin Space }
  IN IF kept = {} THEN <<>> ELSE SubSeq(t, Min(kept), Max(kept))

\* The character at i, "\0" behind the last.
At(t, i) == IF i \in 1..Len(t) THEN t[i] ELSE "\\0"

\* Mutant: semicolons inside quotes end a statement too.
FindTerminatorAnywhere(t, start) ==
  SelectInSubSeq(t, start, Len(t), LAMBDA c : c = ";")

\* utils_find_statement_terminator: the first semicolon outside quotes, 0 if
\* there is none.
FindTerminator(t, start) ==
  LET scan[i \in Nat, quoted \in BOOLEAN] ==
        CASE i > Len(t) -> 0
          [] At(t, i) = "'" -> IF quoted /\ At(t, i + 1) = "'" THEN scan[i + 2, TRUE]
                                                              ELSE scan[i + 1, ~quoted]
          [] At(t, i) = ";" /\ ~quoted -> i
          [] OTHER -> scan[i + 1, quoted]
  IN scan[start, FALSE]

-------------------------------------------------------------------------------
\* Tokens.  A lexeme is a token and the position behind it.

\* Behind the symbols of S that begin at i.
RunEnd(t, i, S) ==
  CHOOSE j \in i..(Len(t) + 1) :
    /\ \A k \in i..(j - 1) : t[k] \in S
    /\ At(t, j) \notin S

\* tokenizer_read_string: a doubled quote is a quote; next is 0 when no quote
\* ends the literal.
ReadString(t, i) ==
  LET read[j \in Nat] ==
        LET more(c, rest) == [rest EXCEPT !.value = <<c>> \o @]
        IN CASE j > Len(t) -> [value |-> <<>>, next |-> 0]
             [] At(t, j) = "'" /\ At(t, j + 1) = "'" -> more("'", read[j + 2])
             [] At(t, j) = "'" /\ At(t, j + 1) # "'" -> [value |-> <<>>, next |-> j + 1]
             [] OTHER -> more(t[j], read[j + 1])
  IN read[i + 1]

\* tokenizer_is_numeric_start
NumericStart(t, i) == t[i] \in Digit \/ (t[i] = "-" /\ At(t, i + 1) \in Digit)

Punctuation ==
  [c \in {"(", ")", ",", ";", "*"} |->
     CASE c = "(" -> "LPAREN" [] c = ")" -> "RPAREN" [] c = "," -> "COMMA"
       [] c = ";" -> "SEMICOLON" [] c = "*" -> "IDENTIFIER"]

\* The token at i, a symbol that is no space.
Lexeme(t, i) ==
  LET upto(type, j) == [type |-> type, value |-> SubSeq(t, i, j - 1), next |-> j]
      string == ReadString(t, i)
      word == RunEnd(t, i, Letter \cup Digit)
  IN CASE t[i] \in DOMAIN Punctuation -> upto(Punctuation[t[i]], i + 1)
       [] t[i] = "'" -> [type |-> IF string.next = 0 THEN "UNTERMINATED" ELSE "STR_LITERAL"] @@ string
       [] t[i] = "=" -> upto("OPERATOR", i + 1)
       [] t[i] \in {"!", "<", ">"} -> upto("OPERATOR", IF At(t, i + 1) = "=" THEN i + 2 ELSE i + 1)
       [] NumericStart(t, i) -> upto("INT_LITERAL", RunEnd(t, i + 1, Digit))
       [] t[i] \in Keyword /\ word = i + 1 -> upto("KEYWORD", word)
       [] t[i] \in Letter /\ ~(t[i] \in Keyword /\ word = i + 1) -> upto("IDENTIFIER", word)
       [] OTHER -> upto("UNKNOWN", i + 1)

\* tokenizer_tokenize; a text that cannot be tokenized ends in a token that
\* says why.
Tokenize(t) ==
  LET from[i \in Nat] ==
        IF i > Len(t) THEN <<>>
        ELSE IF t[i] \in Space THEN from[i + 1]
        ELSE LET l == Lexeme(t, i)
             IN CASE Len(l.value) > MaxToken -> << [type |-> "TOO_LONG", value |-> <<>>] >>
                  [] l.type = "UNTERMINATED" -> << [type |-> "UNTERMINATED", value |-> <<>>] >>
                  [] OTHER -> << [type |-> l.type, value |-> l.value] >> \o from[l.next]
  IN from[1]

\* Whether tokenizer_tokenize returned NULL.
Untokenized(tokens) ==
  tokens = <<>> \/ Last(tokens).type \in {"TOO_LONG", "UNTERMINATED"}
===============================================================================
