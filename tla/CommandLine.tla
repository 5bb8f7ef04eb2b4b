----------------------------- MODULE CommandLine -----------------------------
(***************************************************************************)
(* main.c: the command line executes the statements of a text, which is    *)
(* either a file read at once or lines typed one by one.                   *)
(*                                                                         *)
(* Both modes cut the text with utils_find_statement_terminator, file mode *)
(* in the whole text and the REPL in a buffer that grows by a line and     *)
(* shrinks by a statement.  Failing allocations are left out.              *)
(***************************************************************************)
EXTENDS SqlParser

CONSTANT Script   \* the texts that are read, without NUL bytes

ASSUME CommandLineAssumption == Script \subseteq Seq(Symbol)

VARIABLES
  mode,      \* file or repl
  script,    \* the contents of the file or of standard input
  consumed,  \* the symbols of it that have been read or cut off
  buffer,    \* the REPL's buffer, empty while it is NULL
  executed,  \* the texts that went to the engine, and how they ended
  status,    \* overall_status of file mode
  step,      \* running, exit after the exit line, end after the last symbol
  glued      \* whether the REPL cut spaces off the end of a started statement

vars == <<mode, script, consumed, buffer, executed, status, step, glued>>

TypeOK ==
  /\ mode \in {"file", "repl"}
  /\ script \in Seq(Symbol)
  /\ consumed \in 0..Len(script)
  /\ buffer \in Seq(Symbol)
  /\ executed \in Seq([sql : Seq(Symbol), status : {"SUCCESS", "FAILURE"}])
  /\ status \in {"SUCCESS", "FAILURE"}
  /\ step \in {"running", "exit", "end"}
  /\ glued \in BOOLEAN

Init ==
  /\ mode \in {"file", "repl"}
  /\ script \in Script
  /\ consumed = 0
  /\ buffer = <<>>
  /\ executed = <<>>
  /\ status = "SUCCESS"
  /\ step = "running"
  /\ glued = FALSE

\* main_process_sql_statement; what the executor makes of a statement is open.
Process(text, result) ==
  /\ result = "SUCCESS" => Compile(Trim(text)) # SyntaxError
  /\ executed' = Append(executed, [sql |-> Trim(text), status |-> result])

-------------------------------------------------------------------------------
\* File mode

\* main_skip_whitespace
Start == RunEnd(script, consumed + 1, Space)

Terminator == FindTerminator(script, Start)

FileStatement(result) ==
  /\ mode = "file"
  /\ step = "running"
  /\ Terminator # 0
  /\ Process(SubSeq(script, Start, Terminator), result)
  /\ status' = IF result = "SUCCESS" THEN status ELSE "FAILURE"
  /\ consumed' = Terminator
  /\ UNCHANGED <<mode, script, buffer, step, glued>>

\* Mutant: a text without a semicolon is not an error.
FileEndQuietly ==
  /\ mode = "file"
  /\ step = "running"
  /\ Terminator = 0
  /\ step' = "end"
  /\ UNCHANGED <<mode, script, consumed, buffer, executed, status, glued>>

\* The end of the text, or a last statement without a semicolon.
FileEnd ==
  /\ mode = "file"
  /\ step = "running"
  /\ Terminator = 0
  /\ status' = IF Start > Len(script) THEN status ELSE "FAILURE"
  /\ step' = "end"
  /\ UNCHANGED <<mode, script, consumed, buffer, executed, glued>>

-------------------------------------------------------------------------------
\* The REPL

\* fgets: up to the end of the line, or as much as fits.
Line ==
  LET rest == SubSeq(script, consumed + 1, Len(script))
      most == IF Len(rest) < MaxSqlLength - 1 THEN Len(rest) ELSE MaxSqlLength - 1
      ends == { i \in 1..most : rest[i] = "\n" }
  IN SubSeq(rest, 1, IF ends = {} THEN most ELSE Min(ends))

\* The REPL waits for a line when its buffer holds no whole statement.
AtPrompt == mode = "repl" /\ step = "running" /\ FindTerminator(buffer, 1) = 0

\* Mutant: exit is heard at any prompt.
SaysExitAnywhere == Trim(Line) \in {<<"exit">>, <<"quit">>}

\* main_trimmed_equals, when no statement has been started
SaysExit == buffer = <<>> /\ Trim(Line) \in {<<"exit">>, <<"quit">>}

ReadLine ==
  /\ AtPrompt
  /\ consumed < Len(script)
  /\ ~SaysExit
  /\ buffer' = buffer \o Line
  /\ consumed' = consumed + Len(Line)
  /\ UNCHANGED <<mode, script, executed, status, step, glued>>

Exit ==
  /\ AtPrompt
  /\ consumed < Len(script)
  /\ SaysExit
  /\ step' = "exit"
  /\ UNCHANGED <<mode, script, consumed, buffer, executed, status, glued>>

\* End of input; what is left in the buffer is reported and dropped.
EndOfInput ==
  /\ AtPrompt
  /\ consumed = Len(script)
  /\ step' = "end"
  /\ UNCHANGED <<mode, script, consumed, buffer, executed, status, glued>>

\* Mutant: the rest of the line is forgotten.
DropRemainder(rest) == buffer' = <<>> /\ UNCHANGED glued

\* main_replace_buffer_with_remainder
KeepRemainder(rest) ==
  /\ buffer' = Trim(rest)
  /\ glued' = (glued \/ (~Blank(rest) /\ Last(rest) \in Space))

ReplStatement(result) ==
  LET end == FindTerminator(buffer, 1)
  IN /\ mode = "repl"
     /\ step = "running"
     /\ end # 0
     /\ Process(SubSeq(buffer, 1, end), result)
     /\ KeepRemainder(SubSeq(buffer, end + 1, Len(buffer)))
     /\ UNCHANGED <<mode, script, consumed, status, step>>

Ended == step # "running" /\ UNCHANGED vars

Next ==
  \/ \E result \in {"SUCCESS", "FAILURE"} : FileStatement(result) \/ ReplStatement(result)
  \/ FileEnd
  \/ ReadLine \/ Exit \/ EndOfInput
  \/ Ended

Spec == Init /\ [][Next]_vars

-------------------------------------------------------------------------------
\* Properties

\* The semicolons of a text that have an even number of quotes before them.
Ends(t) ==
  { i \in 1..Len(t) : t[i] = ";" /\ Cardinality({ j \in 1..i : t[j] = "'" }) % 2 = 0 }

\* The statements of a text, and what follows the last of them.
Pieces(t) ==
  LET ends == SetToSortSeq(Ends(t), <)
  IN [k \in 1..Len(ends) |->
        Trim(SubSeq(t, IF k = 1 THEN 1 ELSE ends[k - 1] + 1, ends[k]))]

Rest(t) == SubSeq(t, IF Ends(t) = {} THEN 1 ELSE Max(Ends(t)) + 1, Len(t))

Consumed == SubSeq(script, 1, consumed)

Unspaced(t) == SelectSeq(t, LAMBDA c : c \notin Space)

Texts == [k \in 1..Len(executed) |-> executed[k].sql]

(***************************************************************************)
(* Typed or read from a file, in lines of any length and with statements   *)
(* cut anywhere by line ends, a text is executed as the same statements,   *)
(* once each and in order.  When the REPL has trimmed a statement that was *)
(* begun behind another one on its line (main.c:234), so that two words    *)
(* become one or a text value loses a line end, the statements from then   *)
(* on are compared without their spaces.                                   *)
(***************************************************************************)
SameStatements ==
  AtPrompt \/ mode = "file" =>
    LET pieces == Pieces(Consumed)
    IN IF glued THEN /\ Len(Texts) = Len(pieces)
                     /\ \A k \in 1..Len(pieces) : Unspaced(Texts[k]) = Unspaced(pieces[k])
                ELSE Texts = pieces

(***************************************************************************)
(* exit ends the REPL between two statements only; inside one it is text   *)
(* (main.c:270).                                                           *)
(***************************************************************************)
ExitBetweenStatements == step = "exit" => Blank(Rest(Consumed))

(***************************************************************************)
(* The splitter and the tokenizer agree about quotes: no text that goes to *)
(* the engine ends inside a literal, or holds a semicolon but its last     *)
(* (utils.c:349-374, tokenizer.c:84-117).                                  *)
(***************************************************************************)
CutsAgreeWithTokens ==
  \A k \in 1..Len(executed) :
    LET tokens == Tokenize(executed[k].sql)
        last == Len(tokens)
    IN /\ tokens[last].type \in {"SEMICOLON", "TOO_LONG"}
       /\ \A i \in 1..(last - 1) : tokens[i].type # "SEMICOLON"

(***************************************************************************)
(* The parser takes exactly the sentences of its language, and the         *)
(* statement it returns holds every name, operator and literal of the text *)
(* in its place (parser.c:132-400): for the texts executed here, and for   *)
(* the same texts without their semicolon, as the server may receive them. *)
(***************************************************************************)
ParserKnowsLanguage ==
  \A k \in 1..Len(executed) : \A text \in {executed[k].sql, Front(executed[k].sql)} :
    LET tokens == Tokenize(text)
        statement == Parse(tokens)
    IN ~Blank(text) /\ ~Untokenized(tokens) =>
         /\ statement # SyntaxError <=> InLanguage(tokens)
         /\ statement # SyntaxError =>
              Contents(statement) =
                SelectSeq(tokens, LAMBDA t : Class(t) \in {"name", "OPERATOR", "literal"})

(***************************************************************************)
(* The exit status of file mode follows from the whole text: it is FAILURE *)
(* exactly when a statement failed, though later ones succeeded, or when   *)
(* what is left behind the last semicolon is not blank, whatever quotes it *)
(* holds (main.c:163-187).  The comment of the function is wrong: it says  *)
(* SUCCESS unless reading the file or allocating fails (main.c:138-141).   *)
(***************************************************************************)
FailureReported ==
  mode = "file" /\ step = "end" =>
    (status = "FAILURE" <=> \/ \E k \in 1..Len(executed) : executed[k].status = "FAILURE"
                            \/ ~Blank(Rest(script)))
===============================================================================
