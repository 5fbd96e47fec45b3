------------------------------ MODULE ShellLine ------------------------------
(***************************************************************************)
(* From the characters of a line to the commands the shell starts          *)
(* (main.c, Lexer.c, Parser.c, Printer.c): the line is read into a buffer  *)
(* of fixed size, its variables are expanded, the BNFC parser reads it and *)
(* prints it back (or refuses it, and the expanded text is kept), and the  *)
(* hand-written scanners take it from there: strtok for a line without an  *)
(* operator, else the quote-aware scanners that strip a trailing "&", cut  *)
(* at "|" and read each stage.  Three scanners and a printer must agree on *)
(* what is a word, what is quoted and what is an operator.                 *)
(*                                                                         *)
(* A text is a sequence of characters; a name is a sequence too.           *)
(***************************************************************************)
EXTENDS Naturals, Sequences, FiniteSets, SequencesExt

CONSTANTS
    Char,         \* the characters of a text
    Typed,        \* what a user types: records [text, meant], see Unsaid
    Suggestions,  \* the commands the helper may suggest
    Env,          \* the environment: variable name -> value
    Usage,        \* the catalog: command name -> its usage text
    BufferSize,   \* BUFFER_SIZE
    MaxArgs,      \* MAX_ARGS
    MaxPipeCmds   \* MAX_PIPE_CMDS

ASSUME SizesAssumption == {BufferSize, MaxPipeCmds} \subseteq Nat \ {0} /\ MaxArgs \in Nat \ {0, 1}

VARIABLES
    phase,        \* where the main loop is
    rest,         \* characters of the line that are still unread
    text,         \* the line being worked on (input, expanded, line_to_run)
    meant,        \* what the user meant by the line, or Unsaid
    ast,          \* what the BNFC parser made of it, or NoTree
    stages,       \* texts of the stages not parsed yet
    cmds,         \* the stages parsed so far (cmdv)
    background,   \* a trailing "&" was stripped
    suggested     \* the line is a suggestion the user confirmed

vars == <<phase, rest, text, meant, ast, stages, cmds, background, suggested>>

Nothing == "nothing"
Unsaid == [cmds |-> <<>>, background |-> FALSE]
NoTree == [pipeline |-> <<>>, redir |-> <<>>, background |-> FALSE]
Blank == " "
Quotes == {"'", "\""}
Operators == {"|", "<", ">", "&"}
NameChars == {"a", "b", "l", "r", "1", "2"}
WordChars == NameChars \cup {"/", "*", "-"}

ASSUME CharAssumption ==
    /\ {Blank, "$", "\\", "@"} \cup Quotes \cup Operators \cup WordChars \subseteq Char
    /\ Nothing \notin Char
ASSUME TextsAssumption ==
    /\ \A t \in Typed : t.text \in Seq(Char)
    /\ Suggestions \subseteq Seq(Char)
    /\ \A name \in DOMAIN Env : Env[name] \in Seq(Char)

Take(s, n) == SubSeq(s, 1, n)
Drop(s, n) == SubSeq(s, n + 1, Len(s))
\* The length of the longest prefix of s whose characters are all in C.
Span(s, C) ==
    LET Outside == {i \in DOMAIN s : s[i] \notin C}
    IN IF Outside = {} THEN Len(s) ELSE Min(Outside) - 1
SkipBlanks(s) == Drop(s, Span(s, {Blank}))
Trim(s) == Reverse(SkipBlanks(Reverse(SkipBlanks(s))))

(***************************************************************************)
(* Variable references and quotes.                                         *)
(***************************************************************************)
Value(name) == IF name \in DOMAIN Env THEN Env[name] ELSE <<>>

\* s follows a dollar sign: the name, whether a brace is closed, what follows.
Reference(s) ==
    LET braced == s # <<>> /\ Head(s) = "{"
        body == IF braced THEN Tail(s) ELSE s
        name == Take(body, Span(body, NameChars))
        after == Drop(body, Len(name))
        closed == after # <<>> /\ Head(after) = "}"
    IN [name |-> name, closed |-> braced => closed,
        rest |-> IF braced /\ closed THEN Tail(after) ELSE after]

Toggle(c, quote) ==
    CASE c \in Quotes /\ quote = Nothing -> c
      [] c = quote -> Nothing
      [] OTHER -> quote

\* QuoteAfter(s)[i]: the quote that is open after the first i characters.
QuoteAfter(s) ==
    LET open[i \in 0..Len(s)] ==
            IF i = 0 THEN Nothing ELSE Toggle(s[i], open[i - 1])
    IN open
\* Mutant of Unquoted: every character counts as unquoted.
IgnoresQuotes(s) == DOMAIN s
Unquoted(s) == {i \in DOMAIN s : QuoteAfter(s)[i - 1] = Nothing}

\* expand_variables_line: single quotes protect a dollar sign, nothing else does.
ExpandTurn(e) ==
    LET c == Head(e.rest)
        ref == Reference(Tail(e.rest))
    IN IF e.rest = <<>> THEN e
       ELSE IF c = "$" /\ e.quote # "'"
            THEN [e EXCEPT !.ok = @ /\ ref.closed, !.rest = ref.rest,
                           !.text = @ \o IF ref.name = <<>> THEN <<"$">> ELSE Value(ref.name)]
            ELSE [e EXCEPT !.quote = Toggle(c, @), !.rest = Tail(@), !.text = Append(@, c)]
Expanded(s) ==
    LET at[k \in 0..Len(s)] ==
            IF k = 0 THEN [ok |-> TRUE, quote |-> Nothing, text |-> <<>>, rest |-> s]
            ELSE ExpandTurn(at[k - 1])
    IN at[Len(s)]

(***************************************************************************)
(* The BNFC front end: lexer (longest match, the earlier rule on a tie),   *)
(* grammar and printer.                                                    *)
(***************************************************************************)
Symbols == << <<"&">>, <<"<">>, <<">">>, <<">", ">">>, <<"2", ">">>,
              <<"2", ">", ">">>, <<"|">> >>
Kinds == [i \in 1..7 |-> "symbol"] \o <<"comment", "open", "word", "blank", "error">>

\* How much of s each rule matches, in the order of the rules; 0 is no match.
Matches(s) ==
    [i \in DOMAIN Symbols |-> IF IsPrefix(Symbols[i], s) THEN Len(Symbols[i]) ELSE 0]
    \o << IF IsPrefix(<<"/", "/">>, s) THEN Len(s) ELSE 0,
          IF IsPrefix(<<"/", "*">>, s) THEN 2 ELSE 0,
          Span(s, WordChars), Span(Take(s, 1), {Blank}), 1 >>
BestRule(s) ==
    LET matches == Matches(s)
    IN Min({r \in DOMAIN matches : \A q \in DOMAIN matches : matches[q] <= matches[r]})

\* What follows the end of a comment that has been opened.
AfterComment(s) ==
    LET Ends == {i \in 1..Len(s) - 1 : s[i] = "*" /\ s[i + 1] = "/"}
    IN IF Ends = {} THEN <<>> ELSE Drop(s, Min(Ends) + 1)

Symbol(op) == [kind |-> "symbol", text |-> op]

\* yylex: one rule after the other, until nothing is left.
LexRule(x, rule) ==
    LET n == Matches(x.rest)[rule]
        after == Drop(x.rest, n)
    IN CASE Kinds[rule] = "open" -> [x EXCEPT !.rest = AfterComment(after)]
         [] Kinds[rule] \in {"comment", "blank"} -> [x EXCEPT !.rest = after]
         [] OTHER -> [rest |-> after,
                      toks |-> Append(x.toks, [kind |-> Kinds[rule], text |-> Take(x.rest, n)])]
LexTurn(x) == IF x.rest = <<>> THEN x ELSE LexRule(x, BestRule(x.rest))
Tokens(s) ==
    LET at[k \in 0..Len(s)] ==
            IF k = 0 THEN [rest |-> s, toks |-> <<>>] ELSE LexTurn(at[k - 1])
    IN at[Len(s)].toks

IsWord(tok) == tok.kind = "word"
Texts(toks) == [i \in DOMAIN toks |-> toks[i].text]

\* Pipeline ::= Word ListWord | Word ListWord "|" Pipeline
StageTokens(p) ==
    LET words == Take(p.after, Span(p.after, {t \in Range(p.after) : IsWord(t)}))
        after == Drop(p.after, Len(words))
        bar == after # <<>> /\ Head(after) = Symbol(<<"|">>)
    IN IF ~p.more THEN p
       ELSE [ok |-> words # <<>>, more |-> words # <<>> /\ bar,
             pipeline |-> Append(p.pipeline, Texts(words)),
             after |-> IF bar THEN Tail(after) ELSE after]
Pipeline(toks) ==
    LET at[k \in 0..Len(toks) + 1] ==
            IF k = 0 THEN [ok |-> FALSE, more |-> TRUE, pipeline |-> <<>>, after |-> toks]
            ELSE StageTokens(at[k - 1])
    IN at[Len(toks) + 1]

RedirForms == { <<>>, << <<"<">>, <<">">> >>, << <<">">>, <<"<">> >>, << <<">", ">">> >>,
                << <<"2", ">">> >>, << <<"2", ">", ">">> >>, << <<">">> >>, << <<"<">> >> }

\* OptRedir: operators and words alternate, in one of the forms of the grammar.
OptRedir(toks) ==
    \E form \in RedirForms :
        /\ Len(toks) = 2 * Len(form)
        /\ \A i \in DOMAIN form : toks[2 * i - 1] = Symbol(form[i]) /\ IsWord(toks[2 * i])
Redirections(toks) ==
    [i \in 1..Len(toks) \div 2 |-> <<toks[2 * i - 1].text, toks[2 * i].text>>]

\* psInput: Job ::= CommandLine | CommandLine "&", CommandLine ::= Pipeline OptRedir
ParseTokens(toks) ==
    LET amp == toks # <<>> /\ Last(toks) = Symbol(<<"&">>)
        p == Pipeline(IF amp THEN Front(toks) ELSE toks)
    IN IF p.ok /\ OptRedir(p.after)
       THEN [pipeline |-> p.pipeline, redir |-> Redirections(p.after), background |-> amp]
       ELSE NoTree
ParseInput(s) == ParseTokens(Tokens(s))

\* printInput: every word and every operator is followed by one blank.
\* Mutant of Spaced: the blanks are forgotten.
Glued(words) == FlattenSeq(words)
Spaced(words) == FlattenSeq([i \in DOMAIN words |-> Append(words[i], Blank)])
PrintPipeline(pipeline) ==
    FlattenSeq([i \in DOMAIN pipeline |->
                    (IF i = 1 THEN <<>> ELSE Spaced(<< <<"|">> >>)) \o Spaced(pipeline[i])])
PrintRedir(redir) == FlattenSeq([i \in DOMAIN redir |-> Spaced(redir[i])])
PrintInput(tree) ==
    PrintPipeline(tree.pipeline) \o PrintRedir(tree.redir)
    \o (IF tree.background THEN Spaced(<< <<"&">> >>) ELSE <<>>)

(***************************************************************************)
(* The hand-written scanners.                                              *)
(***************************************************************************)
\* Mutant of IsRedirStart: a word runs through ">".
StopsAtLess(s) == IsPrefix(<<"<">>, s)
IsRedirStart(s) == \E op \in { <<"<">>, <<">">>, <<"2", ">">> } : IsPrefix(op, s)

\* parse_command: strtok on blanks; what is beyond the last slot is dropped.
SplitTurn(x) ==
    LET p == SkipBlanks(x.rest)
        n == Span(p, {c \in Range(p) : c # Blank})
    IN IF p = <<>> THEN x
       ELSE [rest |-> Drop(p, n), words |-> Append(x.words, Take(p, n))]
Split(s) ==
    LET at[k \in 0..Len(s)] ==
            IF k = 0 THEN [rest |-> s, words |-> <<>>] ELSE SplitTurn(at[k - 1])
    IN at[Len(s)].words
ParseCommand(s) == Take(Split(s), Min({Len(Split(s)), MaxArgs - 1}))

\* parse_word_token after its blanks, one turn of its loops: w.quote is the quote it
\* is in, w.word the word so far.
WordTurn(w) ==
    LET s == w.rest
        c == Head(s)
        ref == Reference(Tail(s))
        quoted == w.quote # Nothing
    IN CASE s = <<>> \/ ~w.ok -> w
         [] s # <<>> /\ w.ok /\ ~quoted /\ (c = Blank \/ IsRedirStart(s)) -> w
         [] s # <<>> /\ w.ok /\ c = w.quote -> [w EXCEPT !.quote = Nothing, !.rest = Tail(s)]
         [] s # <<>> /\ w.ok /\ ~quoted /\ c \in Quotes ->
                [w EXCEPT !.quote = c, !.rest = Tail(s)]
         [] s # <<>> /\ w.ok /\ w.quote # "'" /\ c = "$" ->
                [w EXCEPT !.ok = ref.closed, !.word = @ \o Value(ref.name), !.rest = ref.rest]
         [] Len(s) > 1 /\ w.ok /\ w.quote # "'" /\ c = "\\" ->
                [w EXCEPT !.word = Append(@, s[2]), !.rest = Drop(s, 2)]
         [] OTHER -> [w EXCEPT !.word = Append(@, c), !.rest = Tail(s)]
Word(s) ==
    LET at[k \in 0..Len(s)] ==
            IF k = 0 THEN [ok |-> TRUE, quote |-> Nothing, word |-> <<>>, rest |-> s]
            ELSE WordTurn(at[k - 1])
    IN at[Len(s)]

\* The word w, put into a storage that holds `used` characters: an empty word and one
\* that does not fit are errors (store_token).
Stored(w, used) ==
    LET fits == w.word # <<>> /\ used + Len(w.word) + 1 <= BufferSize
    IN [w EXCEPT !.ok = @ /\ w.quote = Nothing /\ fits]
StoreWord(s, used) == Stored(Word(SkipBlanks(s)), used)

RedirOps == << <<"2", ">", "&", "1">>, <<"2", ">", ">">>, <<"2", ">">>,
               <<">", ">">>, <<">">>, <<"<">> >>

\* The stage with the word w, an argument or, after an operator, a file name.
Grown(st, op, w) ==
    LET read == [st EXCEPT !.used = @ + Len(w.word) + 1, !.rest = w.rest]
    IN IF ~w.ok \/ (op = <<>> /\ Len(st.argv) = MaxArgs - 1) THEN [st EXCEPT !.ok = FALSE]
       ELSE IF op = <<>> THEN [read EXCEPT !.argv = Append(@, w.word)]
       ELSE [read EXCEPT !.redirs = Append(@, <<op, w.word>>)]

\* parse_stage: arguments and redirections, from left to right.
OpAt(p) ==
    LET Found == {i \in DOMAIN RedirOps : IsPrefix(RedirOps[i], p)}
    IN IF Found = {} THEN <<>> ELSE RedirOps[Min(Found)]
StageTurn(st) ==
    LET p == SkipBlanks(st.rest)
        op == OpAt(p)
    IN IF p = <<>> \/ ~st.ok THEN st
       ELSE IF op # <<>> /\ Len(st.redirs) = MaxArgs THEN [st EXCEPT !.ok = FALSE]
       ELSE IF op = RedirOps[1]
            THEN [st EXCEPT !.rest = Drop(p, 4), !.redirs = Append(@, <<op, <<>>>>)]
       ELSE Grown(st, op, StoreWord(Drop(p, Len(op)), st.used))
Stage(s) ==
    LET at[k \in 0..Len(s)] ==
            IF k = 0 THEN [ok |-> TRUE, argv |-> <<>>, redirs |-> <<>>, used |-> 0, rest |-> s]
            ELSE StageTurn(at[k - 1])
        st == at[Len(s)]
    IN [st EXCEPT !.ok = @ /\ st.argv # <<>>]

\* strip_trailing_ampersand: the "&" that only blanks follow, if there is one.
TrailingAmp(s) ==
    {i \in Unquoted(s) : s[i] = "&" /\ \A j \in i + 1..Len(s) : s[j] = Blank}
StripAmp(s) ==
    IF TrailingAmp(s) = {} THEN s
    ELSE Reverse(SkipBlanks(Reverse(Take(s, Min(TrailingAmp(s)) - 1))))

\* split_pipeline_stages: the trimmed pieces between unquoted bars.
Bars(s) == {i \in Unquoted(s) : s[i] = "|"}
Pieces(s) ==
    LET at[i \in 0..Len(s)] ==     \* after i characters: where the last piece starts
            IF i = 0 THEN [start |-> 1, pieces |-> <<>>]
            ELSE LET x == at[i - 1] IN
                 IF i \notin Bars(s) THEN x
                 ELSE [start |-> i + 1, pieces |-> Append(x.pieces, Trim(SubSeq(s, x.start, i - 1)))]
        x == at[Len(s)]
    IN Append(x.pieces, Trim(SubSeq(s, x.start, Len(s))))

(***************************************************************************)
(* The suggestion of the helper (@-lines): what is let through.            *)
(***************************************************************************)
\* Mutant of Forbidden: variables and redirections are let through.
ForbidsLess == {"|", "&", ";", "backquote", "(", ")", "{", "}", "[", "]", "\\", "r"}
Forbidden == {"|", "&", ";", "<", ">", "backquote", "$", "(", ")", "{", "}", "[", "]", "\\", "r"}
HasForbiddenSyntax(s) == \E i \in DOMAIN s : s[i] \in Forbidden

\* find_command, then once more with the last component of the path.
Basename(s) ==
    LET Slashes == {i \in DOMAIN s : s[i] = "/"}
    IN IF Slashes = {} THEN s ELSE Drop(s, Max(Slashes))
FindCommand(name) == {c \in DOMAIN Usage : c \in {name, Basename(name)}}

Mentions(usage, tok) ==
    \E i \in 0..Len(usage) - Len(tok) : Take(Drop(usage, i), Len(tok)) = tok

\* validate_option_against_usage
DeclaredOption(usage, opt) ==
    CASE IsPrefix(<<"-", "-">>, opt) -> Mentions(usage, opt)
      [] opt = <<"-">> -> FALSE
      [] OTHER -> \A i \in 2..Len(opt) : Mentions(usage, <<"-", opt[i]>>)

\* validate_suggested_command
Acceptable(s) ==
    LET args == ParseCommand(s)
        spec == FindCommand(Head(args))
    IN /\ s # <<>>
       /\ ~HasForbiddenSyntax(s)
       /\ args # <<>>
       /\ spec # {}
       /\ \A i \in 2..Len(args) : args[i][1] = "-" =>
            DeclaredOption(Usage[CHOOSE c \in spec : TRUE], args[i])

(***************************************************************************)
(* The main loop.                                                          *)
(***************************************************************************)
Init ==
    /\ phase = "prompt" /\ rest = <<>> /\ text = <<>> /\ meant = Unsaid
    /\ ast = NoTree /\ stages = <<>> /\ cmds = <<>>
    /\ background = FALSE /\ suggested = FALSE

\* read_input: fgets takes what its buffer holds and leaves the rest of the line
\* for the next prompt.
Read(line, m) ==
    /\ text' = Take(line, Min({Len(line), BufferSize - 1}))
    /\ rest' = Drop(line, Len(text'))
    /\ meant' = IF rest' = <<>> THEN m ELSE Unsaid
    /\ phase' = IF text' = <<>> THEN "prompt"
                ELSE IF Head(text') = "@" THEN "asked" ELSE "read"
    /\ ast' = NoTree /\ stages' = <<>> /\ cmds' = <<>>
    /\ background' = FALSE /\ suggested' = FALSE
ReadLine == phase = "prompt" /\ rest = <<>> /\ \E t \in Typed : Read(t.text, t.meant)
ReadRest == phase = "prompt" /\ rest # <<>> /\ Read(rest, Unsaid)

ExpandVariables ==
    /\ phase = "read"
    /\ LET e == Expanded(text)
           fits == e.ok /\ Len(e.text) < 2 * BufferSize
       IN /\ phase' = IF fits THEN "expanded" ELSE "refused"
          /\ text' = IF fits THEN e.text ELSE text
    /\ UNCHANGED <<rest, meant, ast, stages, cmds, background, suggested>>

\* Lines with "2>&1" or a quote skip the parser; one it refuses is kept as it is.
Normalize ==
    /\ phase = "expanded"
    /\ LET skipped == (Range(text) \cap Quotes # {}) \/ Mentions(text, RedirOps[1])
       IN ast' = IF skipped THEN NoTree ELSE ParseInput(text)
    /\ text' = IF ast' = NoTree THEN text ELSE PrintInput(ast')
    /\ phase' = "normal"
    /\ UNCHANGED <<rest, meant, stages, cmds, background, suggested>>

HasOperator(s) == Range(s) \cap Operators # {}

RunSimple ==
    /\ phase = "normal" /\ ~HasOperator(text)
    /\ LET args == ParseCommand(text)
       IN /\ phase' = IF args = <<>> THEN "empty" ELSE "run"
          /\ cmds' = <<[argv |-> args, redirs |-> <<>>]>>
    /\ UNCHANGED <<rest, text, meant, ast, stages, background, suggested>>

\* execute_pipeline, up to the first stage.
SplitStages ==
    /\ phase = "normal" /\ HasOperator(text)
    /\ LET line == StripAmp(text)
           pieces == Pieces(line)
       IN /\ background' = (TrailingAmp(text) # {})
          /\ phase' = CASE pieces = << <<>> >> -> "empty"
                        [] Len(pieces) > 1 /\ <<>> \in Range(pieces) -> "refused"
                        [] Len(pieces) > MaxPipeCmds -> "refused"
                        [] OTHER -> "parse"
          /\ stages' = IF phase' = "parse" THEN pieces ELSE <<>>
    /\ UNCHANGED <<rest, text, meant, ast, cmds, suggested>>

\* The redirections a stage may not have, by its place in the pipeline.
Misplaced(redirs, first, last) ==
    \E i \in DOMAIN redirs : \/ ~last /\ redirs[i][1] \in {RedirOps[4], RedirOps[5]}
                             \/ ~first /\ redirs[i][1] = RedirOps[6]

ParseStage ==
    /\ phase = "parse"
    /\ \E st \in {Stage(Head(stages))} :
          LET bad == ~st.ok \/ Misplaced(st.redirs, cmds = <<>>, Len(stages) = 1)
          IN /\ cmds' = Append(cmds, [argv |-> st.argv, redirs |-> st.redirs])
             /\ phase' = IF bad THEN "refused" ELSE IF Len(stages) = 1 THEN "run" ELSE "parse"
             /\ stages' = Tail(stages)
    /\ UNCHANGED <<rest, text, meant, ast, background, suggested>>

\* handle_llm_line: a query asks the helper; what it suggests (as much of it as the
\* buffer holds) is shown.
Suggest(s) ==
    /\ SkipBlanks(Tail(text)) # <<>>
    /\ text' = Take(s, Min({Len(s), BufferSize - 1}))
    /\ phase' = IF s = <<>> THEN "refused" ELSE "confirm"
    /\ UNCHANGED <<rest, meant, ast, stages, cmds, background, suggested>>

NoQuery ==
    /\ phase = "asked" /\ SkipBlanks(Tail(text)) = <<>>
    /\ phase' = "refused"
    /\ UNCHANGED <<rest, text, meant, ast, stages, cmds, background, suggested>>

\* Only a confirmed suggestion is validated; an acceptable one runs as it is
\* (execute_suggested_command).
Confirm(yes) ==
    /\ phase = "confirm"
    /\ LET runs == yes /\ Acceptable(text)
       IN /\ phase' = IF runs THEN "run" ELSE IF yes THEN "refused" ELSE "empty"
          /\ suggested' = runs
          /\ cmds' = IF runs THEN <<[argv |-> ParseCommand(text), redirs |-> <<>>]>> ELSE cmds
    /\ UNCHANGED <<rest, text, meant, ast, stages, background>>

\* The commands run (Repl) or nothing does; either way the loop prompts again.
NextPrompt ==
    /\ phase \in {"run", "refused", "empty"}
    /\ phase' = "prompt"
    /\ text' = <<>> /\ meant' = Unsaid /\ ast' = NoTree
    /\ stages' = <<>> /\ cmds' = <<>> /\ background' = FALSE /\ suggested' = FALSE
    /\ UNCHANGED rest

Next ==
    \/ ReadLine \/ ReadRest \/ ExpandVariables \/ Normalize \/ RunSimple
    \/ SplitStages \/ ParseStage
    \/ phase = "asked" /\ \E s \in Suggestions : Suggest(s)
    \/ NoQuery \/ \E yes \in BOOLEAN : Confirm(yes)
    \/ NextPrompt

Spec == Init /\ [][Next]_vars

(***************************************************************************)
(* Properties.                                                             *)
(***************************************************************************)
Outcome == [cmds |-> cmds, background |-> background]

\* A stage that no array of the shell is too small for.
Small(stage) == Len(stage.argv) < MaxArgs /\ Len(stage.redirs) <= MaxArgs
\* A stage whose words, each with its NUL, fit the storage of one.
Fits(stage) ==
    Len(Spaced(stage.argv)) + Len(Spaced([i \in DOMAIN stage.redirs |-> stage.redirs[i][2]]))
        <= BufferSize

\* What a user meant by a line is what runs: the same stages, words with their
\* quotes removed and their variables replaced, the same redirections in the same
\* order, in the background or not.  Lines meant with a quoted word but without an
\* operator are the subject of QuotesAreRemoved.
RunsWhatWasWritten ==
    meant # Unsaid /\ (HasOperator(text) \/ Range(text) \cap Quotes = {}) =>
        /\ phase \notin {"refused", "empty"}
        /\ phase = "run" => Outcome = meant

\* README.md "quote-aware token scanner supporting single/double quotes": the
\* quotes of a quoted word are not part of the argument, on any line.
QuotesAreRemoved == meant # Unsaid /\ phase = "run" => Outcome = meant

\* The commands an abstract syntax tree stands for.
Denoted(tree) ==
    LET n == Len(tree.pipeline)
    IN [cmds |-> [i \in 1..n |-> [argv |-> tree.pipeline[i],
                                  redirs |-> IF i = n THEN tree.redir ELSE <<>>]],
        background |-> tree.background]

\* The printer and the hand-written scanners agree with the grammar: a line the
\* BNFC parser accepts runs as its tree reads, and is refused only for a limit of
\* the scanners that the grammar does not know.
PrintedIsUnderstood ==
    ast # NoTree =>
        LET d == Denoted(ast)
        IN /\ phase # "empty"
           /\ (phase = "run" /\ \A i \in DOMAIN d.cmds : Small(d.cmds[i])) => Outcome = d
           /\ phase = "refused" =>
                \/ Len(d.cmds) > MaxPipeCmds
                \/ \E i \in DOMAIN d.cmds : ~Small(d.cmds[i]) \/ ~Fits(d.cmds[i])
                \/ Misplaced(Last(d.cmds).redirs, Len(d.cmds) = 1, TRUE)

\* On a line without quotes and backslashes, whose variables are all expanded, no
\* bar and no redirection character ends up inside an argument or a file name: the
\* scanner that cuts the line at its bars and the one that reads the words see the
\* same ones.  An ampersand does end up there, unless it ends the line or belongs to
\* a 2>&1: these scanners know no && and no command after an &.
NoStrayBarOrRedirection ==
    phase = "run" /\ Range(text) \cap (Quotes \cup {"\\", "$"}) = {} =>
        \A i \in DOMAIN cmds :
            /\ \A k \in DOMAIN cmds[i].argv : Range(cmds[i].argv[k]) \cap {"|", "<", ">"} = {}
            /\ \A k \in DOMAIN cmds[i].redirs :
                    Range(cmds[i].redirs[k][2]) \cap {"|", "<", ">"} = {}

\* What the lexer takes for a comment: a word at whose start one of the rules for
\* comments is the best.
HasComment(s) == \E w \in Range(Split(s)) : Kinds[BestRule(w)] \in {"comment", "open"}

\* What the same text would run if it were typed at the prompt: one plain command.
TypedRun(s) ==
    LET e == Expanded(s)
        tree == IF Range(e.text) \cap Quotes # {} THEN NoTree ELSE ParseInput(e.text)
        line == IF tree = NoTree THEN e.text ELSE PrintInput(tree)
    IN IF e.ok /\ ~HasOperator(line)
       THEN <<[argv |-> ParseCommand(line), redirs |-> <<>>]>> ELSE <<>>

\* A suggestion the user confirms runs exactly what the shown text would run had
\* the user typed it (and so it starts one command, with no pipe, no redirection,
\* no background job and no variable): comments apart, which only typed lines have.
ConfirmedAsTyped ==
    phase = "run" /\ suggested /\ ~HasComment(text) => cmds = TypedRun(text)

=============================================================================
