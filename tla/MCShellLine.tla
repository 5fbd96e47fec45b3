----------------------------- MODULE MCShellLine -----------------------------
(***************************************************************************)
(* Lines for ShellLine: every short string over two alphabets (what a line *)
(* may look like), and the lines a user writes for a known meaning.        *)
(***************************************************************************)
EXTENDS ShellLine

Strings(C, n) == UNION {[1..k -> C] : k \in 0..n}

MCEnv == (<<"a">> :> <<"b", "b", "b">>) @@ (<<"b">> :> <<>>)
MCChar == {Blank, "$", "\\", "@", "{", "}"} \cup Quotes \cup Operators \cup WordChars

MCUsage == <<"l">> :> <<"-", "a", Blank, "-", "-", "b">>

\* A word as it is written, and its value.
Written ==
    {[text |-> <<"a">>, value |-> <<"a">>],
     [text |-> <<"b", "2">>, value |-> <<"b", "2">>],
     [text |-> <<"'", "a", Blank, "l", "'">>, value |-> <<"a", Blank, "l">>],
     [text |-> <<"$", "a">>, value |-> <<"b", "b", "b">>],
     [text |-> <<"'", "|", Blank, "$", "'">>, value |-> <<"|", Blank, "$">>],
     [text |-> <<"\"", ">", "$", "{", "a", "}", "\"">>, value |-> <<">", "b", "b", "b">>],
     [text |-> <<"a", "'", "&", "'">>, value |-> <<"a", "&">>]}

Stages == {[words |-> w, redir |-> r] :
             w \in {<<x>> : x \in Written} \cup {<<x, y>> : x, y \in Written},
             r \in {<<>>} \cup {<<op, x>> : op \in Range(RedirOps) \ {RedirOps[1]}, x \in Written}}

StageText(st, gap) ==
    st.words[1].text \o <<Blank>>
    \o (IF Len(st.words) = 1 THEN <<>> ELSE Append(st.words[2].text, Blank))
    \o (IF st.redir = <<>> THEN <<>> ELSE st.redir[1] \o gap \o st.redir[2].text)
StageMeant(st) ==
    [argv |-> [i \in DOMAIN st.words |-> st.words[i].value],
     redirs |-> IF st.redir = <<>> THEN <<>> ELSE << <<st.redir[1], st.redir[2].value>> >>]

\* One stage, or two of which the first may not redirect its output, nor the
\* second its input.
Lines ==
    {[text |-> StageText(a, gap) \o amp, meant |-> [cmds |-> <<StageMeant(a)>>,
        background |-> amp # <<>>]] :
            a \in Stages, gap \in {<<>>, <<Blank>>}, amp \in {<<>>, <<"&">>}}
    \cup
    {[text |-> StageText(a, <<>>) \o <<"|">> \o StageText(b, <<>>),
      meant |-> [cmds |-> <<StageMeant(a), StageMeant(b)>>, background |-> FALSE]] :
            a \in {s \in Stages : Len(s.words) = 1 /\ (s.redir = <<>> \/ s.redir[1] = RedirOps[6])},
            b \in {s \in Stages : Len(s.words) = 1 /\ (s.redir = <<>> \/ s.redir[1] \in {RedirOps[3], RedirOps[4]})}}

Raw(S) == {[text |-> s, meant |-> Unsaid] : s \in S}

MCTyped ==
    Lines
    \cup Raw(Strings({"a", "2", Blank, "|", ">", "&", "\""}, 4))
    \cup Raw(Strings({"a", "$", "{", "}", "\\", "'", "/", "*", ">"}, 3))
    \cup Raw({<<"@">>, <<"@", "a">>, <<"a", "|", "a", "|", "a">>, [i \in 1..38 |-> IF i % 2 = 0 THEN Blank ELSE "a"],
              [i \in 1..30 |-> IF i % 2 = 0 THEN "a" ELSE "$"],
              [i \in 1..28 |-> IF i % 2 = 0 THEN "a" ELSE "$"] \o <<"|", "a">>})

MCSuggestions ==
    {<<"l", Blank>> \o s : s \in Strings({"a", "-", Blank, "/", "|", "$", "\""}, 3)}
    \cup Strings({"l", "a", "/", "*", Blank}, 3)
    \cup {<<"l", Blank, "/", "*", "@">>}
=============================================================================
