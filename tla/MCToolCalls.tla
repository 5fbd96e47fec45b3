----------------------------- MODULE MCToolCalls -----------------------------
(***************************************************************************)
(* A small workspace and its command documents, and a way to write the     *)
(* requests that the runs of the two tool services send.                   *)
(***************************************************************************)
EXTENDS ToolCalls, TLC

MCNumberOf == ("0" :> 0) @@ ("3" :> 3) @@ ("-1" :> -1) @@ ("9" :> 9)
MCOutside == <<"..">>
MCPlace == ("." :> <<>>) @@ ("d" :> <<"d">>) @@ ("d/f" :> <<"d", "f">>) @@ ("../x" :> <<"..">>)
           @@ ("e/h" :> <<"e", "h">>) @@ ("dryRun" :> <<"dryRun">>) @@ ("days" :> <<"days">>)
MCWordsOf == ("print ls" :> <<"print", "ls">>) @@ ("the" :> <<"the">>) @@ ("list files" :> <<"list", "files">>)
MCHint == ("print ls" :> "") @@ ("the" :> "") @@ ("list files" :> "ls")
MCCorpusOf == ("ls" :> (("ls" :> 0) @@ ("list" :> 10))) @@ ("echo" :> (("print" :> 210) @@ ("files" :> 90)))
MCRank == ("echo" :> 1) @@ ("help" :> 2) @@ ("ls" :> 3) @@ ("pwd" :> 4)

MCWorkspaces ==
    {[files |-> (<<"d", "f">> :> [age |-> 5, data |-> <<"x">>])
                @@ (<<"d", "g">> :> [age |-> 3, data |-> <<"y">>])
                @@ (<<"dryRun">> :> [age |-> 9, data |-> <<>>])
                @@ (<<"days">> :> [age |-> 4, data |-> <<>>]),
      dirs |-> {<<>>, <<"d">>},
      mods |-> {[dir |-> "echo", name |-> "echo", version |-> "1"],
                [dir |-> "ls", name |-> "ls", version |-> ""]}]}

Object(members) ==
    LET Join(a, m) == a \o (IF Len(a) = 1 THEN m ELSE <<",">> \o m)
    IN  FoldLeft(Join, <<"{">>, members) \o <<"}">>
Member(k, v) == <<k, ":", v>>
Nested(k, o) == <<k, ":">> \o o

Orders(S) == {s \in [1..Cardinality(S) -> S] : Range(s) = S}

\* The arguments of a delete, the members in every order; two of the paths
\* are spelled like a key.
DeleteArguments(keys) ==
    UNION {Orders({Member("path", p), Member("days", "3")} \cup y) :
             p \in {"d", "dryRun", "days"},
             y \in {{}} \cup {{Member(k, b)} : k \in keys, b \in {"true", "false"}}}

Native(tool, arguments) ==
    Object(<<Member("type", "tools/call"), Member("tool", tool), Nested("arguments", Object(arguments))>>)
Legacy(tool, arguments) ==
    Object(<<Member("id", "dryRun"), Member("method", "call_tool"),
             Nested("params", Object(<<Member("tool", tool), Nested("args", Object(arguments))>>))>>)
=============================================================================
