----------------------------- MODULE MCMcpServer -----------------------------
(***************************************************************************)
(* An rpc command and a session against one native server, for every       *)
(* script of the lists below.                                              *)
(***************************************************************************)
EXTENDS McpServer, MCToolCalls

CONSTANTS rpc, session

OneArgument == {<<Member("name", n)>> : n \in {"echo", "ls", "nope", "d/f"}}
Queries == {<<Member("query", q)>> : q \in {"print ls", "the", "list files"}}

Deletion == Native(DeleteTool, <<Member("path", "d"), Member("days", "3"), Member("dryRun", "false")>>)

\* The first "dryRun" of the text is the path, and what follows it is false.
Misleading ==
    {Native(DeleteTool, <<Member("path", "dryRun"), Member("query", b), Member("days", "3"),
                          Member("dryRun", "true")>>) : b \in {"true", "false"}}

Calls ==
    Misleading \cup
    {Native(DeleteTool, a) : a \in DeleteArguments({"dryRun"})}
    \cup {Legacy("delete_older_than_days", <<Member("days", d), Member("path", p), Member(k, b)>>) :
             d \in {"0", "3"}, p \in {"d", "dryRun"}, k \in {"dryRun", "dry_run"}, b \in {"true", "false"}}
    \cup {Native(DeleteTool, <<Member("path", "d"), Member("days", "3"), Member("dry_run", "false")>>)}
    \cup {Native(t, a) : t \in {"registry.package.lookup", "shell.command.help", "shell.command.run"}, a \in OneArgument}
    \cup {Native(t, a) : t \in DocumentTools, a \in Queries}
    \cup {Native(t, <<>>) : t \in NativeTools \cup {"nope"}}
    \cup {Native("rag.docs.search", <<Member("query", "print ls"), Member("topK", k)>>) : k \in {"0", "3", "9"}}
    \cup {Native(DeleteTool, <<Member("path", p), Member("days", d), Member("dryRun", "false")>>) :
             p \in {"../x", "e/h", "d/f", "."}, d \in {"0", "-1", "null"}}
    \cup {Legacy(t, <<Member("path", p)>>) : t \in {"list_files", "get_time", "nope"}, p \in {"d", "d/f", "../x"}}
    \cup {Object(<<Member("method", m)>>) : m \in {"initialize", "list_tools", "tools/list", "ping"}}
    \cup {Object(<<Member("type", "tools/call"), Member("name", "shell.command.help"),
                   Nested("arguments", Object(<<Member("name", "ls")>>))>>),
          Object(<<Member("method", "tools/call"),
                   Nested("params", Object(<<Member("name", "echo")>>))>>)}

RpcScripts ==
    {<<line>> : line \in Calls}
    \cup {<< <<"USER", "u">> >>, << <<"STOR", "g", "p">> >>, << <<"ping">> >>,
          << [i \in 1..50 |-> "p"] >>}

SessionScripts ==
    {<<>>} \cup
    {<< <<"USER", "u">>, <<"STOR", "d/f", "p", "q">>, <<"RETR", "d/f">>, <<"QUIT">> >>,
     << <<"USER", "u">>, <<"MKD", "e">>, <<"STOR", "e/h", "p">>, <<"LIST", "e">> >>,
     << <<"STOR", "d/f", "p">>, <<"USER">>, <<"PWD">> >>,
     << <<"USER", "u">>, <<"STOR", "d", "p">>, <<"STOR", "d/f", "%">>, <<"NOOP">> >>,
     << <<"USER", "u">>, <<"RETR", "e/h">>, <<"LIST">>, <<"PWD">>, <<"STOR", "../x", "p">> >>,
     << <<"USER", "u">>, [i \in 1..45 |-> IF i = 1 THEN "STOR" ELSE "d/f"], <<"PWD">> >>,
     << [i \in 1..40 |-> "USER"], <<"PWD">> >>,
     << Deletion, Object(<<Member("type", "tools/list")>>) >>,
     << [i \in 1..40 |-> "x"] \o Deletion >>,
     << Deletion \o <<"x">> >>}

\* Every call against a silent session, every session against one call that
\* changes the workspace, and a session that reads or not against a few.
FewCalls ==
    {<< <<"ping">> >>, <<Legacy("list_files", <<Member("path", "d")>>)>>,
     <<Deletion>>, <<Object(<<Member("type", "tools/list")>>)>>}
Pipelined == << <<"PWD">>, Object(<<Member("type", "tools/list")>>), <<"PWD">> >>

MCScripts ==
    {(rpc :> r) @@ (session :> s) : r \in RpcScripts, s \in {<<>>}}
    \cup {(rpc :> << <<"STOR", "g", "p">> >>) @@ (session :> s) : s \in SessionScripts}
    \cup {(rpc :> r) @@ (session :> Pipelined) : r \in FewCalls}
MCAttempts == (rpc :> 2) @@ (session :> 1)

\* The scripts are as the theorems assume.
ASSUME MCLines == OneLineCalls /\ Lines
=============================================================================
