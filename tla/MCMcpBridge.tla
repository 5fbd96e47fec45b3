----------------------------- MODULE MCMcpBridge -----------------------------
(***************************************************************************)
(* Two connections to one bridge.  The first writes any of the calls; the  *)
(* second runs beside it and deletes, asks the agent or says nothing.      *)
(***************************************************************************)
EXTENDS McpBridge, MCToolCalls

CONSTANTS one, two

WithKey(k, arguments) ==
    Object(<<Member("method", "tools/call"), Member("name", DeleteTool), Nested(k, Object(arguments))>>)

\* Deletes, also with members spelled twice and paths spelled like members.
DeleteCalls ==
    {Native(DeleteTool, a) : a \in DeleteArguments({"dryRun"})}
    \cup {WithKey(k, <<Member("path", p), Member("days", d), Member("dryRun", b)>>) :
             k \in {"params", "args"}, p \in {"d", ".", "../x", "e/h"},
             d \in {"0", "3", "-1", "null", "true"}, b \in {"false", "true", "null", "0"}}
    \cup {Native(DeleteTool, <<Member("path", "d"), Member("days", "3"), Member("dryRun", "true"),
                               Member("dryRun", "false")>>),
          Native(DeleteTool, <<Member("path", "d"), Member("dryRun", "false")>>)}

OtherCalls ==
    {Native(t, <<Member("name", n)>>) :
        t \in {"registry.package.lookup", "shell.command.help", "nope"}, n \in {"echo", "ls", "d/f"}}
    \cup {Native(t, <<Member("query", q), Member("topK", k)>>) :
             t \in DocumentTools, q \in {"print ls", "the", "list files"}, k \in {"0", "9", "null"}}
    \cup {Native("shell.command.run", <<Member("name", n), Nested("args", a)>>) :
             n \in {"echo", "ls", "cat", "stat", "nope"},
             a \in {<<"[", "]">>, <<"[", "d", "]">>, <<"[", "d/f", "]">>, <<"[", "e/h", "]">>, <<"[", "../x", "]">>}}
    \cup {Native(t, <<>>) : t \in {"registry.packages.list", "shell.commands.list"}}
    \cup {Object(<<Member("type", y)>>) : y \in {"tools/list", "ping"}}
    \cup {<<"ping", "there">>, <<"null">>, <<"3">>}

Asks == Native("agent.command.plan", <<Member("query", "print ls")>>)
Lists == Object(<<Member("type", "tools/list")>>)
Removes == Native(DeleteTool, <<Member("path", "."), Member("days", "3"), Member("dryRun", "false")>>)

Several == {<<Asks, Lists>>, <<<<>>, Asks, Removes>>, <<Asks, Asks, Removes>>, <<<<>>, <<>>, Lists>>,
            <<Removes, Removes>>, <<Lists, Asks>>, <<Asks, <<"null">>>>}

MCScripts ==
    {(one :> <<a>>) @@ (two :> <<>>) : a \in DeleteCalls \cup OtherCalls}
    \cup {(one :> a) @@ (two :> b) : a \in Several, b \in {<<>>, <<Asks>>, <<<<>>, Removes>>}}
=============================================================================
