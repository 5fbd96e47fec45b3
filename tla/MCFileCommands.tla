--------------------------- MODULE MCFileCommands ---------------------------
(* Small file trees, and the scripts to run on them. *)
EXTENDS FileCommands, TLC

CONSTANTS s1, s2, a, b, root, i1, i2, i3, i4, i5, none, w, x, y, z

Dir(up, name) == [up |-> up, name |-> name, kind |-> "dir", data |-> z]
File(up, name, data) == [up |-> up, name |-> name, kind |-> "file", data |-> data]
Disk(f) == f @@ (root :> Dir(none, "")) @@ [i \in {i1, i2, i3, i4, i5} |-> Unused]

MCTrees ==
  {Disk(i1 :> File(root, a, x)), Disk(i1 :> File(root, b, y)),
   Disk((i1 :> Dir(root, a)) @@ (i2 :> File(root, b, x))),
   Disk((i1 :> Dir(root, a)) @@ (i2 :> Dir(i1, a)) @@ (i3 :> File(i1, b, x))),
   Disk((i1 :> Dir(root, a)) @@ (i2 :> File(i1, a, x)) @@ (i3 :> Dir(root, b)) @@ (i4 :> File(i3, a, y)))}

Paths == {<<a>>, <<b>>, <<a, a>>, <<a, b>>}
Two == {<<from, to>> : from \in Paths, to \in Paths}
Cmd(name, opts, args) == [name |-> name, opts |-> opts, args |-> args]
One(name, optsets) == {Cmd(name, o, <<<<q>>>>) : o \in optsets, q \in Paths}

Commands ==
  {Cmd("cp", o, <<t>>) : o \in {{}, {"r"}}, t \in Two} \cup {Cmd("mv", {}, <<t>>) : t \in Two}
    \cup One("rm", {{}, {"r"}, {"f"}, {"r", "f"}}) \cup One("mkdir", {{}, {"p"}})
    \cup One("rmdir", {{}, {"p"}}) \cup One("touch", {{}, {"c"}})
    \cup {Cmd(n, {"p"}, <<<<q>>, <<<<b, a>>>>>>) : n \in {"mkdir", "rmdir"}, q \in Paths}
    \cup {Cmd("rm", o, <<<<q>>, <<<<a>>>>>>) : o \in {{}, {"r"}, {"f"}}, q \in Paths}
    \cup {Cmd(n, {}, <<<<q>>>>) : n \in {"cat", "head", "tail", "ls", "stat"}, q \in Paths}
    \cup {Cmd("pwd", o, <<<<<<>>>>>>) : o \in {{}, {"L"}}}

Cd(path) == Cmd("cd", {}, <<<<path>>>>)
Alone(s) == (s1 :> s) @@ (s2 :> <<>>)
Both(c, d) == (s1 :> <<c>>) @@ (s2 :> <<d>>)

\* Commands worth running against each other.
Rival(paths) ==
  {Cmd(t[1], t[2], <<<<q>>>>) : q \in paths,
     t \in {<<"rm", {"r", "f"}>>, <<"rm", {"r"}>>, <<"mkdir", {"p"}>>, <<"rmdir", {"p"}>>, <<"touch", {}>>}}
  \cup {Cmd("cp", {"r"}, <<<<<<a>>, <<b>>>>>>), Cmd("mv", {}, <<<<<<a>>, <<b>>>>>>), Cd(<<a>>)}

MCPrograms ==
  {Alone(<<c>>) : c \in Commands}
    \cup {Alone(<<Cd(<<a>>), c, Cd(<<>>)>>) : c \in Commands}
    \cup {Both(c, d) : c \in Rival({<<a>>, <<a, a>>, <<a, b>>}), d \in Rival({<<a>>, <<a, a>>})}
    \cup {(s1 :> <<Cd(<<a>>), c>>) @@ (s2 :> <<Cmd("rm", {"r", "f"}, <<<<<<a>>>>>>)>>) :
            c \in One("mkdir", {{}}) \cup {Cmd("pwd", {}, <<<<<<>>>>>>)}}
=============================================================================
