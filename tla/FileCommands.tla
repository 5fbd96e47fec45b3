---------------------------- MODULE FileCommands ----------------------------
(***************************************************************************)
(* The builtins that work on files: cp, mv, rm, mkdir, rmdir, touch, cd,   *)
(* ls, cat, head, tail, stat, pwd. Several shells run them at once; a step *)
(* is one system call, so another shell's call may fall between the lstat  *)
(* and the opendir of rm -r, the open and the write of cp, and so on.      *)
(* What arg_parse makes of an argv is the business of module Arguments.    *)
(***************************************************************************)
EXTENDS Naturals, Sequences, FiniteSets, SequencesExt

CONSTANTS
  Shells,      \* the shells that run commands
  Names,       \* what directory entries are called
  Inodes,      \* the inodes of the file system; a full disk is part of the model
  Root,        \* the directory the shells start in, and $HOME
  Nowhere,     \* the parent of an inode without an entry
  Data,        \* file contents
  Empty,       \* the contents of an empty file
  Short,       \* the beginning of a file whose copying stopped early
  Failing,     \* which of cp's "read", "write" and "flush" calls may fail
  Trees,       \* the file trees to start from
  Programs     \* the scripts to run: a sequence of commands for each shell

VARIABLES
  node,      \* the file system: for each inode its parent, name, kind and contents
  cwd,       \* the working directory of each shell
  run,       \* the command each shell executes
  script,    \* the commands it has still to execute
  before,    \* history: the file system when the command began
  alone      \* history: no other shell has acted since then

vars == <<node, cwd, run, script, before, alone>>

Unused == [up |-> Nowhere, name |-> "", kind |-> "none", data |-> Empty]
NoFile == Nowhere
Kinds == {"none", "dir", "file"}
Errors == {"ENOENT", "ENOTDIR", "EEXIST", "EISDIR", "ENOTEMPTY", "EINVAL", "ENOSPC"}
Nodes == [up : Inodes \cup {Nowhere}, name : Names \cup {""}, kind : Kinds, data : Data]

ASSUME FileAssumption ==
  /\ Root \in Inodes /\ Nowhere \notin Inodes
  /\ {Empty, Short} \subseteq Data /\ IsFiniteSet(Inodes)
  /\ Failing \subseteq {"read", "write", "flush"}
  /\ Errors \cap (Inodes \cup {Nowhere}) = {}

\* The command lines of the scripts; a path is empty only where none was given, and
\* cp and mv take one source and one destination.
CommandNames == {"cp", "mv", "rm", "mkdir", "rmdir", "touch", "cd", "ls", "cat", "head",
                 "tail", "stat", "pwd"}
CommandLines ==
  {c \in [name : CommandNames, opts : SUBSET {"r", "f", "p", "c", "L"}, args : Seq(Seq(Seq(Names)))] :
     c.name \in {"cp", "mv"} => Len(c.args) = 1}

OperandOK(c, arg) ==
  /\ Len(arg) = IF c.name \in {"cp", "mv"} THEN 2 ELSE 1
  /\ c.name \notin {"cd", "ls", "pwd"} => <<>> \notin Range(arg)

ASSUME ScriptsAreLines ==
  /\ Programs \subseteq [Shells -> Seq(CommandLines)]
  /\ \A s \in Programs : \A p \in Shells : \A k \in DOMAIN s[p] :
       \A arg \in Range(s[p][k].args) : OperandOK(s[p][k], arg)

\* No command yet, or one that has returned. History: cut holds the paths of the
\* files that the command wrote in part only, without noticing.
Idle == [name |-> "none", opts |-> {}, args |-> <<>>]
AtRest(c, ret) == [cmd |-> c, args |-> <<>>, todo |-> <<>>, ret |-> ret,
                   src |-> NoFile, dst |-> NoFile, cut |-> {}]

Init ==
  /\ node \in Trees
  /\ cwd = [p \in Shells |-> Root]
  /\ script \in Programs
  /\ run = [p \in Shells |-> AtRest(Idle, 0)]
  /\ before = [p \in Shells |-> node]
  /\ alone = [p \in Shells |-> TRUE]

-----------------------------------------------------------------------------
(* The kernel's view of names.                                             *)

IsDir(n, i) == n[i].kind = "dir"
Linked(n, i) == i = Root \/ n[i].up # Nowhere
Entries(n, d) == {i \in Inodes \ {Root} : n[i].up = d}
EntryNames(n, d) == {n[i].name : i \in Entries(n, d)}

\* One component of a path, from directory d; errors are passed on.
Component(n, d, x) ==
  IF d \in Errors THEN d
  ELSE IF ~IsDir(n, d) THEN "ENOTDIR"
  ELSE LET found == {i \in Entries(n, d) : n[i].name = x} IN
       IF found = {} THEN "ENOENT" ELSE CHOOSE i \in found : TRUE

\* The inode a path leads to, or the error; the empty path is the directory itself.
Lookup(n, d, path) ==
  LET at[k \in 0..Len(path)] == IF k = 0 THEN d ELSE Component(n, at[k - 1], path[k])
  IN at[Len(path)]
Found(n, d, path) == Lookup(n, d, path) \in Inodes
Parent(n, d, path) == Lookup(n, d, Front(path))

\* The inodes at or below i: those in every set with i and the entries of its members.
HoldsEntries(n, S) == \A j \in Inodes \ {Root} : n[j].up \in S => j \in S
Below(n, i) == {j \in Inodes : \A S \in SUBSET Inodes : i \in S /\ HoldsEntries(n, S) => j \in S}

\* The file system is a tree: an entry is in a directory, names are unique there,
\* and going up one leaves every set of entries; an inode without an entry is held,
\* and one with an entry is a directory or a file.
IsTree(n, held) ==
  /\ n \in [Inodes -> Nodes]
  /\ IsDir(n, Root) /\ n[Root].up = Nowhere
  /\ \A i \in Inodes : n[i].kind = "none" => n[i].up = Nowhere
  /\ \A i \in Inodes \ {Root} :
       IF n[i].up = Nowhere THEN n[i] = Unused \/ i \in held
       ELSE /\ n[i].name \in Names /\ IsDir(n, n[i].up) /\ Linked(n, n[i].up)
            /\ \A j \in Entries(n, n[i].up) : n[j].name = n[i].name => j = i
  /\ \A S \in SUBSET (Inodes \ {Root}) : S # {} => \E i \in S : n[i].up \notin S

ASSUME TreesAreTrees == \A n \in Trees : IsTree(n, {})

\* Open files and working directories keep an inode without an entry.
Held(r, w) == UNION {{r[p].src, r[p].dst, w[p]} : p \in Shells}
Free(n) == {i \in Inodes \ {Root} : n[i] = Unused}
Tidy(n, held) ==
  [i \in Inodes |-> IF ~Linked(n, i) /\ i \notin held THEN Unused ELSE n[i]]

\* What stands in the way of a new entry: the parent, or an entry there is.
CannotCreate(n, d, path) ==
  LET up == Parent(n, d, path) IN
  IF up \in Errors THEN {up}
  ELSE IF ~IsDir(n, up) THEN {"ENOTDIR"}
  ELSE IF Last(path) \in EntryNames(n, up) THEN {"EEXIST"}
  ELSE IF ~Linked(n, up) THEN {"ENOENT"}
  ELSE IF Free(n) = {} THEN {"ENOSPC"} ELSE {}

Create(n, d, path, kind) ==
  [n EXCEPT ![CHOOSE i \in Free(n) : TRUE] =
     [up |-> Parent(n, d, path), name |-> Last(path), kind |-> kind, data |-> Empty]]

Unlink(n, i) == [n EXCEPT ![i].up = Nowhere, ![i].name = ""]

-----------------------------------------------------------------------------
(* A command: its operands one by one, each a stack of calls to make.      *)

Call(op, a, b) == [op |-> op, a |-> a, b |-> b]
Has(c, o) == o \in c.opts

Prefixes1(path) == [k \in 1..Len(path) |-> SubSeq(path, 1, k)]

\* The body of the loop over the operands, command by command.
CpRun(c, arg) == <<Call(IF Has(c, "r") THEN "copyAny" ELSE "openSrc", arg[1], arg[2])>>
MvRun(c, arg) == <<Call("rename", arg[1], arg[2])>>
RmRun(c, arg) == <<Call(IF Has(c, "r") THEN "rmAny" ELSE "unlink", arg[1], <<>>)>>
MkDirP(path) == [k \in 1..Len(path) |-> Call("mkdirOk", Prefixes1(path)[k], <<>>)]
MkDirRun(c, arg) == IF Has(c, "p") THEN MkDirP(arg[1]) ELSE <<Call("mkdir", arg[1], <<>>)>>
RmDirRun(c, arg) == <<Call(IF Has(c, "p") THEN "rmdirUp" ELSE "rmdir", arg[1], <<>>)>>
TouchRun(c, arg) == <<Call("utime", arg[1], <<>>)>>
CdRun(c, arg) == <<Call("chdir", arg[1], <<>>)>>
ReadRun(c, arg) == <<Call("show", arg[1], <<>>)>>

Calls(c, arg) ==
  CASE c.name = "cp"    -> CpRun(c, arg)
    [] c.name = "mv"    -> MvRun(c, arg)
    [] c.name = "rm"    -> RmRun(c, arg)
    [] c.name = "mkdir" -> MkDirRun(c, arg)
    [] c.name = "rmdir" -> RmDirRun(c, arg)
    [] c.name = "touch" -> TouchRun(c, arg)
    [] c.name = "cd"    -> CdRun(c, arg)
    [] OTHER            -> ReadRun(c, arg)

\* On to the next operand when the calls of this one are made.
Load(r) ==
  IF r.todo = <<>> /\ r.args # <<>>
  THEN [r EXCEPT !.todo = Calls(r.cmd, Head(r.args)), !.args = Tail(r.args)]
  ELSE r

\* The call is made and leaves these to make; or it fails, and with it the operand.
Instead(r, calls) == Load([r EXCEPT !.todo = calls \o Tail(@)])
Done(r) == Instead(r, <<>>)
Fail(r) == Load([r EXCEPT !.todo = <<>>, !.ret = 1, !.src = NoFile, !.dst = NoFile])

Busy(p) == run[p].todo # <<>>
Next1(p, op) == Busy(p) /\ Head(run[p].todo).op = op
A(p) == Head(run[p].todo).a
B(p) == Head(run[p].todo).b

\* A call returns: what it does to the command and to the file system.
Returns(p, r, n) ==
  /\ run' = [run EXCEPT ![p] = r]
  /\ node' = Tidy(n, Held(run', cwd))
  /\ alone' = [q \in Shells |-> IF q = p THEN alone[q] ELSE FALSE]
  /\ UNCHANGED <<cwd, script, before>>

\* The shell starts the next command of its script.
Start(p) ==
  /\ ~Busy(p) /\ script[p] # <<>>
  /\ LET c == Head(script[p]) IN
       run' = [run EXCEPT ![p] = Load([AtRest(c, 0) EXCEPT !.args = c.args])]
  /\ script' = [script EXCEPT ![p] = Tail(@)]
  /\ before' = [before EXCEPT ![p] = node]
  /\ alone' = [alone EXCEPT ![p] = TRUE]
  /\ UNCHANGED <<node, cwd>>

-----------------------------------------------------------------------------
(* cp.                                                                     *)

\* copy_recursive: stat tells a directory from a file.
CopyAny(p) ==
  /\ Next1(p, "copyAny")
  /\ LET r == run[p]
         i == Lookup(node, cwd[p], A(p))
     IN Returns(p, IF i \in Errors THEN Fail(r)
                   ELSE Instead(r, <<Call(IF IsDir(node, i) THEN "copyDir" ELSE "openSrc",
                                          A(p), B(p))>>), node)

\* mkdir of the destination; one that exists will do, whatever it is.
CopyDir(p) ==
  /\ Next1(p, "copyDir")
  /\ LET r == run[p]
         no == CannotCreate(node, cwd[p], B(p))
     IN IF no = {} THEN Returns(p, Instead(r, <<Call("copyKids", A(p), B(p))>>),
                                Create(node, cwd[p], B(p), "dir"))
        ELSE Returns(p, IF no = {"EEXIST"} THEN Instead(r, <<Call("copyKids", A(p), B(p))>>)
                        ELSE Fail(r), node)

\* snprintf of the path of an entry.
BareName(dir, x) == <<x>>
ChildPath(dir, x) == Append(dir, x)

\* The orders in which readdir may return the entries.
Orders(S) == {q \in [1..Cardinality(S) -> S] : Range(q) = S}

\* opendir of the source, after the mkdir: what the loop over readdir will copy.
CopyKids(p) ==
  /\ Next1(p, "copyKids")
  /\ LET r == run[p]
         i == Lookup(node, cwd[p], A(p))
     IN IF i \in Errors \/ ~IsDir(node, i) THEN Returns(p, Fail(r), node)
        ELSE \E q \in Orders(EntryNames(node, i)) :
               Returns(p, Instead(r, [k \in 1..Len(q) |->
                         Call("copyAny", ChildPath(A(p), q[k]), ChildPath(B(p), q[k]))]), node)

\* copy_file: fopen of the source for reading, which a directory permits.
OpenSrc(p) ==
  /\ Next1(p, "openSrc")
  /\ LET r == run[p]
         i == Lookup(node, cwd[p], A(p))
     IN Returns(p, IF i \in Errors THEN Fail(r)
                   ELSE [Instead(r, <<Call("openDst", A(p), B(p))>>) EXCEPT !.src = i], node)

\* fopen of the destination for writing empties it, or creates it.
OpenDst(p) ==
  /\ Next1(p, "openDst")
  /\ LET r == run[p]
         i == Lookup(node, cwd[p], B(p))
         no == CannotCreate(node, cwd[p], B(p))
         n == IF no = {} THEN Create(node, cwd[p], B(p), "file")
              ELSE [node EXCEPT ![i].data = Empty]
     IN IF no \notin {{}, {"EEXIST"}} \/ (no = {"EEXIST"} /\ IsDir(node, i))
        THEN Returns(p, Fail(r), node)
        ELSE Returns(p, [Instead(r, <<Call("pump", A(p), B(p))>>)
                           EXCEPT !.dst = Lookup(n, cwd[p], B(p))], n)

\* The loop over fread: a directory cannot be read, which ends the loop like the
\* end of a file.
Shut(r) == [r EXCEPT !.src = NoFile, !.dst = NoFile]
Pump(p) ==
  /\ Next1(p, "pump")
  /\ LET from == node[run[p].src] IN
       Returns(p, Done(Shut(run[p])),
               IF from.kind = "file" THEN [node EXCEPT ![run[p].dst].data = from.data] ELSE node)

\* The loop or the last flush breaks off: what is in the file by then.
BreaksOff(p, r) ==
  /\ Next1(p, "pump")
  /\ node[run[p].src].kind = "file" /\ node[run[p].src].data # Empty
  /\ \E d \in {Empty, Short} : Returns(p, r, [node EXCEPT ![run[p].dst].data = d])

\* fwrite writes less than it was given, an error.
WriteIgnored(r) == Done(Shut(r))
WriteError(r) == Fail(r)
WriteFails(p) == "write" \in Failing /\ BreaksOff(p, WriteError(run[p]))

\* fread fails, which the loop takes for the end of the file, or fclose cannot write
\* what fwrite had buffered, which nobody asks: the copy is a success.
CopyCutShort(p) ==
  /\ Failing \cap {"read", "flush"} # {}
  /\ BreaksOff(p, Done(Shut([run[p] EXCEPT !.cut = @ \cup {B(p)}])))

-----------------------------------------------------------------------------
(* rm.                                                                     *)

\* -f covers a file that is not there, and nothing else.
AlwaysCovers(c, err) == err = "ENOENT"
NeverCovers(c, err) == FALSE
ForceCovers(c, err) == err = "ENOENT" /\ Has(c, "f")

\* unlink, of an operand or of a file met by remove_recursive.
RmUnlink(p) ==
  /\ Next1(p, "unlink")
  /\ LET r == run[p]
         i == Lookup(node, cwd[p], A(p))
     IN IF i \in Errors
        THEN Returns(p, IF ForceCovers(r.cmd, i) THEN Done(r) ELSE Fail(r), node)
        ELSE IF IsDir(node, i) THEN Returns(p, Fail(r), node)
        ELSE Returns(p, Done(r), Unlink(node, i))

\* remove_recursive: lstat; with -f what is not there need not be removed.
RmAny(p) ==
  /\ Next1(p, "rmAny")
  /\ LET r == run[p]
         i == Lookup(node, cwd[p], A(p))
     IN Returns(p, IF i \in Errors
                   THEN IF ForceCovers(r.cmd, i) THEN Done(r) ELSE Fail(r)
                   ELSE Instead(r, <<Call(IF IsDir(node, i) THEN "rmKids" ELSE "unlink",
                                          A(p), <<>>)>>), node)

\* opendir: its entries, and then the directory itself.
RmKids(p) ==
  /\ Next1(p, "rmKids")
  /\ LET r == run[p]
         i == Lookup(node, cwd[p], A(p))
     IN IF i \in Errors \/ ~IsDir(node, i) THEN Returns(p, Fail(r), node)
        ELSE \E q \in Orders(EntryNames(node, i)) :
               Returns(p, Instead(r, [k \in 1..Len(q) |-> Call("rmAny", ChildPath(A(p), q[k]), <<>>)]
                                       \o <<Call("rmdir", A(p), <<>>)>>), node)

-----------------------------------------------------------------------------
(* mkdir, rmdir, mv, touch, cd and the commands that only read.            *)

\* mkdir -p goes on where something has the name.
Strict(op, no) == FALSE
Tolerated(op, no) == op = "mkdirOk" /\ no = {"EEXIST"}

MkDir(p, op) ==
  /\ Next1(p, op)
  /\ LET no == CannotCreate(node, cwd[p], A(p)) IN
       IF no = {} THEN Returns(p, Done(run[p]), Create(node, cwd[p], A(p), "dir"))
       ELSE Returns(p, IF Tolerated(op, no) THEN Done(run[p]) ELSE Fail(run[p]),
                    node)

\* rmdir(2): the error, if there is one.
CannotRmDir(n, i) ==
  IF i \in Errors THEN {i}
  ELSE IF ~IsDir(n, i) THEN {"ENOTDIR"}
  ELSE IF Entries(n, i) # {} THEN {"ENOTEMPTY"} ELSE {}

RmDir(p) ==
  /\ Next1(p, "rmdir")
  /\ LET i == Lookup(node, cwd[p], A(p)) IN
       IF CannotRmDir(node, i) = {} THEN Returns(p, Done(run[p]), Unlink(node, i))
       ELSE Returns(p, Fail(run[p]), node)

\* rmdir_p: upwards until a directory is not empty, be it the first.
TriesAgain(r, no) == IF no = {"ENOTEMPTY"} THEN r ELSE Fail(r)
GivesUp(r, no) == IF no = {"ENOTEMPTY"} THEN Done(r) ELSE Fail(r)

RmDirUp(p) ==
  /\ Next1(p, "rmdirUp")
  /\ LET i == Lookup(node, cwd[p], A(p))
         no == CannotRmDir(node, i)
         up == IF Len(A(p)) > 1 THEN <<Call("rmdirUp", Front(A(p)), <<>>)>> ELSE <<>>
     IN IF no = {} THEN Returns(p, Instead(run[p], up), Unlink(node, i))
        ELSE Returns(p, GivesUp(run[p], no), node)

\* rename(2), which replaces a file, or an empty directory by a directory.
CannotRename(n, d, from, to) ==
  LET i == Lookup(n, d, from)
      j == Lookup(n, d, to)
      up == Parent(n, d, to)
  IN IF i \in Errors THEN {i}
     ELSE IF up \in Errors THEN {up}
     ELSE IF ~IsDir(n, up) THEN {"ENOTDIR"}
     ELSE IF up \in Below(n, i) THEN {"EINVAL"}
     ELSE IF j \in Errors THEN (IF Linked(n, up) THEN {} ELSE {"ENOENT"})
     ELSE IF i = j THEN {}
     ELSE IF IsDir(n, i) /\ ~IsDir(n, j) THEN {"ENOTDIR"}
     ELSE IF IsDir(n, j) /\ Entries(n, j) # {} THEN {"ENOTEMPTY"}
     ELSE IF IsDir(n, j) /\ ~IsDir(n, i) THEN {"EISDIR"} ELSE {}

Renamed(n, d, from, to) ==
  LET i == Lookup(n, d, from)
      j == Lookup(n, d, to)
      cleared == IF j \in Errors \/ i = j THEN n ELSE Unlink(n, j)
  IN [cleared EXCEPT ![i].up = Parent(n, d, to), ![i].name = Last(to)]

Rename(p) ==
  /\ Next1(p, "rename")
  /\ IF CannotRename(node, cwd[p], A(p), B(p)) = {}
     THEN Returns(p, Done(run[p]), Renamed(node, cwd[p], A(p), B(p)))
     ELSE Returns(p, Fail(run[p]), node)

\* utime; a file that is not there is created by the next call, unless -c.
Utime(p) ==
  /\ Next1(p, "utime")
  /\ LET r == run[p]
         i == Lookup(node, cwd[p], A(p))
     IN Returns(p, IF i \notin Errors \/ (i = "ENOENT" /\ Has(r.cmd, "c")) THEN Done(r)
                   ELSE IF i = "ENOENT" THEN Instead(r, <<Call("create", A(p), <<>>)>>)
                   ELSE Fail(r), node)

\* open with O_CREAT, which opens what another shell has created meanwhile.
TouchCreate(p) ==
  /\ Next1(p, "create")
  /\ LET no == CannotCreate(node, cwd[p], A(p)) IN
       IF no = {} THEN Returns(p, Done(run[p]), Create(node, cwd[p], A(p), "file"))
       ELSE Returns(p, IF no = {"EEXIST"} /\ ~IsDir(node, Lookup(node, cwd[p], A(p)))
                       THEN Done(run[p]) ELSE Fail(run[p]), node)

\* cd; without an operand the path is that of $HOME.
ChDir(p) ==
  /\ Next1(p, "chdir")
  /\ LET home == A(p) = <<>>
         i == IF home THEN Root ELSE Lookup(node, cwd[p], A(p))
         ok == i \in Inodes /\ IsDir(node, i)
     IN /\ cwd' = IF ok THEN [cwd EXCEPT ![p] = i] ELSE cwd
        /\ run' = [run EXCEPT ![p] = IF ok THEN Done(@) ELSE Fail(@)]
        /\ node' = Tidy(node, Held(run', cwd'))
        /\ alone' = [q \in Shells |-> IF q = p THEN alone[q] ELSE FALSE]
  /\ UNCHANGED <<script, before>>

\* cat, head and tail open their file, a directory too, and print what can be
\* read; stat wants an entry, ls a directory ("." without an operand), and pwd a
\* working directory that still has a path (with -L it prints $PWD, which cd
\* does not update).
CatShows(n, i) == i \in Inodes
HeadShows(n, i) == i \in Inodes
TailShows(n, i) == i \in Inodes
StatShows(n, i) == i \in Inodes
LsShows(n, i) == i \in Inodes /\ IsDir(n, i)
PwdShows(c, n, i) == Has(c, "L") \/ Linked(n, i)
Shows(c, n, i) ==
  CASE c.name = "cat" -> CatShows(n, i) [] c.name = "head" -> HeadShows(n, i)
    [] c.name = "tail" -> TailShows(n, i) [] c.name = "stat" -> StatShows(n, i)
    [] c.name = "ls" -> LsShows(n, i) [] c.name = "pwd" -> PwdShows(c, n, i)

Show(p) ==
  /\ Next1(p, "show")
  /\ Returns(p, IF Shows(run[p].cmd, node, Lookup(node, cwd[p], A(p)))
                THEN Done(run[p]) ELSE Fail(run[p]), node)

-----------------------------------------------------------------------------
Step(p) ==
  \/ Start(p)
  \/ CopyAny(p) \/ CopyDir(p) \/ CopyKids(p) \/ OpenSrc(p) \/ OpenDst(p)
  \/ Pump(p) \/ WriteFails(p) \/ CopyCutShort(p)
  \/ RmUnlink(p) \/ RmAny(p) \/ RmKids(p)
  \/ MkDir(p, "mkdir") \/ MkDir(p, "mkdirOk") \/ RmDir(p) \/ RmDirUp(p)
  \/ Rename(p) \/ Utime(p) \/ TouchCreate(p) \/ ChDir(p) \/ Show(p)

Next == \E p \in Shells : Step(p)

Spec == Init /\ [][Next]_vars

\* System calls return: as long as some shell can go on, one does.
FairSpec == Spec /\ WF_vars(Next)

\* The scripts have run: the only state in which nothing more happens.
AllOver == \A p \in Shells : ~Busy(p) /\ script[p] = <<>>

-----------------------------------------------------------------------------
(* Properties.                                                             *)

\* What is below an inode: the path to it, what it is and what it holds.
Tree(n, i) ==
  {<<q, n[Lookup(n, i, q)].kind, n[Lookup(n, i, q)].data>> :
     q \in {q \in BoundedSeq(Names, Cardinality(Inodes)) : Found(n, i, q)}}

Files(n, i) == {t \in Tree(n, i) : t[2] = "file"}

\* Values are of their kind, and the file system stays a tree.
TypeOK ==
  /\ IsTree(node, Held(run, cwd))
  /\ cwd \in [Shells -> Inodes]
  /\ \A p \in Shells : run[p].ret \in {0, 1}

Ended(p) == run[p].cmd # Idle /\ ~Busy(p)
Operands(p) == Range(run[p].cmd.args)
Is(p, name, o) == run[p].cmd.name = name /\ o \subseteq run[p].cmd.opts

\* The destination is not the source, nor in it, nor does it hold it.
Apart(n, d, a, b) ==
  /\ ~IsPrefix(a, b) /\ ~IsPrefix(b, a)
  /\ Found(n, d, a)

\* cp that reports success has copied every file, contents and all, to where it
\* belongs below the destination, unless reading that file or flushing its copy
\* failed, which copy_file does not notice (CopyIsTold); a failed write it does. The
\* source is as it was (copy_file, copy_recursive). Not claimed: of a directory
\* without -r, which cp opens, cannot read, and reports as copied; of a source
\* changed by another shell meanwhile.
CopyIsWhole ==
  \A p \in Shells : Ended(p) /\ alone[p] /\ Is(p, "cp", {}) =>
    \A arg \in Operands(p) :
      LET n == before[p] d == cwd[p] from == Lookup(n, d, arg[1])
          files == {t \in Files(n, from) : arg[2] \o t[1] \notin run[p].cut}
      IN
      Apart(n, d, arg[1], arg[2]) =>
        /\ Tree(node, from) = Tree(n, from)
        /\ run[p].ret = 0 /\ (IsDir(n, from) => Has(run[p].cmd, "r")) =>
             \/ files = {}
             \/ /\ Found(node, d, arg[2])
                /\ files \subseteq Files(node, Lookup(node, d, arg[2]))

At(n, d, path) == IF Found(n, d, path) THEN {Lookup(n, d, path)} ELSE {}

\* rm that reports success has left none of its operands, and without -f all of
\* them were there; and an rm of one operand that reports failure has a reason: the
\* operand was not there, or it still is.
RmTellsTheTruth ==
  \A p \in Shells : Ended(p) /\ alone[p] /\ Is(p, "rm", {}) =>
    LET was(a) == Found(before[p], cwd[p], a[1])
        is(a) == Found(node, cwd[p], a[1])
    IN IF run[p].ret = 0
       THEN \A a \in Operands(p) : ~is(a) /\ (was(a) \/ Has(run[p].cmd, "f"))
       ELSE Len(run[p].cmd.args) = 1 => \A a \in Operands(p) : is(a) \/ ~was(a)

\* Shells that remove the same tree with rm -rf at once may trip over each other
\* (opendir or rmdir of what the other has removed is an error in spite of -f), but
\* never both in a way that leaves the tree: when all have ended it is gone. Not
\* claimed: of shells with more operands. One of two that run rm -rf a a/b may trip
\* over the other, go on to a/b and remove it under the other, so that a is left.
RemovedBetweenThem ==
  (AllOver /\ \A p \in Shells : Is(p, "rm", {"r", "f"}) /\ Len(run[p].cmd.args) = 1)
    => \A p \in Shells : \A a \in Operands(p) :
         (\A q \in Shells : a \in Operands(q)) => ~Found(node, cwd[p], a[1])

\* While shells only make things, mkdir -p at once with mkdir and touch, each mkdir -p
\* reports success exactly if all it was asked for is there, whatever the others put
\* in its way; and what is there is a directory, unless it was a file when the command
\* began or a touch was asked for that very path: mkdir_p takes EEXIST for success
\* without a look at what exists (MkdirMakesDirectories).
OnlyMakes(p) ==
  run[p].cmd.name \in {"mkdir", "touch"} \/ (run[p].cmd = Idle /\ script[p] = <<>>)
MkdirsAgree ==
  (\A p \in Shells : OnlyMakes(p)) =>
    \A p \in Shells : Ended(p) /\ Is(p, "mkdir", {"p"}) =>
      /\ run[p].ret = 0 <=> \A a \in Operands(p) : Found(node, cwd[p], a[1])
      /\ \A a \in Operands(p) :
           LET i == Lookup(node, cwd[p], a[1]) IN
           run[p].ret = 0 /\ ~IsDir(node, i) =>
             \/ i = Lookup(before[p], cwd[p], a[1]) /\ ~IsDir(before[p], i)
             \/ \E q \in Shells : run[q].cmd.name = "touch" /\ a \in Operands(q)

\* Every command ends: also cp -r of a directory into itself, which stops only
\* because the disk is full, and rmdir -p at a directory that is not empty.
EveryCommandEnds == <>AllOver

\* cmd_cp.c says that copying a directory without -r is an error.
DirectoryNeedsR ==
  \A p \in Shells : Ended(p) /\ alone[p] /\ Is(p, "cp", {}) /\ ~Has(run[p].cmd, "r") =>
    \A arg \in Operands(p) :
      At(before[p], cwd[p], arg[1]) \cap {i \in Inodes : IsDir(before[p], i)} # {}
        => run[p].ret # 0

\* Stricter than the code: cp that reports success has cut no file short.
CopyIsTold ==
  \A p \in Shells : Ended(p) /\ Is(p, "cp", {}) => run[p].ret # 0 \/ run[p].cut = {}

\* The help text of mkdir says that -p suppresses errors if a directory exists already.
MkdirMakesDirectories ==
  \A p \in Shells : Ended(p) /\ alone[p] /\ Is(p, "mkdir", {"p"}) /\ run[p].ret = 0 =>
    \A a \in Operands(p) : IsDir(node, Lookup(node, cwd[p], a[1]))
=============================================================================
