------------------------------ MODULE PkgStore ------------------------------
(***************************************************************************)
(* The installed packages of pkg.c: ~/.CoreShell/pkgs holds one tree per   *)
(* package and version, ~/.CoreShell/bin one link per executable, and      *)
(* pkgdb.txt one line per installation.                                    *)
(*                                                                         *)
(* Every pkg command is a process of its own, without a lock. One action   *)
(* stands for one call that the file system carries out atomically: a      *)
(* process may be interrupted, or die, between any two.                    *)
(***************************************************************************)
EXTENDS Naturals, Sequences, FiniteSets, Functions

CONSTANTS
  Procs,     \* the pkg processes that run at the same time
  Names,     \* package names
  Versions,  \* their versions: dotted numbers, as sequences
  Bins,      \* the base names of executables
  Files,     \* for each package, the files[] of its pkg.json
  Archives,  \* the packages the user has archives of
  Modules,   \* the packages of the registry, in the order it reads them
  Inodes,    \* the files that pkgdb.txt and pkgdb.txt.tmp may denote
  NoInode,   \* no such file
  NoPkg,     \* no package: an absent link, an idle process
  Commands,  \* the commands the user runs: install, remove, upgrade
  Faults,    \* what may go wrong: crash, tar (extraction fails), disk
  MaxLines   \* bound, for each name: its lines in pkgdb.txt

Pkgs == [name : Names, version : Versions]

ASSUME PkgStoreAssumption ==
  /\ Versions \subseteq Seq(Nat) \ {<<>>}
  /\ Files \in [Pkgs -> Seq(Bins)]
  /\ Archives \subseteq Pkgs
  /\ Modules \in Seq(Pkgs)
  /\ NoInode \notin Inodes
  /\ NoPkg \notin Pkgs
  /\ Commands \subseteq {"install", "remove", "upgrade"}
  /\ Faults \subseteq {"crash", "tar", "disk"}
  /\ MaxLines \in [Names -> Nat]

VARIABLES
  content,  \* the lines in each file
  db,       \* the file that pkgdb.txt denotes
  tmp,      \* the file that pkgdb.txt.tmp denotes
  tree,     \* the directory of each package
  link,     \* the package each link in bin points into
  proc,     \* the pkg processes
  torn,     \* history: the trees whose last extraction is not complete
  cut       \* history: the names whose removal was cut short

diskVars == <<content, db, tmp>>
histVars == <<torn, cut>>
vars == <<diskVars, tree, link, proc, histVars>>

-----------------------------------------------------------------------------
(* The locals of a command. An upgrade runs an install, then rewrites the  *)
(* record ("upgrade" turns into "record" once the old lines are dropped).  *)

Locals == [pc : {"idle", "mkdir", "extract", "cleanup", "unlink", "symlink",
                 "meta", "unlinkAll", "rmTree", "rmDir", "addOpen",
                 "addWrite", "dropOpen", "dropTmp", "dropCopy", "dropFlush",
                 "dropRename"},
           op : {"none", "install", "upgrade", "record", "remove"},
           pkg : Pkgs \cup {NoPkg},
           todo : Seq(Bins), fin : Inodes \cup {NoInode},
           fout : Inodes \cup {NoInode}, buf : Seq(Pkgs)]

Command(op, pkg, label) ==
  [pc |-> label, op |-> op, pkg |-> pkg, todo |-> <<>>, fin |-> NoInode,
   fout |-> NoInode, buf |-> <<>>]

Idle == Command("none", NoPkg, "idle")

At(p, label) == proc[p].pc = label
Goto(p, label) == proc' = [proc EXCEPT ![p].pc = label]
Done(p) == proc' = [proc EXCEPT ![p] = Idle]

Lines == IF db = NoInode THEN <<>> ELSE content[db]
Recorded == Range(Lines)

Init ==
  /\ content = [i \in Inodes |-> <<>>]
  /\ db = NoInode
  /\ tmp = NoInode
  /\ tree = [t \in Pkgs |-> "none"]
  /\ link = [b \in Bins |-> NoPkg]
  /\ proc = [p \in Procs |-> Idle]
  /\ torn = {}
  /\ cut = {}

OpenFiles == {db, tmp} \cup UNION {{proc[p].fin, proc[p].fout} : p \in Procs}
FreeInodes == Inodes \ OpenFiles

Mentions(n) == {k \in DOMAIN Lines : Lines[k].name = n}

\* pkgdb_find: the first line of a name counts.
FoundVersion(n) ==
  Lines[CHOOSE k \in Mentions(n) : \A j \in Mentions(n) : k <= j].version

\* What it finds, or none.
Installed(n) == IF Mentions(n) = {} THEN <<>> ELSE FoundVersion(n)

-----------------------------------------------------------------------------
(* Which version is newer, and what the registry offers.                   *)

\* version_next_part: a part that is missing counts as zero.
Part(v, i) == IF i \in DOMAIN v THEN v[i] ELSE 0

\* compare_versions(v, w) < 0: the first part that differs decides.
Older(v, w) ==
  \E i \in DOMAIN v \cup DOMAIN w :
    Part(v, i) < Part(w, i) /\ \A j \in 1..(i - 1) : Part(v, j) = Part(w, j)

\* loadPackagesFromModules: the loop over the directory.  latestByName has, for
\* each name, the place of the module that is kept, or 0; a module takes that
\* place if it is newer, and so the first of several with one version stays.
LoadModule(seen, k) ==
  LET current == seen[Modules[k].name] IN
  IF current = 0 \/ Older(Modules[current].version, Modules[k].version)
  THEN [seen EXCEPT ![Modules[k].name] = k]
  ELSE seen
latestByName[k \in 0..Len(Modules)] ==
  IF k = 0 THEN [n \in Names |-> 0] ELSE LoadModule(latestByName[k - 1], k)
Latest(n) == latestByName[Len(Modules)][n]

\* registry_fetch_package: the version in the answer, or none (404).
Fetched(n) == IF Latest(n) = 0 THEN {} ELSE {Modules[Latest(n)].version}

-----------------------------------------------------------------------------
(* Starting a command. One that fails before it changes anything (a bad    *)
(* archive, an unknown name, a registry that does not answer) does nothing *)
(* and is no step.                                                         *)

Adding(n) == {p \in Procs : /\ proc[p].op \in {"install", "upgrade", "record"}
                            /\ proc[p].pkg.name = n}

RoomInDb(n) == Cardinality(Mentions(n)) + Cardinality(Adding(n)) < MaxLines[n]

Install(p, t) ==
  /\ "install" \in Commands
  /\ t \in Archives
  /\ At(p, "idle")
  /\ RoomInDb(t.name)
  /\ proc' = [proc EXCEPT ![p] = Command("install", t, "mkdir")]
  /\ UNCHANGED <<diskVars, tree, link, histVars>>

\* resolve_update_state, the download, and cmd_install on the archive.
Upgrade(p, n) ==
  /\ "upgrade" \in Commands
  /\ At(p, "idle")
  /\ RoomInDb(n)
  /\ Mentions(n) # {}
  /\ \E v \in Fetched(n) :
       /\ Older(FoundVersion(n), v)
       /\ proc' = [proc EXCEPT ![p] =
            Command("upgrade", [name |-> n, version |-> v], "mkdir")]
  /\ UNCHANGED <<diskVars, tree, link, histVars>>

Remove(p, n) ==
  /\ "remove" \in Commands
  /\ At(p, "idle")
  /\ Mentions(n) # {}
  /\ proc' = [proc EXCEPT ![p] =
       Command("remove", [name |-> n, version |-> FoundVersion(n)], "meta")]
  /\ UNCHANGED <<diskVars, tree, link, histVars>>

-----------------------------------------------------------------------------
(* cmd_install.                                                            *)

\* mkdirs(instdir), and tar starts to write over what is there.
MakeTree(p) ==
  /\ At(p, "mkdir")
  /\ \/ /\ tree' = [tree EXCEPT ![proc[p].pkg] = "partial"]
        /\ torn' = torn \cup {proc[p].pkg}
        /\ Goto(p, "extract")
     \/ /\ "disk" \in Faults
        /\ Done(p)
        /\ UNCHANGED <<tree, torn>>
  /\ UNCHANGED <<diskVars, link, cut>>

\* What is left to do once the links in todo have been made.
AfterLinks(todo) == IF todo = <<>> THEN "addOpen" ELSE "unlink"

\* tar ends.
Extract(p) ==
  /\ At(p, "extract")
  /\ LET t == proc[p].pkg IN
     \/ /\ tree' = [tree EXCEPT ![t] = "full"]
        /\ torn' = torn \ {t}
        /\ proc' = [proc EXCEPT ![p].todo = Files[t],
                                ![p].pc = AfterLinks(Files[t])]
     \/ /\ "tar" \in Faults
        /\ Goto(p, "cleanup")
        /\ UNCHANGED <<tree, torn>>
  /\ UNCHANGED <<diskVars, link, cut>>

\* rm_rf(instdir) after a failed extraction.
Cleanup(p) ==
  /\ At(p, "cleanup")
  /\ tree' = [tree EXCEPT ![proc[p].pkg] = "none"]
  /\ Done(p)
  /\ UNCHANGED <<diskVars, link, histVars>>

\* Unlink and Symlink are one turn of the loop over files[].
Unlink(p) ==
  /\ At(p, "unlink")
  /\ link' = [link EXCEPT ![Head(proc[p].todo)] = NoPkg]
  /\ Goto(p, "symlink")
  /\ UNCHANGED <<diskVars, tree, histVars>>

\* symlink(2) fails on a name that exists; the loop goes on.
Symlink(p) ==
  /\ At(p, "symlink")
  /\ LET b    == Head(proc[p].todo)
         rest == Tail(proc[p].todo)
     IN /\ \/ link' = [link EXCEPT ![b] = IF @ = NoPkg THEN proc[p].pkg ELSE @]
           \/ "disk" \in Faults /\ UNCHANGED link
        /\ proc' = [proc EXCEPT ![p].todo = rest, ![p].pc = AfterLinks(rest)]
  /\ UNCHANGED <<diskVars, tree, histVars>>

-----------------------------------------------------------------------------
(* pkgdb_add: fopen(db, "a"), then one write at the end of that file.      *)

AfterAdd(p) ==
  IF proc[p].op = "upgrade"
    THEN [proc[p] EXCEPT !.pc = "dropOpen", !.fout = NoInode]
    ELSE Idle

AddOpen(p) ==
  /\ At(p, "addOpen")
  /\ \/ /\ db # NoInode
        /\ proc' = [proc EXCEPT ![p].fout = db, ![p].pc = "addWrite"]
        /\ UNCHANGED diskVars
     \/ /\ db = NoInode
        /\ \E i \in FreeInodes :
             /\ content' = [content EXCEPT ![i] = <<>>]
             /\ db' = i
             /\ proc' = [proc EXCEPT ![p].fout = i, ![p].pc = "addWrite"]
        /\ UNCHANGED tmp
     \/ /\ "disk" \in Faults
        /\ proc' = [proc EXCEPT ![p] = AfterAdd(p)]
        /\ UNCHANGED diskVars
  /\ UNCHANGED <<tree, link, histVars>>

\* Mutant: fopen(db, "w").
Overwritten(lines, t) == <<t>>

Appended(lines, t) == Append(lines, t)

AddWrite(p) ==
  /\ At(p, "addWrite")
  /\ \/ content' = [content EXCEPT ![proc[p].fout] =
                      Appended(@, proc[p].pkg)]
     \/ "disk" \in Faults /\ UNCHANGED content
  /\ proc' = [proc EXCEPT ![p] = AfterAdd(p)]
  /\ UNCHANGED <<db, tmp, tree, link, histVars>>

-----------------------------------------------------------------------------
(* pkgdb_remove: copy the other names' lines to pkgdb.txt.tmp and rename   *)
(* it. The reads of a short file come at once when the buffer fills, and   *)
(* its writes at once, from offset 0, when it is closed.                   *)

AfterDrop(p) ==
  IF proc[p].op = "upgrade" THEN Command("record", proc[p].pkg, "addOpen")
                            ELSE Idle

\* The end of a removal: nothing is cut short any more.
EndDrop(p) ==
  /\ proc' = [proc EXCEPT ![p] = AfterDrop(p)]
  /\ cut' = IF proc[p].op = "remove" THEN cut \ {proc[p].pkg.name} ELSE cut

DropOpen(p) ==
  /\ At(p, "dropOpen")
  /\ \/ /\ db # NoInode
        /\ proc' = [proc EXCEPT ![p].fin = db, ![p].pc = "dropTmp"]
        /\ UNCHANGED cut
     \/ /\ db = NoInode \/ "disk" \in Faults
        /\ EndDrop(p)
  /\ UNCHANGED <<diskVars, tree, link, torn>>

\* fopen(tmp, "w") truncates the file that is there, whoever writes it.
DropTmp(p) ==
  /\ At(p, "dropTmp")
  /\ \/ /\ \E i \in IF tmp = NoInode THEN FreeInodes ELSE {tmp} :
             /\ content' = [content EXCEPT ![i] = <<>>]
             /\ tmp' = i
             /\ proc' = [proc EXCEPT ![p].fout = i, ![p].pc = "dropCopy"]
        /\ UNCHANGED cut
     \/ /\ "disk" \in Faults
        /\ EndDrop(p)
        /\ UNCHANGED <<content, tmp>>
  /\ UNCHANGED <<db, tree, link, torn>>

\* Mutant: the test is on the whole line, not on the name.
KeepOtherVersions(lines, t) == SelectSeq(lines, LAMBDA r : r # t)

\* Mutant: the lines of the name are kept, the others are dropped.
KeepSame(lines, t) == SelectSeq(lines, LAMBDA r : r.name = t.name)

\* The lines of the other names, in their order (a SelectSeq without its
\* recursion, which no prover could look into).
KeepOthers(lines, t) ==
  LET kept == {k \in DOMAIN lines : lines[k].name # t.name}
      order == CHOOSE f \in [1..Cardinality(kept) -> kept] :
                 \A i, j \in DOMAIN f : i < j => f[i] < f[j]
  IN  [i \in DOMAIN order |-> lines[order[i]]]

DropCopy(p) ==
  /\ At(p, "dropCopy")
  /\ LET lines == content[proc[p].fin] IN
       proc' = [proc EXCEPT ![p].buf = KeepOthers(lines, proc[p].pkg),
                            ![p].pc = "dropFlush"]
  /\ UNCHANGED <<diskVars, tree, link, histVars>>

\* What a file holds once new lines are written over its first ones.
WrittenOver(old, new) == new \o SubSeq(old, Len(new) + 1, Len(old))

\* Neither fputs nor fclose is checked: a short write passes unnoticed.
DropFlush(p) ==
  /\ At(p, "dropFlush")
  /\ \E k \in IF "disk" \in Faults THEN 0..Len(proc[p].buf)
                                   ELSE {Len(proc[p].buf)} :
       content' = [content EXCEPT ![proc[p].fout] =
                     WrittenOver(@, SubSeq(proc[p].buf, 1, k))]
  /\ Goto(p, "dropRename")
  /\ UNCHANGED <<db, tmp, tree, link, histVars>>

\* rename(2) fails when another process has renamed the file already. The
\* file it replaces goes away, unless some process still has it open.
DropRename(p) ==
  /\ At(p, "dropRename")
  /\ \/ /\ tmp # NoInode
        /\ db' = tmp
        /\ tmp' = NoInode
     \/ /\ tmp = NoInode \/ "disk" \in Faults
        /\ UNCHANGED <<db, tmp>>
  /\ EndDrop(p)
  /\ content' = [i \in Inodes |-> IF i \in OpenFiles' THEN content[i] ELSE <<>>]
  /\ UNCHANGED <<tree, link, torn>>

-----------------------------------------------------------------------------
(* cmd_remove.                                                             *)

AfterUnlinks(todo) == IF todo = <<>> THEN "rmTree" ELSE "unlinkAll"

\* Mutant: the links are left alone.
NoFiles(t) == {<<>>}

\* The files[] that parse_pkg_json may find in the tree of t: those it reads
\* in a text that ends early, and none where pkg.json is missing.
FilesRead(t) ==
  CASE tree[t] = "full"    -> {Files[t]}
    [] tree[t] = "partial" -> {SubSeq(Files[t], 1, k) : k \in 0..Len(Files[t])}
    [] tree[t] = "none"    -> {<<>>}

ReadMeta(p) ==
  /\ At(p, "meta")
  /\ \E todo \in FilesRead(proc[p].pkg) :
       proc' = [proc EXCEPT ![p].todo = todo, ![p].pc = AfterUnlinks(todo)]
  /\ UNCHANGED <<diskVars, tree, link, histVars>>

\* unlink(linkpath), whatever the link points to.
UnlinkAll(p) ==
  /\ At(p, "unlinkAll")
  /\ LET rest == Tail(proc[p].todo) IN
       /\ link' = [link EXCEPT ![Head(proc[p].todo)] = NoPkg]
       /\ proc' = [proc EXCEPT ![p].todo = rest, ![p].pc = AfterUnlinks(rest)]
  /\ UNCHANGED <<diskVars, tree, histVars>>

\* rm_rf: the files of the tree, then the directory.
RemoveFiles(p) ==
  /\ At(p, "rmTree")
  /\ tree' = [tree EXCEPT ![proc[p].pkg] =
                IF @ = "none" THEN "none" ELSE "partial"]
  /\ Goto(p, "rmDir")
  /\ UNCHANGED <<diskVars, link, histVars>>

\* rmdir fails when a file could not be removed; the command goes on.
RemoveDir(p) ==
  /\ At(p, "rmDir")
  /\ \/ tree' = [tree EXCEPT ![proc[p].pkg] = "none"]
     \/ "disk" \in Faults /\ UNCHANGED tree
  /\ Goto(p, "dropOpen")
  /\ UNCHANGED <<diskVars, link, histVars>>

-----------------------------------------------------------------------------
(* A process may be killed at any point; its files are closed unwritten.   *)

Crash(p) ==
  /\ "crash" \in Faults
  /\ ~At(p, "idle")
  /\ Done(p)
  /\ cut' = IF proc[p].op = "remove" THEN cut \cup {proc[p].pkg.name} ELSE cut
  /\ UNCHANGED <<diskVars, tree, link, torn>>

InstallStep(p) ==
  \/ MakeTree(p) \/ Extract(p) \/ Cleanup(p) \/ Unlink(p) \/ Symlink(p)
  \/ AddOpen(p) \/ AddWrite(p)

DropStep(p) ==
  DropOpen(p) \/ DropTmp(p) \/ DropCopy(p) \/ DropFlush(p) \/ DropRename(p)

RemoveStep(p) ==
  ReadMeta(p) \/ UnlinkAll(p) \/ RemoveFiles(p) \/ RemoveDir(p)

Start(p) ==
  \/ \E t \in Pkgs : Install(p, t)
  \/ \E n \in Names : Upgrade(p, n) \/ Remove(p, n)

Next == \E p \in Procs : \/ Start(p)
                         \/ InstallStep(p)
                         \/ RemoveStep(p)
                         \/ DropStep(p)
                         \/ Crash(p)

Spec == Init /\ [][Next]_vars

-----------------------------------------------------------------------------
(* Properties.                                                             *)

\* Every variable has its type.
TypeOK ==
  /\ content \in [Inodes -> Seq(Pkgs)]
  /\ db \in Inodes \cup {NoInode}
  /\ tmp \in Inodes \cup {NoInode}
  /\ tree \in [Pkgs -> {"none", "partial", "full"}]
  /\ link \in [Bins -> Pkgs \cup {NoPkg}]
  /\ proc \in [Procs -> Locals]
  /\ torn \subseteq Pkgs
  /\ cut \subseteq Names

\* "Rewrite pkgdb.txt omitting any line for name" (pkgdb_remove): a record
\* leaves the database only when a command on its own name drops it, though
\* the database is rewritten as a whole and the command may die at any point.
OthersKept ==
  [][\A t \in Recorded :
       t \notin Recorded' =>
         \E p \in Procs : At(p, "dropRename") /\ proc[p].pkg.name = t.name]_vars

\* A link in bin leads to a complete tree, unless the extraction of that tree
\* is in progress, was interrupted or failed: cmd_remove takes the links away
\* before the tree, and a crash in between leaves no dangling link.
LinksResolve ==
  \A b \in Bins :
    link[b] # NoPkg => tree[link[b]] = "full" \/ link[b] \in torn

\* A recorded package has its tree, unless that was torn, or a removal of the
\* package is under way or was cut short: a line is written last by install
\* and taken away last by remove.
RecordedHasTree ==
  \A t \in Recorded :
    \/ tree[t] = "full"
    \/ t \in torn
    \/ t.name \in cut
    \/ \E p \in Procs : proc[p].op = "remove" /\ proc[p].pkg.name = t.name

\* The removal that p runs ends in this step, and it is not killed.
Removed(p) ==
  /\ proc[p].op = "remove"
  /\ At(p, "idle")'
  /\ proc[p].pkg.name \notin cut'

\* The upgrade that p runs writes its record in this step.
Upgraded(p) ==
  proc[p].op = "record" /\ At(p, "addWrite") /\ content' # content

\* A removed package is not installed any more: pkgdb_find does not find it.
RemoveForgets ==
  [][\A p \in Procs, n \in Names :
       Removed(p) /\ proc[p].pkg.name = n => Mentions(n)' = {}]_vars

\* An upgrade leaves "one canonical record for this package", the version that
\* was installed, and the links in bin lead to that version.
UpgradeTakesEffect ==
  [][\A p \in Procs, t \in Pkgs :
       Upgraded(p) /\ proc[p].pkg = t =>
         /\ Cardinality(Mentions(t.name)') = 1
         /\ FoundVersion(t.name)' = t.version
         /\ \A b \in Range(Files[t]) : link[b] = t]_vars

\* remove "removes each symlink [...] that points into the package directory":
\* it leaves the links of other packages alone.
RemoveTakesOwnLinks ==
  [][\A p \in Procs, b \in Bins :
       At(p, "unlinkAll") /\ link[b] # NoPkg /\ link'[b] = NoPkg =>
         link[b] = proc[p].pkg]_vars

-----------------------------------------------------------------------------
(* What it amounts to: a map from names to versions.                       *)

NewerPairs == {vw \in Versions \X Versions : Older(vw[1], vw[2])}
Found == [n \in Names |-> Installed(n)]
Tasks == [p \in Procs |-> [op |-> proc[p].op, pkg |-> proc[p].pkg]]
Map == INSTANCE PackageMap
         WITH Newer <- NewerPairs, NotThere <- <<>>, version <- Found, doing <- Tasks

\* Commands that run one at a time, and may be killed at any point, change what
\* pkgdb_find finds only for their own name and at one point each: an install
\* does not replace a version that is there, an upgrade is to a newer one and
\* drops the old record first, a removal leaves nothing to be found.
ImplementsMap == Map!Spec

=============================================================================
