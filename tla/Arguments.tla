----------------------------- MODULE Arguments ------------------------------
(***************************************************************************)
(* What a builtin makes of its argv: the option tables of the cmd_*        *)
(* directories, arg_parse of argtable3 and the getopt_long it brings       *)
(* along, which moves the operands behind the options while it scans.      *)
(* A word is a sequence of characters, where a long name or a number       *)
(* counts as one: -rf is <<"-", "r", "f">>, --lines=3 is                   *)
(* <<"-", "-", "lines", "=", "3">>.                                        *)
(***************************************************************************)
EXTENDS Naturals, Sequences, FiniteSets, FiniteSetsExt, SequencesExt

CONSTANTS
  Inputs,          \* the commands with an argv to parse
  Chars,           \* what words are made of
  Abbreviations,   \* which long names begin with which others
  Numbers,         \* the words that are numbers
  KillTargets,     \* the words that match the expression of kill's operands
  Many,            \* the operands a command takes at most, 64 in the code
  ArgEnd           \* the errors that are remembered, 20 in the code

Commands == {"cat", "cd", "cp", "echo", "exit", "head", "help", "jobs", "kill", "ls", "mkdir",
             "mv", "pwd", "rm", "rmdir", "rpc", "stat", "tail", "touch"}

ASSUME ArgumentsAssumption == Many \in Nat \ {0} /\ ArgEnd \in Nat \ {0}
ASSUME InputsAreArgvs == Inputs \subseteq [cmd : Commands, argv : Seq(Seq(Chars))]

VARIABLES
  input,        \* history: the command and its argv
  pc,           \* the part of arg_parse: "tagged", "untagged", "check", "done"
  argv,         \* the copy of argv that is rearranged
  optind,       \* getopt: the next word
  place,        \* getopt: what is left of the word it scans
  nonoptStart,  \* getopt: the first operand it has passed over, 0 for none
  nonoptEnd,    \* getopt: the end of those operands, 0 while there is none
  tab,          \* the table entry the operands are matched with
  vals,         \* for each table entry the values it has been given
  errors        \* the errors of the arg_end entry

vars == <<input, pc, argv, optind, place, nonoptStart, nonoptEnd, tab, vals, errors>>

-----------------------------------------------------------------------------
(* The tables.                                                             *)

Entry(s, l, kind, min, max) == [s |-> s, l |-> l, kind |-> kind, min |-> min, max |-> max]
Lit(s, l) == Entry(s, l, "lit", 0, 1)
Num(s, l) == Entry(s, l, "int", 0, 1)
Txt(s, l) == Entry(s, l, "str", 0, 1)
Words(kind, min, max) == Entry("", "", kind, min, max)

Help == <<Lit("h", "help"), Lit("", "help-json")>>
HelpJson == Help \o <<Lit("", "json")>>

CatTable   == HelpJson \o <<Lit("n", "number"), Words("file", 0, Many)>>
CdTable    == HelpJson \o <<Words("file", 0, 1)>>
CpTable    == HelpJson \o <<Lit("r", "recursive"), Lit("v", "verbose"), Words("file", 2, 2)>>
EchoTable  == HelpJson \o <<Lit("n", "no-newline"), Lit("e", "escape"), Words("str", 0, Many)>>
ExitTable  == Help
HeadTable  == HelpJson \o <<Num("n", "lines"), Words("file", 1, 1)>>
HelpTable  == <<Words("str", 0, 1)>> \o HelpJson
JobsTable  == Help
KillTable  == Help \o <<Txt("s", "signal"), Words("rex", 1, Many)>>
LsTable    == HelpJson \o <<Lit("a", "all"), Lit("l", "long"), Words("file", 0, 1)>>
MkDirTable == HelpJson \o <<Lit("p", "parents"), Lit("v", "verbose"), Words("file", 1, Many)>>
MvTable    == HelpJson \o <<Lit("v", "verbose"), Words("file", 2, 2)>>
PwdTable   == HelpJson \o <<Lit("L", "logical"), Lit("P", "physical")>>
RmTable    == HelpJson \o <<Lit("r", "recursive"), Lit("f", "force"), Lit("v", "verbose"),
                            Words("file", 1, Many)>>
RmDirTable == HelpJson \o <<Lit("p", "parents"), Words("file", 1, Many)>>
RpcTable   == HelpJson \o <<Txt("H", "host"), Num("p", "port"), Num("t", "timeout"),
                            Num("r", "retries"), Words("str", 1, 1)>>
StatTable  == HelpJson \o <<Words("file", 1, Many)>>
TailTable  == HelpJson \o <<Num("n", "lines"), Words("file", 1, 1)>>
TouchTable == HelpJson \o <<Lit("c", "no-create"), Words("file", 1, Many)>>

Table(c) ==
  CASE c = "cat" -> CatTable [] c = "cd" -> CdTable [] c = "cp" -> CpTable
    [] c = "echo" -> EchoTable [] c = "exit" -> ExitTable [] c = "head" -> HeadTable
    [] c = "help" -> HelpTable [] c = "jobs" -> JobsTable [] c = "kill" -> KillTable
    [] c = "ls" -> LsTable [] c = "mkdir" -> MkDirTable [] c = "mv" -> MvTable
    [] c = "pwd" -> PwdTable [] c = "rm" -> RmTable [] c = "rmdir" -> RmDirTable
    [] c = "rpc" -> RpcTable [] c = "stat" -> StatTable [] c = "tail" -> TailTable
    [] c = "touch" -> TouchTable

T == Table(input.cmd)
Takes(k) == T[k].kind # "lit"
Tagged(t) == {k \in 1..Len(t) : t[k].l # ""}

\* The short option string and the long option array made from the table.
ShortEntry(t, c) == {k \in Tagged(t) : c # "" /\ t[k].s = c}
Begins(name, long) == name = long \/ <<name, long>> \in Abbreviations
LongEntries(t, name) == {k \in Tagged(t) : Begins(name, t[k].l)}
ExactEntry(t, name) == {k \in Tagged(t) : t[k].l = name}

Init ==
  /\ input \in Inputs
  /\ pc = "tagged" /\ argv = input.argv /\ optind = 1 /\ place = <<>>
  /\ nonoptStart = 0 /\ nonoptEnd = 0 /\ tab = 1
  /\ vals = [k \in 1..Len(T) |-> <<>>] /\ errors = <<>>

-----------------------------------------------------------------------------
(* Values and errors.                                                      *)

Register(errs, e) ==
  IF Len(errs) < ArgEnd THEN Append(errs, e) ELSE [errs EXCEPT ![ArgEnd] = "ELIMIT"]

\* The scanfn of the entry: what is wrong with the value, if something is.
ScanError(k, val) ==
  IF Len(vals[k]) = T[k].max THEN {"EMAXCOUNT"}
  ELSE IF T[k].kind = "int" /\ val \notin Numbers THEN {"EBADINT"}
  ELSE IF T[k].kind = "rex" /\ val \notin KillTargets THEN {"EREGNOMATCH"} ELSE {}

\* The value is stored, or an error registered after the given ones.
Scan(k, val, errs) ==
  IF ScanError(k, val) = {}
  THEN vals' = [vals EXCEPT ![k] = Append(@, val)] /\ errors' = errs
  ELSE errors' = Register(errs, CHOOSE e \in ScanError(k, val) : TRUE) /\ UNCHANGED vals

Wrong(e) == errors' = Register(errors, e) /\ UNCHANGED vals

-----------------------------------------------------------------------------
(* getopt_long.                                                            *)

One(x, y) == 1
Gcd(x, y) == Max({d \in 1..x : x % d = 0 /\ y % d = 0})

Swap(a, i, j) == [a EXCEPT ![i] = a[j], ![j] = a[i]]

\* permute_args: the words first..mid-1 change places with mid..last-1, in cycles.
\* A turn of the inner loop, one cycle, and all of them.
Onward(first, mid, last, pos) == IF pos >= mid THEN pos - (mid - first) ELSE pos + (last - mid)
Move(first, mid, last, start, st) ==
  LET to == Onward(first, mid, last, st.pos) IN [pos |-> to, a |-> Swap(st.a, to, start)]

Cycle(first, mid, last, start, a) ==
  LET length == (last - first) \div Gcd(mid - first, last - mid)
      at[j \in 0..length] == IF j = 0 THEN [pos |-> start, a |-> a]
                             ELSE Move(first, mid, last, start, at[j - 1])
  IN at[length].a

PermuteArgs(first, mid, last, a) ==
  LET cycles == Gcd(mid - first, last - mid)
      after[i \in 0..cycles] == IF i = 0 THEN a
                                ELSE Cycle(first, mid, last, mid + i - 1, after[i - 1])
  IN after[cycles]

IsOption(w) == Len(w) > 1 /\ w[1] = "-"
Scanning == pc = "tagged" /\ place = <<>>
More == optind <= Len(argv)

\* A dash makes a word an option, alone it does not. After "--" only operands
\* follow. The operands passed over are moved behind the options before the scan
\* ends, or when further operands follow.
EndScan(from) ==
  /\ pc' = "untagged" /\ tab' = 1
  /\ argv' = IF nonoptEnd # 0 THEN PermuteArgs(nonoptStart, nonoptEnd, from, argv) ELSE argv
  /\ optind' = IF nonoptEnd # 0 THEN from - (nonoptEnd - nonoptStart)
               ELSE IF nonoptStart # 0 THEN nonoptStart ELSE from
  /\ nonoptStart' = 0 /\ nonoptEnd' = 0 /\ place' = <<>>

NoMoreWords ==
  /\ Scanning /\ ~More
  /\ EndScan(optind)
  /\ UNCHANGED <<input, vals, errors>>

PassOperand ==
  /\ Scanning /\ More /\ ~IsOption(argv[optind])
  /\ IF nonoptStart = 0 THEN nonoptStart' = optind /\ UNCHANGED <<nonoptEnd, argv>>
     ELSE IF nonoptEnd # 0
     THEN /\ argv' = PermuteArgs(nonoptStart, nonoptEnd, optind, argv)
          /\ nonoptStart' = optind - (nonoptEnd - nonoptStart)
          /\ nonoptEnd' = 0
     ELSE UNCHANGED <<nonoptStart, nonoptEnd, argv>>
  /\ optind' = optind + 1
  /\ UNCHANGED <<input, pc, place, tab, vals, errors>>

\* An option ends the run of operands before it.
RunEnds == IF nonoptStart # 0 /\ nonoptEnd = 0 THEN optind ELSE nonoptEnd

DashDash ==
  /\ Scanning /\ More /\ argv[optind] = <<"-", "-">>
  /\ LET end == RunEnds IN
       /\ pc' = "untagged" /\ tab' = 1
       /\ argv' = IF end # 0 THEN PermuteArgs(nonoptStart, end, optind + 1, argv) ELSE argv
       /\ optind' = IF end # 0 THEN optind + 1 - (end - nonoptStart) ELSE optind + 1
       /\ nonoptStart' = 0 /\ nonoptEnd' = 0 /\ place' = <<>>
  /\ UNCHANGED <<input, vals, errors>>

StartOption ==
  /\ Scanning /\ More /\ IsOption(argv[optind]) /\ argv[optind] # <<"-", "-">>
  /\ nonoptEnd' = RunEnds
  /\ place' = Tail(argv[optind])
  /\ UNCHANGED <<input, pc, argv, optind, nonoptStart, tab, vals, errors>>

\* A short option. The last of its word moves on to the next word.
StaysAtWord(rest) == optind
AfterLetter(rest) == IF rest = <<>> THEN optind + 1 ELSE optind

ShortOption ==
  /\ pc = "tagged" /\ place # <<>> /\ Head(place) # "-"
  /\ LET rest == Tail(place)
         found == ShortEntry(T, Head(place))
         k == CHOOSE i \in found : TRUE
     IN IF found = {} THEN Wrong("EUNKNOWN") /\ place' = rest /\ optind' = AfterLetter(rest)
        ELSE IF ~Takes(k) THEN Scan(k, <<>>, errors) /\ place' = rest /\ optind' = AfterLetter(rest)
        ELSE /\ place' = <<>>
             /\ IF rest # <<>> THEN Scan(k, rest, errors) /\ optind' = optind + 1
                ELSE IF optind + 1 > Len(argv) THEN Wrong("EMISSARG") /\ optind' = optind + 1
                ELSE Scan(k, argv[optind + 1], errors) /\ optind' = optind + 2
  /\ UNCHANGED <<input, pc, argv, nonoptStart, nonoptEnd, tab>>

\* A dash where a letter should be: what follows is a long option, by its name or
\* the beginning of it. Nothing follows a dash at the end of a word: that is an
\* error, after which the same word is scanned again.
LongOption ==
  /\ pc = "tagged" /\ place # <<>> /\ Head(place) = "-"
  /\ place' = <<>>
  /\ LET name == place[2]
         found == IF ExactEntry(T, name) # {} THEN ExactEntry(T, name) ELSE LongEntries(T, name)
         k == CHOOSE i \in found : TRUE
         equals == Len(place) > 2 /\ place[3] = "="
         given == SubSeq(place, 4, Len(place))
     IN IF Len(place) = 1 THEN Wrong("EMISSARG") /\ UNCHANGED optind
        ELSE IF Cardinality(found) # 1 THEN Wrong("ELONGOPT") /\ optind' = optind + 1
        ELSE IF ~Takes(k)
        THEN /\ optind' = optind + 1
             /\ IF equals THEN Wrong("ELONGOPT") ELSE Scan(k, <<>>, errors)
        ELSE IF equals
        THEN /\ optind' = optind + 1
             /\ Scan(k, given, IF given = <<>> THEN Register(errors, "EMISSARG") ELSE errors)
        ELSE IF optind + 1 > Len(argv) THEN Wrong("EMISSARG") /\ optind' = optind + 1
        ELSE Scan(k, argv[optind + 1], errors) /\ optind' = optind + 2
  /\ UNCHANGED <<input, pc, argv, nonoptStart, nonoptEnd, tab>>

-----------------------------------------------------------------------------
(* The operands, and the counts.                                           *)

\* arg_parse_untagged: a word the entry does not take is tried on the next entry;
\* it is an error when there is none, and so is every word after it.
MatchOperand ==
  /\ pc = "untagged"
  /\ IF ~More THEN pc' = "check" /\ UNCHANGED <<optind, tab, vals, errors>>
     ELSE IF tab > Len(T)
     THEN Wrong("ENOMATCH") /\ optind' = optind + 1 /\ UNCHANGED <<pc, tab>>
     ELSE IF T[tab].l # "" THEN tab' = tab + 1 /\ UNCHANGED <<pc, optind, vals, errors>>
     ELSE IF ScanError(tab, argv[optind]) = {}
     THEN Scan(tab, argv[optind], errors) /\ optind' = optind + 1 /\ UNCHANGED <<pc, tab>>
     ELSE /\ tab' = tab + 1
          /\ IF tab < Len(T) /\ \E k \in (tab + 1)..Len(T) : T[k].l = ""
             THEN UNCHANGED <<optind, vals, errors>>
             ELSE Scan(tab, argv[optind], errors) /\ optind' = optind + 1
          /\ UNCHANGED pc
  /\ UNCHANGED <<input, argv, place, nonoptStart, nonoptEnd>>

TooFew == {k \in 1..Len(T) : Len(vals[k]) < T[k].min}

\* arg_parse_check, which an earlier error makes superfluous.
Check ==
  /\ pc = "check"
  /\ errors' = IF errors = <<>> THEN [i \in 1..Cardinality(TooFew) |-> "EMINCOUNT"] ELSE errors
  /\ pc' = "done"
  /\ UNCHANGED <<input, argv, optind, place, nonoptStart, nonoptEnd, tab, vals>>

Next == \/ NoMoreWords \/ PassOperand \/ DashDash \/ StartOption
        \/ ShortOption \/ LongOption \/ MatchOperand \/ Check

Spec == Init /\ [][Next]_vars

\* One thread computes; nothing is waited for.
FairSpec == Spec /\ WF_vars(Next)

\* What the command then does: every one of them asks in this order.
Given(l) == \E k \in Tagged(T) : T[k].l = l /\ vals[k] # <<>>
RunsRegardless == IF errors # <<>> THEN "usage" ELSE "run"
Outcome ==
  IF Given("help") THEN "help"
  ELSE IF Given("help-json") THEN "help-json"
  ELSE IF errors # <<>> THEN "usage" ELSE "run"

-----------------------------------------------------------------------------
(* What an argv means, read once from left to right: options in any place  *)
(* up to "--", the other words operands in their order.                    *)

\* Of what has been read: the values of each option, the operands, the option
\* that waits for its value, whether the word at hand has more to tell, whether
\* only operands follow, and whether something is wrong.
Unread(t) == [vals |-> [k \in 1..Len(t) |-> <<>>], words |-> <<>>, wants |-> 0,
              inside |-> FALSE, only |-> FALSE, bad |-> FALSE]
Gives(m, k, val) == [m EXCEPT !.vals[k] = Append(@, val)]
Awaits(m, k) == [m EXCEPT !.wants = k]
Unclear(m) == [m EXCEPT !.bad = TRUE]
Left(m) == [m EXCEPT !.inside = FALSE]

\* A letter, with the rest of its word.
ReadLetter(t, m, c, rest) ==
  LET found == ShortEntry(t, c)
      k == CHOOSE i \in found : TRUE
  IN IF found = {} THEN Unclear(m)
     ELSE IF t[k].kind = "lit" THEN Gives(m, k, <<>>)
     ELSE IF rest # <<>> THEN Left(Gives(m, k, rest)) ELSE Left(Awaits(m, k))

\* A long name, after its second dash.
ReadName(t, m, name) ==
  LET found == IF ExactEntry(t, name[1]) # {} THEN ExactEntry(t, name[1]) ELSE LongEntries(t, name[1])
      k == CHOOSE i \in found : TRUE
      equals == Len(name) > 1 /\ name[2] = "="
      given == SubSeq(name, 3, Len(name))
  IN IF name = <<>> THEN Unclear(m)
     ELSE IF Cardinality(found) # 1 THEN Unclear(m)
     ELSE IF t[k].kind = "lit" THEN IF equals THEN Unclear(m) ELSE Gives(m, k, <<>>)
     ELSE IF ~equals THEN Awaits(m, k)
     ELSE IF given = <<>> THEN Unclear(m) ELSE Gives(m, k, given)

ReadAt(t, m, w, j) ==
  LET rest == SubSeq(w, j + 1, Len(w)) IN
  IF ~m.inside THEN m
  ELSE IF w[j] = "-" THEN Left(ReadName(t, m, rest)) ELSE ReadLetter(t, m, w[j], rest)

\* A word behind its first j characters.
ReadOption(t, m, w, j) ==
  LET at[i \in 1..j] == IF i = 1 THEN [m EXCEPT !.inside = TRUE] ELSE ReadAt(t, at[i - 1], w, i)
  IN at[j]

ReadWord(t, m, w) ==
  IF m.wants # 0 THEN [Gives(m, m.wants, w) EXCEPT !.wants = 0]
  ELSE IF m.only \/ ~IsOption(w) THEN [m EXCEPT !.words = Append(@, w)]
  ELSE IF w = <<"-", "-">> THEN [m EXCEPT !.only = TRUE]
  ELSE ReadOption(t, m, w, Len(w))

\* The first n words.
Read(t, ws, n) ==
  LET at[i \in 0..n] == IF i = 0 THEN Unread(t) ELSE ReadWord(t, at[i - 1], ws[i])
  IN at[n]
Meant(t, ws) == Read(t, ws, Len(ws))

Values(t, m, k) == IF t[k].l = "" THEN m.words ELSE m.vals[k]

Fits(e, vs) ==
  /\ Len(vs) \in e.min..e.max
  /\ e.kind = "int" => Range(vs) \subseteq Numbers
  /\ e.kind = "rex" => Range(vs) \subseteq KillTargets

Acceptable(t, m) ==
  /\ ~m.bad /\ m.wants = 0
  /\ \A k \in 1..Len(t) : Fits(t[k], Values(t, m, k))
  /\ m.words # <<>> => \E k \in 1..Len(t) : t[k].l = ""

-----------------------------------------------------------------------------
(* Properties.                                                             *)

\* Indices stay inside argv and its end, and no more errors are kept than there
\* is room for.
TypeOK ==
  /\ pc \in {"tagged", "untagged", "check", "done"}
  /\ optind \in 1..(Len(argv) + 1)
  /\ nonoptStart \in 0..Len(argv) /\ nonoptEnd \in 0..Len(argv)
  /\ nonoptEnd # 0 => nonoptStart \in 1..(nonoptEnd - 1)
  /\ Len(errors) <= ArgEnd
  /\ \A k \in 1..Len(T) : Len(vals[k]) <= T[k].max

\* arg_parse reports an error exactly if argv, read word by word, has one; and
\* without an error every option has the values it was given and the operands are
\* those of argv in their order, wherever the options stood (permute_args).
ParsesAsMeant ==
  pc = "done" =>
    LET m == Meant(T, input.argv) IN
    /\ (errors = <<>>) <=> Acceptable(T, m)
    /\ errors = <<>> => \A k \in 1..Len(T) : vals[k] = Values(T, m, k)

\* A command that is asked for help does nothing else, whatever is wrong with the
\* rest of its argv: rm -r --help x removes nothing.
HelpIsHarmless ==
  LET asked == {k \in Tagged(T) : T[k].l \in {"help", "help-json"}} IN
  pc = "done" /\ (\E k \in asked : Meant(T, input.argv).vals[k] # <<>>) => Outcome # "run"

\* No word ends in a dash but "-" and "--".
NoDashAtEnd == \A i \in 1..Len(input.argv) :
  LET w == input.argv[i] IN Len(w) > 2 => Last(w) # "-"

\* arg_parse returns, whatever the argv, except for options with a dash at the end.
ParsingEnds == NoDashAtEnd ~> pc = "done"

\* arg_parse returns the number of errors, as its comment says: it returns.
ReturnsErrorCount == <>(pc = "done")
=============================================================================
