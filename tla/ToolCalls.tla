------------------------------ MODULE ToolCalls ------------------------------
(***************************************************************************)
(* What one request to the tool services means: how the native C server    *)
(* (mcp_server.c) and the Node bridge (server.js) read the same line of    *)
(* JSON, and which answer each of their tools gives for the same           *)
(* workspace.                                                              *)
(*                                                                         *)
(* A line is the sequence of its tokens.  Punctuation, numbers and the     *)
(* three literals are tokens of their own; every other token is a string.  *)
(* The bridge parses the line (JSON.parse).  The native server parses it   *)
(* with jsmn to route it and to read the arguments of the legacy tools,    *)
(* but its native tools look for "key" anywhere in the text of the line.   *)
(*                                                                         *)
(* A workspace is a record                                                 *)
(*   [files : path -> [age : days, data : pieces], dirs : set of paths,    *)
(*    mods : the cmd_* directories with a pkg.json]                        *)
(* a module is [dir, name, version] and an answer [code, out, count].      *)
(***************************************************************************)
EXTENDS Integers, Sequences, FiniteSets, FiniteSetsExt, SequencesExt, Functions

CONSTANTS
    NumberOf,     \* the numbers lines may hold: token -> integer
    Place,        \* strings that spell a path: string -> sequence of names
    Outside,      \* the place of a path that is not below the workspace
    WordsOf,      \* query -> its words in lower case, in order
    Hint,         \* query -> the command its fixed phrases call for, or ""
    CorpusOf,     \* module name -> (word -> where its documents first hold it)
    Rank,         \* command name -> its place in the order of names
    StopWords, BridgeStopWords,
    Disabled,     \* disable_tool
    MaxTokens, MaxScanFiles, MaxDocs, MaxTerms

Answer(code, out) == [code |-> code, out |-> out, count |-> 0]
Refuse(code) == Answer(code, {})

-----------------------------------------------------------------------------
(* Reading a line *)

Punctuation == {"{", "}", "[", "]", ":", ","}
Literals == {"true", "false", "null"}
Primitives == Literals \cup DOMAIN NumberOf

IsString(t, i) == i \in DOMAIN t /\ t[i] \notin Punctuation \cup Primitives
StringAt(t, i) == IF IsString(t, i) THEN t[i] ELSE ""

\* How many objects and arrays are open after the first i tokens.
Open(t, i) == Cardinality({j \in 1..i : t[j] \in {"{", "["}})
              - Cardinality({j \in 1..i : t[j] \in {"}", "]"}})

\* jsmn_parse: a closing token closes the innermost object or array that is
\* still open, which is of its kind, and none is open at the end.
Pairs == {<<"{", "}">>, <<"[", "]">>}
WellNested(t) ==
    /\ Open(t, Len(t)) = 0
    /\ \A j \in DOMAIN t : t[j] \in {"}", "]"} =>
          \E i \in 1..(j - 1) : /\ <<t[i], t[j]>> \in Pairs
                               /\ Open(t, i) = Open(t, j) + 1
                               /\ \A k \in i..(j - 1) : Open(t, k) > Open(t, j)

\* The tokens that the parser needs room for.
Slots(t) == {i \in DOMAIN t : t[i] \notin {"}", "]", ":", ","}}

\* The line begins with an object, and the parser has room for it.
IsObject(t) ==
    t # <<>> /\ t[1] = "{" /\ WellNested(t) /\ Cardinality(Slots(t)) <= MaxTokens

ObjectAt(t, o) == o \in DOMAIN t /\ t[o] = "{"
\* The members with key k of the object that begins at o.
Keys(t, o, k) ==
    {i \in (o + 1)..(Len(t) - 1) :
        /\ ObjectAt(t, o) /\ t[i] = k /\ t[i + 1] = ":"
        /\ Open(t, i) = Open(t, o) /\ \A j \in o..i : Open(t, j) >= Open(t, o)}

\* jsmn_object_get: the value of the first member with that key, or 0.
Get(t, o, k) == IF Keys(t, o, k) = {} THEN 0 ELSE Min(Keys(t, o, k)) + 2
FirstOf(i, j) == IF i # 0 THEN i ELSE j

\* strstr for the quoted key, then the first ':' behind it: the value of
\* whatever comes next, even when the text found was no key.
Raw(t, k) ==
    LET found == {i \in DOMAIN t : t[i] = k}
        colons == {j \in DOMAIN t : found # {} /\ j > Min(found) /\ t[j] = ":"}
    IN  IF colons = {} THEN 0 ELSE Min(colons) + 1

IsNumber(t, i) == i \in DOMAIN t /\ t[i] \in DOMAIN NumberOf
IsBool(t, i) == i \in DOMAIN t /\ t[i] \in {"true", "false"}

-----------------------------------------------------------------------------
(* Routing in the native server *)

Selector(t) == StringAt(t, FirstOf(Get(t, 1, "method"), Get(t, 1, "type")))
IsLegacy(t) == Selector(t) \in {"initialize", "list_tools", "call_tool"}
IsNative(t) == Selector(t) \in {"tools/list", "tools/call"}

Params(t) == Get(t, 1, "params")

\* request_ctx_t.tool
Tool(t) ==
    LET root == StringAt(t, FirstOf(Get(t, 1, "tool"), Get(t, 1, "name"))) IN
    IF root # "" THEN root ELSE StringAt(t, Get(t, Params(t), "tool"))

\* The object the legacy tools take their arguments from.
Arguments(t) ==
    LET root == FirstOf(Get(t, 1, "arguments"), Get(t, 1, "args"))
        inner == FirstOf(Get(t, Params(t), "args"), Get(t, Params(t), "arguments"))
    IN  IF ObjectAt(t, Params(t))
        THEN IF ObjectAt(t, inner) THEN inner ELSE Params(t)
        ELSE IF ObjectAt(t, root) THEN root ELSE 0

\* A native call that names no tool where one is expected takes the first
\* "tool" or "name" of the text.
NativeTool(t) ==
    IF Tool(t) # "" THEN Tool(t)
    ELSE IF StringAt(t, Raw(t, "tool")) # "" THEN StringAt(t, Raw(t, "tool"))
    ELSE StringAt(t, Raw(t, "name"))

-----------------------------------------------------------------------------
(* Paths *)

Where(s) == IF s \in DOMAIN Place THEN Place[s] ELSE <<s>>
Exists(ws, p) == p \in ws.dirs \cup DOMAIN ws.files

\* resolve_workspace_path: realpath of the path, or of its directory.
Resolves(ws, p) ==
    /\ p # Outside
    /\ Exists(ws, p) \/ (p # <<>> /\ Front(p) \in ws.dirs)

Entries(ws, d) == {p \in ws.dirs \cup DOMAIN ws.files : p # <<>> /\ Front(p) = d}
NamesIn(ws, d) == {Last(p) : p \in Entries(ws, d)}

-----------------------------------------------------------------------------
(* Deleting old files: what a request asks for, and what a scan finds *)

Plan(code, root, days, dry) == [code |-> code, root |-> root, days |-> days, dry |-> dry]
NoPlan(code) == Plan(code, <<>>, 0, TRUE)

OnPath(ws, p, days, dry, within) ==
    IF ~within THEN NoPlan("COMMAND_NOT_ALLOWED")
    ELSE IF ~Exists(ws, p) THEN NoPlan("COMMAND_EXECUTION_FAILED")
    ELSE Plan("OK", p, days, dry)

DefaultFlipped(t, i, default) == IF IsBool(t, i) THEN t[i] = "true" ELSE ~default
BoolAt(t, i, default) == IF IsBool(t, i) THEN t[i] = "true" ELSE default

\* build_delete_older_than_days
NativePlan(t, ws) ==
    LET path == StringAt(t, Raw(t, "path"))
        days == Raw(t, "days")
        p == Where(path)
    IN  IF path = "" \/ ~IsNumber(t, days) \/ NumberOf[t[days]] < 0 THEN NoPlan("BAD_ARGUMENTS")
        ELSE OnPath(ws, p, NumberOf[t[days]], BoolAt(t, Raw(t, "dryRun"), TRUE), Resolves(ws, p))

\* build_legacy_delete_older_than_days
LegacyPlan(t, ws) ==
    LET o == Arguments(t)
        path == StringAt(t, Get(t, o, "path"))
        days == Get(t, o, "days")
        dry == FirstOf(Get(t, o, "dryRun"), Get(t, o, "dry_run"))
        p == Where(path)
    IN  IF path = "" \/ ~IsNumber(t, days) \/ NumberOf[t[days]] <= 0 THEN NoPlan("error")
        ELSE LET plan == OnPath(ws, p, NumberOf[t[days]], BoolAt(t, dry, TRUE), Resolves(ws, p))
             IN  IF plan.code = "OK" THEN plan ELSE NoPlan("error")

\* Regular files at or below root older than that many days.
Old(ws, root, days) == {f \in DOMAIN ws.files : IsPrefix(root, f) /\ ws.files[f].age > days}

\* scan_old_files keeps the first MAX_SCAN_FILES it meets, in the order of
\* the directories.
Scans(ws, plan) ==
    LET old == Old(ws, plan.root, plan.days) IN
    kSubset(Min({Cardinality(old), MaxScanFiles}), old)

\* The answer lists what the scan found, and counts what is gone.
Deleted(found, count) == [code |-> "OK", out |-> {Last(f) : f \in found}, count |-> count]

\* What a delete has to go by, whoever reads the line: read with the
\* structure of JSON, an object of it has a member that names this file's
\* place, one that takes back the dry run, and one that gives the days the
\* file is older than.  Of members spelled twice any may count.
TellsToDelete(line, o, file) ==
    /\ \E i \in Keys(line, o, "path") : IsPrefix(Where(StringAt(line, i + 2)), file)
    /\ \E i \in Keys(line, o, "dryRun") \cup Keys(line, o, "dry_run") : line[i + 2] = "false"
Days(line, o) == {i + 2 : i \in Keys(line, o, "days")}
OlderThan(line, i, age) == IsNumber(line, i) /\ age > NumberOf[line[i]]

-----------------------------------------------------------------------------
(* Command documents *)

\* The documents a corpus is built from, at most MaxDocs of them.
Documented(mods) == {m \in mods : m.name # ""}
Corpora(mods) ==
    LET docs == {m.name : m \in Documented(mods)} IN
    kSubset(Min({Cardinality(docs), MaxDocs}), docs)

Terms(query, stop) ==
    IF query \notin DOMAIN WordsOf THEN <<>>
    ELSE SelectSeq(WordsOf[query], LAMBDA w : w \notin stop)
QueryTerms(query) ==
    LET all == Terms(query, StopWords) IN SubSeq(all, 1, Min({Len(all), MaxTerms}))

\* Four points for a term the text holds, and one more when it comes early.
Score(doc, terms, early) ==
    FoldLeft(LAMBDA sum, w :
                sum + IF w \notin DOMAIN CorpusOf[doc] THEN 0
                      ELSE IF CorpusOf[doc][w] < early THEN 5 ELSE 4, 0, terms)

TopHits(corpus, terms, early, k) ==
    LET hits == {d \in corpus : Score(d, terms, early) > 0}
        Better(a, b) == \/ Score(a, terms, early) > Score(b, terms, early)
                        \/ Score(a, terms, early) = Score(b, terms, early) /\ Rank[a] < Rank[b]
        ranked == SetToSortSeq(hits, Better)
    IN  SubSeq(ranked, 1, Min({Len(ranked), k}))

Recommended(query, hits) ==
    IF Hint[query] # "" THEN Hint[query]
    ELSE IF hits # <<>> THEN hits[1]
    ELSE "help"

NativeEarly == 200
BridgeEarly == 220

\* The document tools of the native server, given the corpus it holds.
NativeQuery(t) == StringAt(t, Raw(t, "query"))
AnswersQuery(t) == QueryTerms(NativeQuery(t)) # <<>>
TopK(t) ==
    LET i == Raw(t, "topK") IN
    IF IsNumber(t, i) /\ NumberOf[t[i]] \in 1..8 THEN NumberOf[t[i]] ELSE 3
DocsSearch(t, corpus) ==
    Answer("OK", Range(TopHits(corpus, QueryTerms(NativeQuery(t)), NativeEarly, TopK(t))))
CommandRecommend(t, corpus) ==
    Answer("OK", {Recommended(NativeQuery(t),
                    TopHits(corpus, QueryTerms(NativeQuery(t)), NativeEarly, 3))})

-----------------------------------------------------------------------------
(* The other native tools *)

Published(mods) == {m \in mods : m.name # "" /\ m.version # ""}
ModuleAt(mods, dir, keep) == {m \in keep : m.dir = dir}

PackageLookup(t, mods) ==
    LET name == StringAt(t, Raw(t, "name"))
        found == ModuleAt(mods, name, Published(mods))
    IN  IF name = "" THEN Refuse("BAD_ARGUMENTS")
        ELSE IF found = {} THEN Refuse("PACKAGE_NOT_FOUND")
        ELSE Answer("OK", {m.name : m \in found})

\* Names a command may have: the paths and tool names of lines are not.
Identifier(name) == name \notin DOMAIN Place /\ name \in DOMAIN Rank

CommandHelp(t, mods) ==
    LET name == StringAt(t, Raw(t, "name"))
        found == ModuleAt(mods, name, Documented(mods))
    IN  IF name = "" THEN Refuse("BAD_ARGUMENTS")
        ELSE IF ~Identifier(name) THEN Refuse("INVALID_COMMAND_NAME")
        ELSE IF found = {} THEN Refuse("COMMAND_NOT_FOUND")
        ELSE Answer("OK", {m.name : m \in found})

CommandRun(t) ==
    LET name == StringAt(t, Raw(t, "name")) IN
    IF name = "" THEN Refuse("BAD_ARGUMENTS")
    ELSE IF name \notin {"echo", "pwd", "help"} THEN Refuse("COMMAND_NOT_ALLOWED")
    ELSE Answer("OK", {name})

NativeTools == {"registry.packages.list", "registry.package.lookup", "shell.commands.list",
                "shell.command.help", "shell.command.run", "filesystem.delete_older_than_days",
                "rag.docs.search", "rag.command.recommend", "agent.command.plan"}
DocumentTools == {"rag.docs.search", "rag.command.recommend", "agent.command.plan"}
DeleteTool == "filesystem.delete_older_than_days"

LegacyTools == {"list_files", "get_time", "delete_older_than_days"}

\* What a server says of itself, disabled tools or not.
Introduction(t) ==
    CASE Selector(t) = "initialize" -> Answer("response", {"CoreShell MCP Server"})
      [] Selector(t) = "list_tools" -> Answer("response", LegacyTools)
      [] Selector(t) = "tools/list" -> Answer("OK", NativeTools)

\* handle_tools_call, for the tools that only read the workspace.
ReadingTool(tool, t, mods) ==
    CASE tool = "registry.packages.list" -> Answer("OK", {m.name : m \in Published(mods)})
      [] tool = "registry.package.lookup" -> PackageLookup(t, mods)
      [] tool = "shell.commands.list" -> Answer("OK", {m.name : m \in Documented(mods)})
      [] tool = "shell.command.help" -> CommandHelp(t, mods)
      [] tool = "shell.command.run" -> CommandRun(t)

\* The legacy tools that only read.
LegacyTool(t, ws) ==
    LET path == StringAt(t, Get(t, Arguments(t), "path"))
        p == IF path = "" THEN <<>> ELSE Where(path)
    IN  IF Tool(t) \in Disabled THEN Refuse("error")
        ELSE IF Tool(t) = "list_files"
        THEN IF Resolves(ws, p) /\ p \in ws.dirs THEN Answer("response", NamesIn(ws, p))
             ELSE Refuse("error")
        ELSE IF Tool(t) = "get_time" THEN Answer("response", {"time"})
        ELSE Refuse("error")

-----------------------------------------------------------------------------
(* The bridge: JSON.parse, then the members of the object *)

\* Of members with the same key the last one counts.
BridgeGet(t, o, k) == IF Keys(t, o, k) = {} THEN 0 ELSE Max(Keys(t, o, k)) + 2
Truthy(t, i) == i # 0 /\ t[i] \notin {"false", "null"} /\ ~(IsNumber(t, i) /\ NumberOf[t[i]] = 0)
Truly(t, i, j) == IF Truthy(t, i) THEN i ELSE j

BridgeSelector(t) == StringAt(t, Truly(t, BridgeGet(t, 1, "type"), BridgeGet(t, 1, "method")))
BridgeTool(t) == StringAt(t, Truly(t, BridgeGet(t, 1, "tool"), BridgeGet(t, 1, "name")))
BridgeArguments(t) ==
    Truly(t, BridgeGet(t, 1, "arguments"),
          Truly(t, BridgeGet(t, 1, "params"), BridgeGet(t, 1, "args")))
BridgeString(t, k) == StringAt(t, BridgeGet(t, BridgeArguments(t), k))

\* Number(v): null and false count as zero, true as one; a string that spells
\* no number and a missing member are NaN.
Counts(t, i) == IsNumber(t, i) \/ (i \in DOMAIN t /\ t[i] \in Literals)
Number(t, i) == IF IsNumber(t, i) THEN NumberOf[t[i]] ELSE IF t[i] = "true" THEN 1 ELSE 0

OnlyTrueIsDry(t, i) == i \in DOMAIN t /\ t[i] = "true"
\* !(args && args.dryRun === false)
Dry(t, i) == ~(i \in DOMAIN t /\ t[i] = "false")

\* deleteOlderThanDays: the path is resolved by its text alone.
BridgePlan(t, ws) ==
    LET path == BridgeString(t, "path")
        days == BridgeGet(t, BridgeArguments(t), "days")
        dry == BridgeGet(t, BridgeArguments(t), "dryRun")
    IN  IF path = "" \/ ~Counts(t, days) \/ Number(t, days) < 0 THEN NoPlan("BAD_ARGUMENTS")
        ELSE OnPath(ws, Where(path), Number(t, days), Dry(t, dry), Where(path) # Outside)

BridgeTopK(t) ==
    LET i == BridgeGet(t, BridgeArguments(t), "topK") IN
    IF i = 0 \/ ~Counts(t, i) THEN 3 ELSE Max({1, Min({Number(t, i), 8})})
BridgeHits(t, corpus, k) ==
    TopHits(corpus, Terms(BridgeString(t, "query"), BridgeStopWords), BridgeEarly, k)
BridgeAsks(t) == Terms(BridgeString(t, "query"), BridgeStopWords) # <<>>

BridgeDocs(tool, t, corpus) ==
    IF ~BridgeAsks(t) THEN Refuse("BAD_ARGUMENTS")
    ELSE IF tool = "rag.docs.search" THEN Answer("OK", Range(BridgeHits(t, corpus, BridgeTopK(t))))
    ELSE Answer("OK", {Recommended(BridgeString(t, "query"), BridgeHits(t, corpus, 3))})

\* loadPackagesFromModules: one package of each name, and none without a
\* version.
BridgePackages(mods) == {m.name : m \in Published(mods)}
\* loadCommandCatalog names a command after its directory when pkg.json does
\* not.
BridgeCatalog(mods) == {IF m.name # "" THEN m.name ELSE m.dir : m \in mods}

FirstArgument(t) ==
    LET a == BridgeGet(t, BridgeArguments(t), "args") IN
    IF a # 0 /\ t[a] = "[" THEN StringAt(t, a + 1) ELSE ""

\* cat, stat and head, which stay below the workspace; ls does not.
BridgeReadsPath(name, arg, ws) ==
    LET p == Where(arg) IN
    IF arg = "" THEN Refuse("BAD_ARGUMENTS")
    ELSE IF p = Outside THEN Refuse("COMMAND_NOT_ALLOWED")
    ELSE IF ~Exists(ws, p) THEN Refuse("COMMAND_EXECUTION_FAILED")
    ELSE IF name # "stat" /\ p \in ws.dirs THEN Refuse("BAD_ARGUMENTS")
    ELSE Answer("OK", {name})

BridgeLists(arg, ws) ==
    LET p == IF arg = "" THEN <<>> ELSE Where(arg) IN
    IF p = Outside THEN Answer("OK", {"elsewhere"})
    ELSE IF p \in ws.dirs THEN Answer("OK", NamesIn(ws, p))
    ELSE Refuse("COMMAND_EXECUTION_FAILED")

\* runShellCommand
BridgeRun(t, ws) ==
    LET name == BridgeString(t, "name") IN
    CASE name \in {"echo", "pwd", "help"} -> Answer("OK", {name})
      [] name = "ls" -> BridgeLists(FirstArgument(t), ws)
      [] name \in {"cat", "stat", "head"} -> BridgeReadsPath(name, FirstArgument(t), ws)
      [] OTHER -> Refuse("COMMAND_NOT_ALLOWED")

\* buildToolCatalog
BridgeTools == NativeTools

\* buildToolResponse, for the tools that neither delete nor ask the agent;
\* packages is what the bridge loaded when it started.
BridgeReads(tool, t, ws, packages, corpus) ==
    LET name == BridgeString(t, "name") IN
    CASE tool = "registry.packages.list" -> Answer("OK", packages)
      [] tool = "registry.package.lookup" ->
            IF name \in packages THEN Answer("OK", {name}) ELSE Refuse("PACKAGE_NOT_FOUND")
      [] tool = "shell.commands.list" -> Answer("OK", BridgeCatalog(ws.mods))
      [] tool = "shell.command.help" ->
            IF ~Identifier(name) THEN Refuse("INVALID_COMMAND_NAME")
            ELSE IF ModuleAt(ws.mods, name, ws.mods) = {} THEN Refuse("COMMAND_NOT_FOUND")
            ELSE Answer("OK", BridgeCatalog(ModuleAt(ws.mods, name, ws.mods)))
      [] tool = "shell.command.run" -> BridgeRun(t, ws)
      [] tool \in {"rag.docs.search", "rag.command.recommend"} -> BridgeDocs(tool, t, corpus)
      [] OTHER -> Refuse("TOOL_NOT_FOUND")
=============================================================================
