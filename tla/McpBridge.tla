------------------------------ MODULE McpBridge ------------------------------
(***************************************************************************)
(* The tool service of the Node bridge (createMcpServer of server.js): one *)
(* event loop, a 'data' handler per connection that works through a buffer *)
(* of lines, one answer per connection.                                    *)
(*                                                                         *)
(* The handler is async, but the tools settle before the loop takes its    *)
(* next event; only agent.command.plan, when it asks the model of another  *)
(* service, lets other events in.  An error no handler catches ends the    *)
(* process, and nothing starts it again.                                   *)
(***************************************************************************)
EXTENDS ToolCalls

CONSTANTS
    Clients, Scripts,   \* the clients, and the lines they may write
    CutAt,              \* where a chunk may end that ends no line
    Workspaces,
    AgentOn,            \* OPENAI_API_KEY is set
    MaxEdits

VARIABLES
    script,    \* client -> its lines, one connection each
    socket,    \* client -> its connection as the bridge holds it
    up,        \* the process runs
    turn,      \* the delete the event loop is busy with, or Quiet
    asked,     \* calls that wait for the agent
    packages,  \* what was found when the bridge started
    corpus,    \* ragCorpusCache, and whether it has been built
    ws,        \* the workspace
    log,       \* artifacts/mcp_calls.log
    removed,   \* the files the delete tool unlinked, as the scan found them
    edits      \* changes made to the workspace by others

vars == <<script, socket, up, turn, asked, packages, corpus, ws, log, removed, edits>>

NewLine == "\n"
TextOf(lines) == FlattenSeq([i \in DOMAIN lines |-> Append(lines[i], NewLine)])

\* Lines are sequences of tokens, and so is what is written of them.
ASSUME ScriptsAssumption ==
    \A s \in Scripts : \A c \in Clients : s[c] \in Seq(Seq(STRING)) /\ TextOf(s[c]) \in Seq(STRING)
ASSUME NobodyAssumption == "none" \notin Clients

Quiet == [conn |-> "none", line |-> <<>>, todo |-> {}, found |-> {}, gone |-> 0]

Init ==
    /\ script \in Scripts
    /\ socket = [c \in Clients |-> [sent |-> 0, buffer |-> <<>>, lines |-> 0, replied |-> FALSE,
                                    ended |-> FALSE, answers |-> <<>>]]
    /\ up = TRUE /\ turn = Quiet /\ asked = {}
    /\ ws \in Workspaces
    /\ packages = BridgePackages(ws.mods)
    /\ corpus = [ready |-> FALSE, docs |-> {}]
    /\ log = {} /\ removed = {} /\ edits = 0

\* The event loop has no handler to run.
Free == up /\ turn = Quiet

-----------------------------------------------------------------------------
(* Lines *)

Text(c) == TextOf(script[c])
ChunkEnds(c) ==
    {k \in (socket[c].sent + 1)..Len(Text(c)) : k \in CutAt \/ Text(c)[k] = NewLine}

DropsTheStart(buffer, chunk) == chunk
Buffered(buffer, chunk) == buffer \o chunk

Until(b, i) == Min({j \in i..Len(b) : b[j] = NewLine} \cup {Len(b) + 1})
Taken(line, rest) == [line |-> line, rest |-> rest]
StopsAtBlank(b) ==
    LET end == Until(b, 1)
    IN  IF end > Len(b) THEN Taken(<<>>, b)
        ELSE Taken(SubSeq(b, 1, end - 1), SubSeq(b, end + 1, Len(b)))
\* The first whole line of the buffer that is not blank, and what is behind.
NextLine(b) ==
    LET start == Min({i \in DOMAIN b : b[i] # NewLine} \cup {Len(b) + 1})
        end == Until(b, start)
    IN  IF end > Len(b) THEN Taken(<<>>, SubSeq(b, start, Len(b)))
        ELSE Taken(SubSeq(b, start, end - 1), SubSeq(b, end + 1, Len(b)))

IsScalar(t) == Len(t) = 1 /\ t[1] \in Literals \cup DOMAIN NumberOf
IsJson(t) == IsScalar(t) \/ (t # <<>> /\ t[1] = "{" /\ WellNested(t))
IsCall(t) == ~IsScalar(t) /\ BridgeSelector(t) = "tools/call"

-----------------------------------------------------------------------------
(* Answers *)

RepliesAnyway(s) == TRUE
\* One answer for each connection: reply returns when there has been one.
MayReply(s) == ~s.replied

\* The answer is logged before it is written, and a client that closed its
\* side has had the other side closed too (allowHalfOpen is off).
Reply(c, s, line, answer) ==
    IF MayReply(s)
    THEN /\ log' = log \cup {[conn |-> c, line |-> line, answer |-> answer]}
         /\ socket' = [socket EXCEPT ![c] =
               [s EXCEPT !.replied = TRUE,
                         !.answers = IF s.ended THEN @ ELSE Append(@, answer)]]
    ELSE /\ log' = log
         /\ socket' = [socket EXCEPT ![c] = s]

\* An exception that leaves an async handler is an unhandled rejection.
Crash ==
    /\ up' = FALSE /\ turn' = Quiet /\ asked' = {}
    /\ UNCHANGED <<log, corpus>>

\* deleteOlderThanDays up to its unlinks.  statSync of a file that has gone
\* is caught; readdirSync of a directory that has gone is not.
Scan(c, s, line) ==
    LET plan == BridgePlan(line, ws)
        found == Old(ws, plan.root, plan.days)
    IN  IF plan.code # "OK"
        THEN Reply(c, s, line, Refuse(plan.code)) /\ UNCHANGED <<up, turn, asked, corpus>>
        ELSE IF plan.dry \/ found = {}
        THEN Reply(c, s, line, Deleted(found, 0)) /\ UNCHANGED <<up, turn, asked, corpus>>
        ELSE /\ turn' = [conn |-> c, line |-> line, todo |-> found, gone |-> 0,
                         found |-> {[file |-> f, age |-> ws.files[f].age] : f \in found}]
             /\ socket' = [socket EXCEPT ![c] = s]
             /\ UNCHANGED <<up, asked, corpus, log>>

WalkFails(c, s, line) ==
    /\ BridgePlan(line, ws).code = "OK" /\ BridgePlan(line, ws).root \in ws.dirs
    /\ edits < MaxEdits /\ edits' = edits + 1
    /\ Crash /\ socket' = [socket EXCEPT ![c] = s]

\* buildToolResponse for a tool that asks nobody: its promise is settled, and
\* reply runs before the next event.
Settles(c, s, line, docs) ==
    /\ corpus' = [ready |-> corpus.ready \/ docs, docs |-> IF docs THEN BridgeCatalog(ws.mods) ELSE corpus.docs]
    /\ Reply(c, s, line, BridgeReads(BridgeTool(line), line, ws, packages, corpus'.docs))
    /\ UNCHANGED <<up, turn, asked>>

Call(c, s, line) ==
    LET tool == BridgeTool(line)
        asks == tool \in DocumentTools /\ BridgeAsks(line)
    IN  \/ tool = DeleteTool /\ Scan(c, s, line) /\ UNCHANGED edits
        \/ tool = DeleteTool /\ WalkFails(c, s, line)
        \/ /\ tool # DeleteTool /\ ~(tool = "agent.command.plan" /\ AgentOn /\ asks)
           /\ Settles(c, s, line, asks) /\ UNCHANGED edits
        \/ /\ tool = "agent.command.plan" /\ AgentOn /\ asks
           /\ asked' = asked \cup {[conn |-> c, line |-> line, nth |-> s.lines]}
           /\ corpus' = [ready |-> TRUE, docs |-> BridgeCatalog(ws.mods)]
           /\ socket' = [socket EXCEPT ![c] = s]
           /\ UNCHANGED <<up, turn, log, edits>>

Handle(c, s, line) ==
    \/ /\ line = <<"null">> /\ Crash /\ UNCHANGED edits      \* null has no members
       /\ socket' = [socket EXCEPT ![c] = s]
    \/ /\ line # <<"null">> /\ IsJson(line) /\ IsCall(line) /\ Call(c, s, line)
    \/ /\ line # <<"null">> /\ ~(IsJson(line) /\ IsCall(line))
       /\ Reply(c, s, line,
                IF ~IsJson(line) THEN Refuse("BAD_REQUEST")
                ELSE IF ~IsScalar(line) /\ BridgeSelector(line) = "tools/list"
                THEN Answer("OK", BridgeTools)
                ELSE Refuse("UNKNOWN_METHOD"))
       /\ UNCHANGED <<up, turn, asked, corpus, edits>>

KeepsReading(s) == TRUE
\* The handler goes on to the next line while nothing has been answered.
Reads(s) == ~s.replied

\* The 'data' event: every path of the loop's body but the blank line returns.
Data(c) ==
    /\ Free /\ ~socket[c].ended
    /\ \E k \in ChunkEnds(c) :
          LET buffer == Buffered(socket[c].buffer, SubSeq(Text(c), socket[c].sent + 1, k))
              next == NextLine(buffer)
              s == [socket[c] EXCEPT !.sent = k]
          IN  IF Reads(s) /\ next.line # <<>>
              THEN Handle(c, [s EXCEPT !.buffer = next.rest, !.lines = @ + 1], next.line)
              ELSE /\ socket' = [socket EXCEPT ![c] =
                         [s EXCEPT !.buffer = IF Reads(s) THEN next.rest ELSE buffer]]
                   /\ UNCHANGED <<up, turn, asked, corpus, log, edits>>
    /\ UNCHANGED <<script, packages, ws, removed>>

Unlink ==
    /\ up /\ turn.todo # {}
    /\ \E f \in turn.todo :
          LET there == f \in DOMAIN ws.files IN
          /\ turn' = [turn EXCEPT !.todo = @ \ {f}, !.gone = @ + IF there THEN 1 ELSE 0]
          /\ ws' = [ws EXCEPT !.files = Restrict(@, DOMAIN @ \ {f})]
          /\ removed' = IF ~there THEN removed
                        ELSE removed \cup {[conn |-> turn.conn, line |-> turn.line, file |-> f,
                                             age |-> x.age] : x \in {e \in turn.found : e.file = f}}
    /\ UNCHANGED <<script, socket, up, asked, packages, corpus, log, edits>>

ReportDeleted ==
    /\ up /\ turn # Quiet /\ turn.todo = {}
    /\ Reply(turn.conn, socket[turn.conn], turn.line, Deleted({e.file : e \in turn.found}, turn.gone))
    /\ turn' = Quiet
    /\ UNCHANGED <<script, up, asked, packages, corpus, ws, removed, edits>>

\* callOpenAiAgent settles: an answer, or AGENT_PROVIDER_ERROR.  postJson has
\* no timeout, so this need not happen.
AgentSettles ==
    /\ Free
    /\ \E a \in asked, answer \in {Answer("OK", {"agent"}), Refuse("AGENT_PROVIDER_ERROR")} :
          /\ Reply(a.conn, socket[a.conn], a.line, answer)
          /\ asked' = asked \ {a}
    /\ UNCHANGED <<script, up, turn, packages, corpus, ws, removed, edits>>

\* The client closes its side, at any place of what it has to say.
End(c) ==
    /\ Free /\ ~socket[c].ended
    /\ socket' = [socket EXCEPT ![c].ended = TRUE]
    /\ UNCHANGED <<script, up, turn, asked, packages, corpus, ws, log, removed, edits>>

\* Others use the workspace while the loop deletes.
Edit ==
    /\ turn # Quiet /\ edits < MaxEdits /\ edits' = edits + 1
    /\ \E f \in DOMAIN ws.files :
          \/ ws' = [ws EXCEPT !.files[f].age = 0]
          \/ ws' = [ws EXCEPT !.files = Restrict(@, DOMAIN @ \ {f})]
    /\ UNCHANGED <<script, socket, up, turn, asked, packages, corpus, log, removed>>

Finished == ~up \/ (turn = Quiet /\ \A c \in Clients : socket[c].ended)

Next ==
    \/ \E c \in Clients : Data(c) \/ End(c)
    \/ Unlink \/ ReportDeleted \/ AgentSettles \/ Edit
    \/ Finished /\ UNCHANGED vars

\* A handler that has begun goes on.  Nothing says that a client writes, or
\* that the agent ever answers.
Spec == Init /\ [][Next]_vars /\ WF_vars(Unlink \/ ReportDeleted)

-----------------------------------------------------------------------------
(* Properties *)

TypeOK ==
    /\ up \in BOOLEAN /\ \A a \in asked : a.conn \in Clients
    /\ \A c \in Clients : Len(socket[c].answers) <= 1 /\ (socket[c].answers # <<>> => socket[c].replied)
    /\ turn # Quiet => turn.conn \in Clients

\* What a client is answered is one answer, and the log has it as the answer
\* to one whole line of what this client wrote, though lines come in any
\* pieces and a later line may overtake one that waits for the agent.
\* (the data handler, reply)
WholeLine(text, line) ==
    \E i, j \in DOMAIN text :
        /\ i <= j /\ line = SubSeq(text, i, j) /\ \A k \in i..j : text[k] # NewLine
        /\ i = 1 \/ text[i - 1] = NewLine
        /\ j < Len(text) /\ text[j + 1] = NewLine
AnswersItsLine ==
    \A c \in Clients :
        LET logged == {e \in log : e.conn = c} IN
        /\ Len(socket[c].answers) <= 1 /\ Cardinality(logged) <= 1
        /\ Range(socket[c].answers) \subseteq {e.answer : e \in logged}
        /\ \A e \in logged : WholeLine(Text(c), e.line)

\* A file the bridge deleted was asked for by the line (when it gives its
\* days as a number), and once the handler is done the log holds that line, as
\* the one answered on its connection.
\* (deleteOlderThanDays, the test of replied in the data handler)
AskedFor(line, file, age) ==
    \E o \in DOMAIN line :
        /\ TellsToDelete(line, o, file)
        /\ \E i \in Days(line, o) : IsNumber(line, i) => OlderThan(line, i, age)
DeletionsAreLogged ==
    \A r \in removed :
        /\ AskedFor(r.line, r.file, r.age)
        /\ turn.conn = r.conn \/ \E e \in log : e.conn = r.conn /\ e.line = r.line

\* Nothing is deleted for a request that does not say after how many days.
\* (the input schema of the delete tool in buildToolCatalog, and its message
\* "days must be a non-negative number")
DeletesByDays ==
    \A r \in removed : \E o \in DOMAIN r.line : \E i \in Days(r.line, o) : IsNumber(r.line, i)

\* A line in which the delete tool's members are spelled once, and nothing
\* else is spelled like them, tells both services to delete the same files,
\* if both accept it.
\* (deleteOlderThanDays; build_delete_older_than_days of mcp_server.c)
Plainly(t) ==
    \A k \in {"path", "days", "dryRun"} : \A i, j \in DOMAIN t :
        t[i] = k /\ t[j] = k => i = j /\ i \in Keys(t, BridgeArguments(t), k)
SameReading ==
    \A c \in Clients : \A line \in Range(script[c]) :
        LET native == NativePlan(line, ws)
            bridge == BridgePlan(line, ws)
        IN  /\ IsObject(line) /\ Plainly(line) /\ NativeTool(line) = DeleteTool
            /\ BridgeTool(line) = DeleteTool /\ native.code = "OK" /\ bridge.code = "OK"
            => native = bridge

\* When the first line that is not blank has come in whole, its connection is
\* answered, or waits for the agent, or the bridge has died: no other
\* connection, and no agent that stays silent, holds it up.
\* (the data handler, postJson)
HasLine(c) ==
    \E i, j \in 1..socket[c].sent : i < j /\ Text(c)[i] # NewLine /\ Text(c)[j] = NewLine
EveryLineAnswered ==
    \A c \in Clients :
        HasLine(c) ~> (socket[c].replied \/ ~up \/ \E a \in asked : a.conn = c)
=============================================================================
