------------------------------ MODULE McpServer ------------------------------
(***************************************************************************)
(* The native tool server (mcp_server.c) and its clients: the rpc command  *)
(* (cmd_rpc.c) and legacy_mcp_client.py, which send one line on a          *)
(* connection of its own and take the first line that comes back, or the   *)
(* beginning of it, and sessions such as nc's, which send several lines on *)
(* one connection, read the answers when they please, and may stop in the  *)
(* middle of a line.                                                       *)
(*                                                                         *)
(* The server has one thread.  Connections wait in the kernel's queue, and *)
(* what a client sent is there for the server to read even when the client *)
(* has long given up.  A connection has room for some answers only: while  *)
(* its client does not read, the server waits in send.                     *)
(***************************************************************************)
EXTENDS ToolCalls

CONSTANTS
    Clients, Patient,   \* the clients, and those of them that never time out
    Scripts,            \* what the clients send: client -> sequence of lines
    Attempts,           \* client -> how often it connects at most
    Cuts,               \* how much of a line a session may send at a time
    Workspaces,         \* the workspaces to start from
    NativeOn, LegacyOn, FtpOn,
    Backlog, LineMax, RpcMax, RetrMax,
    Room,               \* answers a connection holds that its client has not read
    ReadMax,            \* the names in the longest answer that rpc can read
    Spoiled,            \* a piece of text that is not base64
    MaxEdits

ASSUME PatientClients == Patient \subseteq Clients
ASSUME CutsAreNumbers == Cuts \subseteq Nat
ASSUME Limits == {Backlog, LineMax, RpcMax, RetrMax, Room, ReadMax} \subseteq Nat \ {0}

VARIABLES
    script,    \* client -> its lines
    call,      \* client -> where its call is
    wire,      \* connection -> what is in the two directions of its socket
    queue,     \* connections the server has not accepted
    server,    \* what the server is doing
    corpus,    \* g_rag_corpus, and whether it has been built
    ws,        \* the workspace
    log,       \* artifacts/mcp_calls.log: lines handled, and their answers
    removed,   \* the files the delete tools unlinked, as the scan found them
    edits      \* changes made to the workspace by others

vars == <<script, call, wire, queue, server, corpus, ws, log, removed, edits>>
clientVars == <<script, call>>

\* What is on its way to a client, or was received: an answer, or no more
\* than its beginning.
All(answer) == [answer |-> answer, whole |-> TRUE]
Part(answer) == [answer |-> answer, whole |-> FALSE]

NoAnswer == Refuse("none")
Notification == Refuse("notification")
NewLine == "\n"
Nobody == <<>>

Connections == UNION {{c} \X (1..Attempts[c]) : c \in Clients}
Idle == [at |-> Nobody, user |-> FALSE, doing |-> "accept", line |-> <<>>,
         todo |-> {}, found |-> {}, gone |-> 0, reply |-> NoAnswer, then |-> "read"]

Init ==
    /\ script \in Scripts
    /\ call = [c \in Clients |-> [phase |-> "start", n |-> 1, at |-> 1, sent |-> 0,
                                  got |-> All(NoAnswer), ok |-> FALSE]]
    /\ wire = [i \in Connections |-> [text |-> <<>>, eof |-> FALSE, answers |-> <<>>,
                                      closed |-> FALSE]]
    /\ queue = <<>> /\ server = Idle
    /\ corpus = [ready |-> FALSE, docs |-> {}]
    /\ ws \in Workspaces
    /\ log = {} /\ removed = {} /\ edits = 0

-----------------------------------------------------------------------------
(* Clients *)

Conn(c) == <<c, call[c].n>>
Line(c) == script[c][call[c].at]

\* rpc_run: a failed attempt is followed by another one, or by the end.
Failed(c) ==
    IF call[c].n < Attempts[c]
    THEN [call[c] EXCEPT !.phase = "start", !.n = @ + 1, !.at = 1, !.sent = 0]
    ELSE [call[c] EXCEPT !.phase = "done"]

Connect(c) ==
    /\ call[c].phase = "start" /\ Len(queue) < Backlog
    /\ queue' = Append(queue, Conn(c))
    /\ call' = [call EXCEPT ![c].phase = "sending"]
    /\ UNCHANGED <<script, wire, server, corpus, ws, log, removed, edits>>

\* SO_SNDTIMEO and SO_RCVTIMEO bound every call of rpc on its socket.
Bounded(c) == c \notin Patient

ConnectTimesOut(c) ==
    /\ call[c].phase = "start" /\ Len(queue) >= Backlog /\ Bounded(c)
    /\ call' = [call EXCEPT ![c] = Failed(c)]
    /\ UNCHANGED <<script, wire, queue, server, corpus, ws, log, removed, edits>>

\* A session that never sends anything has no line.
HasLine(c) == call[c].at \in DOMAIN script[c]
TooLong(c) == c \notin Patient /\ Len(Line(c)) + 1 >= RpcMax

\* rpc's line fits a socket buffer and goes out in one piece.
Amounts(c) ==
    {Len(Line(c))} \cup {k \in Cuts : c \in Patient /\ call[c].sent < k /\ k < Len(Line(c))}

Send(c) ==
    /\ call[c].phase = "sending" /\ HasLine(c) /\ ~TooLong(c)
    /\ \E k \in Amounts(c) :
          LET end == IF k = Len(Line(c)) THEN <<NewLine>> ELSE <<>> IN
          /\ wire' = [wire EXCEPT ![Conn(c)].text =
                         @ \o SubSeq(Line(c), call[c].sent + 1, k) \o end]
          /\ call' = [call EXCEPT ![c].sent = k,
                                  ![c].phase = IF end = <<>> THEN "sending" ELSE "waiting"]
    /\ UNCHANGED <<script, queue, server, corpus, ws, log, removed, edits>>

\* The client closes its socket; what it sent stays to be read.
Leaves(c, next) ==
    /\ wire' = [wire EXCEPT ![Conn(c)].eof = TRUE]
    /\ call' = [call EXCEPT ![c] = next]
    /\ UNCHANGED <<script, queue, server, corpus, ws, log, removed, edits>>

SendRefused(c) == call[c].phase = "sending" /\ TooLong(c) /\ Leaves(c, Failed(c))

Received(c, got) == [call[c] EXCEPT !.phase = "done", !.got = got, !.ok = TRUE]

\* An answer that fills RPC_MAX_LINE, and may be more than a socket holds.
Long(answer) == Cardinality(answer.out) > ReadMax

\* rpc keeps the beginning of a line that is too long for it, the other
\* client all of it; both keep what came before the end of the connection.
Kept(got) == IF Long(got.answer) THEN {got, Part(got.answer)} ELSE {got}

Receive(c) ==
    /\ call[c].phase = "waiting" /\ c \notin Patient /\ wire[Conn(c)].answers # <<>>
    /\ \E got \in Kept(Head(wire[Conn(c)].answers)) : Leaves(c, Received(c, got))

\* The server is still sending a long line when rpc has read as much as it
\* keeps, or when the time of legacy_mcp_client.py is up.
ReceivePart(c) ==
    /\ call[c].phase = "waiting" /\ c \notin Patient /\ wire[Conn(c)].answers = <<>>
    /\ server.at = Conn(c) /\ server.doing = "send" /\ Long(server.reply)
    /\ Leaves(c, Received(c, Part(server.reply)))

TakesNothing(c) == Received(c, All(NoAnswer))
\* read_line: an error, or the end of the connection before any text.
NoLine(c) == Failed(c)

ReceiveEnd(c) ==
    /\ call[c].phase = "waiting"
    /\ wire[Conn(c)].answers = <<>> /\ wire[Conn(c)].closed
    /\ Leaves(c, NoLine(c))

ReceiveTimesOut(c) ==
    /\ call[c].phase = "waiting" /\ wire[Conn(c)].answers = <<>> /\ Bounded(c)
    /\ Leaves(c, NoLine(c))

\* A session sends its next line, and reads an answer, whenever it likes.
SendsOn(c) ==
    /\ c \in Patient /\ call[c].phase = "waiting" /\ call[c].at < Len(script[c])
    /\ call' = [call EXCEPT ![c].at = @ + 1, ![c].sent = 0, ![c].phase = "sending"]
    /\ UNCHANGED <<script, wire, queue, server, corpus, ws, log, removed, edits>>

Reads(c) ==
    /\ c \in Patient /\ call[c].phase \in {"sending", "waiting"}
    /\ wire[Conn(c)].answers # <<>>
    /\ wire' = [wire EXCEPT ![Conn(c)].answers = Tail(@)]
    /\ UNCHANGED <<clientVars, queue, server, corpus, ws, log, removed, edits>>

\* Whoever is at the other end of a session may leave at any time.
HangUp(c) ==
    /\ c \in Patient /\ call[c].phase \in {"sending", "waiting"}
    /\ Leaves(c, [call[c] EXCEPT !.phase = "done"])

ClientStep(c) ==
    \/ Connect(c) \/ ConnectTimesOut(c) \/ Send(c) \/ SendRefused(c)
    \/ Receive(c) \/ ReceivePart(c) \/ ReceiveEnd(c) \/ ReceiveTimesOut(c)
    \/ SendsOn(c) \/ Reads(c)

-----------------------------------------------------------------------------
(* The server's connections *)

SessionKept(id) == [Idle EXCEPT !.at = id, !.doing = "read", !.user = server.user]
\* connection_session_t is cleared for each connection.
Session(id) == [Idle EXCEPT !.at = id, !.doing = "read"]

Accept ==
    /\ server.doing = "accept" /\ queue # <<>>
    /\ server' = Session(Head(queue)) /\ queue' = Tail(queue)
    /\ UNCHANGED <<clientVars, wire, corpus, ws, log, removed, edits>>

Here == wire[server.at]
NewLineAt == Min({i \in DOMAIN Here.text : Here.text[i] = NewLine} \cup {Len(Here.text) + 1})

IgnoresEnd == NewLineAt <= Len(Here.text) \/ Len(Here.text) >= LineMax
\* recv_line returns at a newline, at the end of the connection, or with its
\* buffer full; in the last case a newline that follows is left unread.
LineReady == NewLineAt <= Len(Here.text) \/ Len(Here.text) >= LineMax \/ Here.eof
LineSize == Min({NewLineAt - 1, LineMax})
Consumed == IF NewLineAt - 1 < LineMax THEN Min({NewLineAt, Len(Here.text)}) ELSE LineMax

Close == [Idle EXCEPT !.user = server.user]

ReadLine ==
    /\ server.doing = "read" /\ LineReady
    /\ IF LineSize = 0
       THEN /\ wire' = [wire EXCEPT ![server.at].closed = TRUE]
            /\ server' = Close
       ELSE /\ wire' = [wire EXCEPT ![server.at].text = SubSeq(@, Consumed + 1, Len(@))]
            /\ server' = [server EXCEPT !.line = SubSeq(Here.text, 1, LineSize),
                                        !.doing = "route"]
    /\ UNCHANGED <<clientVars, queue, corpus, ws, log, removed, edits>>

\* send_json_line is called; what follows it is the next line, the rest of
\* the handler, or the end of the connection.
Sends(answer, then) ==
    server' = [server EXCEPT !.doing = "send", !.reply = answer, !.then = then]

Replies(answer, then) ==
    /\ log' = log \cup {[conn |-> server.at, line |-> server.line, answer |-> answer]}
    /\ Sends(answer, then)

\* send has no timeout: it waits for the client to make room, or to leave.
HasRoom == Len(Here.answers) < Room

SendLine ==
    /\ server.doing = "send" /\ HasRoom
    /\ wire' = [wire EXCEPT ![server.at].answers = Append(@, All(server.reply)),
                            ![server.at].closed = server.then = "close"]
    /\ server' = CASE server.then = "close" -> Close
                   [] server.then = "handle" -> [server EXCEPT !.doing = "handle"]
                   [] OTHER -> [Session(server.at) EXCEPT !.user = server.user]
    /\ UNCHANGED <<clientVars, queue, corpus, ws, log, removed, edits>>

\* Sending to a client that left may fail, and ends the connection.
SendFails ==
    /\ server.doing = "send" /\ Here.eof
    /\ wire' = [wire EXCEPT ![server.at].closed = TRUE] /\ server' = Close
    /\ UNCHANGED <<clientVars, queue, corpus, ws, log, removed, edits>>

\* A send that waits for room returns early, with a part of the answer gone
\* out, when the process is stopped and continued; that counts as a failure.
SendBreaksOff ==
    /\ server.doing = "send" /\ (Long(server.reply) \/ ~HasRoom)
    /\ wire' = [wire EXCEPT ![server.at].answers = Append(@, Part(server.reply)),
                            ![server.at].closed = TRUE]
    /\ server' = Close
    /\ UNCHANGED <<clientVars, queue, corpus, ws, log, removed, edits>>

-----------------------------------------------------------------------------
(* FTP-style lines *)

FtpVerbs == {"MKD", "LIST", "STOR", "RETR", "PWD"}
Arg(n) == IF Len(server.line) > n THEN server.line[n + 1] ELSE ""
Payload == SubSeq(server.line, 3, Len(server.line))

\* The answer to a line of a session that gave its name; only MKD and STOR
\* change the workspace.
FtpAnswer ==
    LET verb == Arg(0)
        p == IF Arg(1) = "" THEN <<>> ELSE Where(Arg(1))
    IN  CASE verb = "PWD" -> Answer("257", {})
          [] verb # "LIST" /\ Arg(1) = "" -> Refuse("501")
          [] verb = "STOR" /\ Payload = <<>> -> Refuse("501")
          [] ~Resolves(ws, p) -> Refuse("550")
          [] verb = "MKD" -> IF Exists(ws, p) THEN Refuse("550") ELSE Answer("257", {})
          [] verb = "LIST" -> IF p \in ws.dirs THEN Answer("150", NamesIn(ws, p)) ELSE Refuse("550")
          [] verb = "STOR" -> IF Spoiled \in Range(Payload) THEN Refuse("501")
                              ELSE IF p \in ws.dirs THEN Refuse("550") ELSE Answer("226", {})
          [] verb = "RETR" -> IF ~Exists(ws, p) THEN Refuse("550")
                              ELSE IF p \in ws.dirs THEN Answer("150", {})
                              ELSE Answer("150", Range(SubSeq(ws.files[p].data, 1,
                                       Min({Len(ws.files[p].data), RetrMax}))))

Stored ==
    IF FtpAnswer.code = "226"
    THEN [ws EXCEPT !.files = (Where(Arg(1)) :> [age |-> 0, data |-> Payload]) @@ @]
    ELSE IF Arg(0) = "MKD" /\ FtpAnswer.code = "257"
    THEN [ws EXCEPT !.dirs = @ \cup {Where(Arg(1))}]
    ELSE ws

NotJson == server.doing = "route" /\ ~IsObject(server.line)

\* handle_ftp_style_command, and the answer to lines of neither kind.
FtpUser ==
    /\ NotJson /\ FtpOn /\ Arg(0) = "USER"
    /\ log' = log \cup {[conn |-> server.at, line |-> server.line,
                         answer |-> Refuse(IF Arg(1) = "" THEN "530" ELSE "230")]}
    /\ server' = [server EXCEPT !.user = @ \/ Arg(1) # "", !.doing = "send", !.then = "read",
                                !.reply = Refuse(IF Arg(1) = "" THEN "530" ELSE "230")]
    /\ UNCHANGED <<clientVars, wire, queue, corpus, ws, removed, edits>>

FtpLine ==
    /\ NotJson /\ (FtpOn => Arg(0) # "USER")
    /\ LET known == FtpOn /\ server.user /\ Arg(0) \in FtpVerbs IN
       /\ ws' = IF known THEN Stored ELSE ws
       /\ IF FtpOn /\ Arg(0) = "QUIT" THEN Replies(Refuse("221"), "close")
          ELSE Replies(IF known THEN FtpAnswer
                       ELSE Refuse(IF FtpOn /\ ~server.user THEN "530" ELSE "BAD_REQUEST"), "read")
    /\ UNCHANGED <<clientVars, wire, queue, corpus, removed, edits>>

-----------------------------------------------------------------------------
(* Requests *)

Announces(line) == /\ Selector(line) = "call_tool"
                   /\ Tool(line) \in {"list_files", "delete_older_than_days"}
Announced == Announces(server.line)

\* The progress line goes out before anything is looked at, disabled or not.
Notify ==
    /\ server.doing = "route" /\ IsObject(server.line) /\ Announced
    /\ Sends(Notification, "handle")
    /\ UNCHANGED <<clientVars, wire, queue, corpus, ws, log, removed, edits>>

Handling ==
    \/ server.doing = "handle"
    \/ server.doing = "route" /\ IsObject(server.line) /\ ~Announced

Enabled(line) == (IsLegacy(line) /\ LegacyOn) \/ (IsNative(line) /\ NativeOn)
NativeCall(line) == Selector(line) = "tools/call"
Usable(tool) == tool \in NativeTools \ Disabled

Deletes(line) ==
    /\ Enabled(line)
    /\ \/ NativeCall(line) /\ NativeTool(line) = DeleteTool /\ Usable(DeleteTool)
       \/ Selector(line) = "call_tool" /\ Tool(line) = "delete_older_than_days"
          /\ Tool(line) \notin Disabled
PlanOf(line) == IF NativeCall(line) THEN NativePlan(line, ws) ELSE LegacyPlan(line, ws)

\* handle_request where nothing is deleted and no document is looked up.
Plain(line) ==
    IF ~IsLegacy(line) /\ ~IsNative(line) THEN Refuse("UNKNOWN_METHOD")
    ELSE IF ~Enabled(line) THEN Refuse("SERVICE_DISABLED")
    ELSE IF Selector(line) = "call_tool" THEN LegacyTool(line, ws)
    ELSE IF ~NativeCall(line) THEN Introduction(line)
    ELSE IF NativeTool(line) = "" THEN Refuse("BAD_ARGUMENTS")
    ELSE IF NativeTool(line) \in Disabled THEN Refuse("SERVICE_DISABLED")
    ELSE IF ~Usable(NativeTool(line)) THEN Refuse("TOOL_NOT_FOUND")
    ELSE ReadingTool(NativeTool(line), line, ws.mods)

UsesDocuments(line) ==
    Enabled(line) /\ NativeCall(line) /\ NativeTool(line) \in DocumentTools \ Disabled

HandlePlain ==
    /\ Handling /\ ~Deletes(server.line) /\ ~UsesDocuments(server.line)
    /\ Replies(Plain(server.line), "read")
    /\ UNCHANGED <<clientVars, wire, queue, corpus, ws, removed, edits>>

\* The corpus is built by the first query and kept for good.
HandleQuery ==
    /\ Handling /\ UsesDocuments(server.line)
    /\ IF ~AnswersQuery(server.line)
       THEN corpus' = corpus /\ Replies(Refuse("BAD_ARGUMENTS"), "read")
       ELSE \E docs \in IF corpus.ready THEN {corpus.docs} ELSE Corpora(ws.mods) :
              /\ corpus' = [ready |-> TRUE, docs |-> docs]
              /\ Replies(IF NativeTool(server.line) = "rag.docs.search"
                         THEN DocsSearch(server.line, docs)
                         ELSE CommandRecommend(server.line, docs), "read")
    /\ UNCHANGED <<clientVars, wire, queue, ws, removed, edits>>

\* post_agent_command_proxy: the bridge answers in time.
HandleProxied ==
    /\ Handling /\ UsesDocuments(server.line)
    /\ NativeTool(server.line) = "agent.command.plan" /\ NativeQuery(server.line) # ""
    /\ Replies(Answer("OK", {"agent"}), "read")
    /\ UNCHANGED <<clientVars, wire, queue, corpus, ws, removed, edits>>

\* The scan of the directories; the unlinks follow one by one.
Scan ==
    /\ Handling /\ Deletes(server.line)
    /\ LET plan == PlanOf(server.line) IN
       IF plan.code # "OK"
       THEN Replies(Refuse(plan.code), "read")
       ELSE \E found \in Scans(ws, plan) :
              IF plan.dry \/ found = {}
              THEN Replies(Deleted(found, 0), "read")
              ELSE /\ server' = [server EXCEPT !.doing = "unlink", !.todo = found,
                                   !.found = {[file |-> f, age |-> ws.files[f].age] : f \in found}]
                   /\ log' = log
    /\ UNCHANGED <<clientVars, wire, queue, corpus, ws, removed, edits>>

Unlink ==
    /\ server.doing = "unlink" /\ server.todo # {}
    /\ \E f \in server.todo :
          LET there == f \in DOMAIN ws.files IN
          /\ server' = [server EXCEPT !.todo = @ \ {f}, !.gone = @ + IF there THEN 1 ELSE 0]
          /\ ws' = [ws EXCEPT !.files = Restrict(@, DOMAIN @ \ {f})]
          /\ removed' = IF ~there THEN removed
                        ELSE removed \cup {[conn |-> server.at, line |-> server.line, file |-> f,
                                             age |-> x.age] : x \in {e \in server.found : e.file = f}}
    /\ UNCHANGED <<clientVars, wire, queue, corpus, log, edits>>

ReportDeleted ==
    /\ server.doing = "unlink" /\ server.todo = {}
    /\ Replies(Deleted({e.file : e \in server.found}, server.gone), "read")
    /\ UNCHANGED <<clientVars, wire, queue, corpus, ws, removed, edits>>

ServerStep ==
    \/ Accept \/ ReadLine \/ SendLine \/ SendFails \/ FtpUser \/ FtpLine \/ Notify \/ HandlePlain \/ HandleQuery
    \/ HandleProxied \/ Scan \/ Unlink \/ ReportDeleted

-----------------------------------------------------------------------------
(* Others who use the workspace *)

\* While the server deletes; before the scan an edit makes another workspace
\* to start from.
Edit ==
    /\ server.doing = "unlink" /\ edits < MaxEdits /\ edits' = edits + 1
    /\ \E f \in DOMAIN ws.files :
          \/ ws' = [ws EXCEPT !.files[f].age = 0]
          \/ ws' = [ws EXCEPT !.files = Restrict(@, DOMAIN @ \ {f})]
    /\ UNCHANGED <<clientVars, wire, queue, server, corpus, log, removed>>

Finished == \A c \in Clients : call[c].phase = "done"

Next ==
    \/ \E c \in Clients : ClientStep(c) \/ HangUp(c)
    \/ ServerStep \/ SendBreaksOff
    \/ Edit
    \/ Finished /\ server.at = Nobody /\ queue = <<>> /\ UNCHANGED vars

\* ENABLED ServerStep: the server waits for a connection, for the rest of a
\* line or for room to send, and for nothing else.
ServerReady ==
    \/ server.doing = "accept" /\ queue # <<>>
    \/ server.doing = "read" /\ LineReady
    \/ server.doing = "send" /\ (HasRoom \/ Here.eof)
    \/ server.doing \in {"route", "handle", "unlink"}

\* The server is scheduled (this is WF_vars(ServerStep), with its ENABLED
\* written out); a call of rpc ends or times out.  Nothing says that a
\* session goes on, reads, or is ever hung up, or that a send is broken off.
Fairness ==
    /\ []<>~ServerReady \/ []<><<ServerStep>>_vars
    /\ \A c \in Clients \ Patient : WF_vars(ClientStep(c))

Spec == Init /\ [][Next]_vars /\ Fairness

-----------------------------------------------------------------------------
(* What the theorems assume of the lines that clients send *)

Calling == Clients \ Patient

\* What the calls of rpc and of legacy_mcp_client.py are, and the limits of
\* cmd_rpc.c and mcp_server.c: one line per call, which holds no newline, and
\* the longest line that rpc sends fits the buffer of the server.
OneLineCalls ==
    /\ RpcMax <= LineMax
    /\ \A c \in Clients : Attempts[c] \in Nat \ {0}
    /\ \A s \in Scripts : \A c \in Calling :
          /\ Len(s[c]) = 1
          /\ s[c][1] \in Seq(Range(s[c][1])) /\ NewLine \notin Range(s[c][1])

\* Lines are texts that hold no newline.
Lines ==
    /\ \A c \in Clients : Attempts[c] \in Nat \ {0}
    /\ \A s \in Scripts : \A c \in Clients : \A l \in DOMAIN s[c] :
          s[c][l] \in Seq(Range(s[c][l])) /\ NewLine \notin Range(s[c][l])

-----------------------------------------------------------------------------
(* Properties *)

TypeOK ==
    /\ \A c \in Clients : call[c].phase \in {"start", "sending", "waiting", "done"}
                          /\ call[c].n \in 1..Attempts[c]
    /\ Len(queue) <= Backlog
    /\ server.doing \in {"accept", "read", "send", "route", "handle", "unlink"}

\* An rpc call that reports success holds the answer the server logged for
\* the whole of its message on the connection of its last attempt; the
\* exception is the progress line of the two announced tools, which rpc and
\* legacy_mcp_client.py take for the answer.  It holds no more than the
\* beginning only if the answer is longer than RPC_MAX_LINE, however the
\* connection ended.
\* (read_line, rpc_exchange_once, recv_line, the loop of main)
AnswerIsOwn ==
    \A c \in Clients \ Patient : call[c].ok =>
        LET got == call[c].got IN
        /\ \/ got.answer = Notification /\ Announces(Line(c))
           \/ [conn |-> Conn(c), line |-> Line(c), answer |-> got.answer] \in log
        /\ got.whole \/ Long(got.answer)

\* rpc --json prints "ok" for a reply it cut; shown to be violated.
SuccessIsWhole == \A c \in Clients \ Patient : call[c].ok => call[c].got.whole

\* strstr, which takes the first token k of the text for the key, ends at a
\* member k of the object o: the text has k for a key of o only, or no value
\* of the kind in question except that member's.
FindsMember(line, o, k, values) ==
    \/ \A i \in DOMAIN line : line[i] = k => i \in Keys(line, o, k)
    \/ \A i \in values : i - 2 \in Keys(line, o, k)
Unmistaken(line, o) ==
    /\ FindsMember(line, o, "path", {i \in DOMAIN line : IsString(line, i)})
    /\ FindsMember(line, o, "days", {i \in DOMAIN line : IsNumber(line, i)})
    /\ FindsMember(line, o, "dryRun", {i \in DOMAIN line : IsBool(line, i)})
\* The native tool may take the members of such a line from anywhere in it.
Mistakable(line) == NativeCall(line) /\ \A o \in DOMAIN line : ~Unmistaken(line, o)

\* A line of the server's is a line that a client sent on that connection, or
\* a part that recv_line takes for one: of a line that overruns the server's
\* buffer, or of one whose client left in the middle of it.
IsPart(w, line) ==
    \E k \in 0..Len(line) : /\ k + Len(w) <= Len(line)
                            /\ \A j \in DOMAIN w : w[j] = line[k + j]
LeftAt(conn, w) ==
    LET c == conn[1] IN
    /\ call[c].phase = "done" /\ call[c].n = conn[2] /\ HasLine(c)
    /\ Len(w) = call[c].sent /\ Len(w) < Len(Line(c)) /\ IsPrefix(w, Line(c))
WasSent(conn, w) ==
    \/ \E l \in DOMAIN script[conn[1]] :
          LET line == script[conn[1]][l] IN
          line = w \/ (Len(line) >= LineMax /\ IsPart(w, line))
    \/ LeftAt(conn, w)

Asked(line, file, age) ==
    \E o \in DOMAIN line : /\ TellsToDelete(line, o, file)
                           /\ \E i \in Days(line, o) : OlderThan(line, i, age)

\* Every file the delete tools unlinked was asked for by a line that was sent
\* on that connection, was old enough when it was scanned, and was not asked
\* for as a dry run, although the native tool finds the members of the
\* request with strstr in its text and the legacy tool with a parser.  The
\* exceptions are the lines on which strstr may go wrong, and the parts of
\* lines that recv_line takes for lines: DeletesAsRead and WholeLinesDelete
\* say what is lost there.
\* (build_delete_older_than_days, build_legacy_delete_older_than_days,
\* recv_line)
DeletesAsAsked ==
    \A r \in removed : /\ WasSent(r.conn, r.line)
                       /\ Mistakable(r.line) \/ Asked(r.line, r.file, r.age)

\* Shown to be violated: what is deleted is what the members of the request
\* ask for, whatever else its text holds.  (extract_json_bool)
DeletesAsRead == \A r \in removed : Asked(r.line, r.file, r.age)

\* Shown to be violated: a file is deleted only by a line that was sent whole.
\* (recv_line, which returns what it has when its buffer is full and when the
\* connection ends)
WholeLinesDelete ==
    \A r \in removed : \E l \in DOMAIN script[r.conn[1]] : script[r.conn[1]][l] = r.line

\* Lines that read or change the workspace the FTP way are obeyed only on a
\* connection that gave a user name before, whoever used the server earlier.
\* (handle_ftp_style_command, the memset of session in main)
LoginIsPerConnection ==
    \A e \in log : e.answer.code \in {"257", "150", "226", "501", "550"} =>
        \E u \in log : u.conn = e.conn /\ u.answer.code = "230"

\* The server waits for the rest of a line that c does not send, or for room
\* that c does not make by reading; c has not left.
HeldBy(c) ==
    /\ server.at # Nobody /\ server.at[1] = c /\ ~Here.eof
    /\ \/ server.doing = "read" /\ ~LineReady
       \/ server.doing = "send" /\ ~HasRoom

\* Only one session that neither leaves nor goes on can keep the server from
\* its next connection for ever, by its silence or by not reading what it is
\* sent.  (recv_line and send_json_line have no timeout; the loop of main)
OnlySilenceHoldsUp ==
    \/ []<>(server.at = Nobody)
    \/ \E c \in Patient : <>[]HeldBy(c)
=============================================================================
