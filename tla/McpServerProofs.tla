--------------------------- MODULE McpServerProofs ---------------------------
(***************************************************************************)
(* Three theorems about the native server and its clients, for any         *)
(* clients, workspaces, limits and requests.                               *)
(*                                                                         *)
(* A login holds for one connection.  The flag in the session stands for a *)
(* line of the log, a "230" on the very connection the session belongs to; *)
(* and only FtpLine, which reads the flag, gives one of the answers that   *)
(* need a login.  Every other handler is shown to answer something else.   *)
(*                                                                         *)
(* The answer a call of rpc takes is the answer to its line.  Its          *)
(* connections carry that line, whole, or nothing, so the server, which    *)
(* may read it long after the attempt was given up, works on that line and *)
(* no other, and what it sends back on them is the progress line or the    *)
(* answer to it.  A call has no more than the beginning of an answer only  *)
(* where the answer is a long one: the others find room in the connection, *)
(* and are not broken off.                                                 *)
(*                                                                         *)
(* What is deleted was asked for.  A text is made of lines of its client,  *)
(* the last perhaps unfinished, so the server works on a line that was     *)
(* sent, or on a part of one that overran its buffer or was left in the    *)
(* middle.  The plan made from it goes by members of one of its objects,   *)
(* unless strstr may take something else for them (Mistakable); the scan   *)
(* finds what the plan covers, and only what the scan found is unlinked.   *)
(***************************************************************************)
EXTENDS McpServer, SequenceTheorems, WellFoundedInduction, TLAPS

NeedsLogin == {"257", "150", "226", "501", "550"}
LoggedIn(id) == \E u \in log : u.conn = id /\ u.answer.code = "230"

\* The session's flag stands for a line of the log.
FlagIsEarned == server.doing # "accept" /\ server.user => LoggedIn(server.at)

LoginInv ==
    /\ DOMAIN server = DOMAIN Idle
    /\ server.user \in BOOLEAN
    /\ FlagIsEarned
    /\ LoginIsPerConnection

-----------------------------------------------------------------------------
(* What the handlers answer.                                               *)

LEMMA PlanCodes ==
    ASSUME NEW line, NEW w
    PROVE  NativePlan(line, w).code \notin NeedsLogin /\ LegacyPlan(line, w).code \notin NeedsLogin
<1>1. ASSUME NEW p, NEW days, NEW dry, NEW within
      PROVE  OnPath(w, p, days, dry, within).code \notin NeedsLogin
  BY DEF OnPath, Plan, NoPlan, NeedsLogin
<1>2. NoPlan("BAD_ARGUMENTS").code \notin NeedsLogin /\ NoPlan("error").code \notin NeedsLogin
  BY DEF Plan, NoPlan, NeedsLogin
<1>3. NativePlan(line, w).code \notin NeedsLogin
  BY <1>1, <1>2 DEF NativePlan
<1>4. LegacyPlan(line, w).code \notin NeedsLogin
  BY <1>1, <1>2 DEF LegacyPlan
<1> QED BY <1>3, <1>4

\* The tools that read the workspace or the documents.
LEMMA ToolCodes ==
    ASSUME NEW line, NEW w, NEW mods, NEW docs
    PROVE  /\ LegacyTool(line, w).code \notin NeedsLogin
           /\ PackageLookup(line, mods).code \notin NeedsLogin
           /\ CommandHelp(line, mods).code \notin NeedsLogin
           /\ CommandRun(line).code \notin NeedsLogin
           /\ DocsSearch(line, docs).code \notin NeedsLogin
           /\ CommandRecommend(line, docs).code \notin NeedsLogin
<1>1. LegacyTool(line, w).code \notin NeedsLogin
  BY DEF LegacyTool, Refuse, Answer, NeedsLogin
<1>2. PackageLookup(line, mods).code \notin NeedsLogin
  BY DEF PackageLookup, Refuse, Answer, NeedsLogin
<1>3. CommandHelp(line, mods).code \notin NeedsLogin
  BY DEF CommandHelp, Refuse, Answer, NeedsLogin
<1>4. CommandRun(line).code \notin NeedsLogin
  BY DEF CommandRun, Refuse, Answer, NeedsLogin
<1>5. /\ DocsSearch(line, docs).code \notin NeedsLogin
      /\ CommandRecommend(line, docs).code \notin NeedsLogin
  BY DEF DocsSearch, CommandRecommend, Answer, NeedsLogin
<1> QED BY <1>1, <1>2, <1>3, <1>4, <1>5

LEMMA PlainCodes ==
    ASSUME NEW line, ~Deletes(line), ~UsesDocuments(line)
    PROVE  Plain(line).code \notin NeedsLogin
<1>1. ASSUME NEW code \in {"UNKNOWN_METHOD", "SERVICE_DISABLED", "BAD_ARGUMENTS", "TOOL_NOT_FOUND"}
      PROVE  Refuse(code).code \notin NeedsLogin
  BY DEF Refuse, Answer, NeedsLogin
<1>2. LegacyTool(line, ws).code \notin NeedsLogin
  BY ToolCodes
<1>3. ASSUME IsLegacy(line) \/ IsNative(line), Selector(line) # "call_tool", ~NativeCall(line)
      PROVE  Introduction(line).code \notin NeedsLogin
  <2>1. Selector(line) \in {"initialize", "list_tools", "tools/list"}
    BY <1>3 DEF IsLegacy, IsNative, NativeCall
  <2> QED BY <2>1 DEF Introduction, Answer, NeedsLogin
<1>4. ASSUME Enabled(line), NativeCall(line), Usable(NativeTool(line))
      PROVE  ReadingTool(NativeTool(line), line, ws.mods).code \notin NeedsLogin
  <2>1. NativeTool(line) \in {"registry.packages.list", "registry.package.lookup",
                              "shell.commands.list", "shell.command.help", "shell.command.run"}
    BY <1>4 DEF Deletes, UsesDocuments, Usable, NativeTools, DocumentTools, DeleteTool
  <2>2. ASSUME NEW names PROVE Answer("OK", names).code \notin NeedsLogin
    BY DEF Answer, NeedsLogin
  <2>3. /\ PackageLookup(line, ws.mods).code \notin NeedsLogin
        /\ CommandHelp(line, ws.mods).code \notin NeedsLogin
        /\ CommandRun(line).code \notin NeedsLogin
    BY ToolCodes
  <2> QED BY <2>1, <2>2, <2>3 DEF ReadingTool
<1> QED BY <1>1, <1>2, <1>3, <1>4 DEF Plain

-----------------------------------------------------------------------------
(* Steps.                                                                  *)

\* The log only grows; a step that adds nothing to it and leaves the flag
\* alone, or drops it, keeps the invariant.
LEMMA QuietStep ==
    ASSUME LoginInv, log' = log, DOMAIN server' = DOMAIN Idle, server'.user \in BOOLEAN,
           \/ server'.doing = "accept"
           \/ ~server'.user
           \/ server.doing # "accept" /\ server'.at = server.at /\ server'.user = server.user
    PROVE  LoginInv'
BY DEF LoginInv, FlagIsEarned, LoggedIn, LoginIsPerConnection

\* What Sends leaves of the session.
LEMMA AfterSend ==
    ASSUME NEW answer, NEW then, DOMAIN server = DOMAIN Idle, Sends(answer, then)
    PROVE  /\ DOMAIN server' = DOMAIN Idle /\ server'.user = server.user
           /\ server'.at = server.at /\ server'.doing = "send"
BY DEF Sends, Idle

\* An answer that needs no login, or one given while the flag is up.
LEMMA ReplyStep ==
    ASSUME LoginInv, server.doing # "accept", NEW answer, NEW then, Replies(answer, then),
           answer.code \in NeedsLogin => server.user
    PROVE  LoginInv'
<1>1. /\ DOMAIN server' = DOMAIN Idle /\ server'.user = server.user
      /\ server'.at = server.at
  BY AfterSend DEF LoginInv, Replies
<1> DEFINE new == [conn |-> server.at, line |-> server.line, answer |-> answer]
<1>2. log' = log \cup {new}
  BY DEF Replies
<1>3. new.conn = server.at /\ new.answer.code = answer.code
  OBVIOUS
<1> HIDE DEF new
<1>4. ASSUME NEW id, LoggedIn(id) PROVE LoggedIn(id)'
  BY <1>2, <1>4 DEF LoggedIn
<1>5. FlagIsEarned'
  BY <1>1, <1>4 DEF LoginInv, FlagIsEarned
<1>6. ASSUME NEW e \in log', e.answer.code \in NeedsLogin PROVE LoggedIn(e.conn)'
  <2>1. CASE e \in log
    BY <1>4, <1>6, <2>1 DEF LoginInv, LoginIsPerConnection, LoggedIn, NeedsLogin
  <2>2. CASE e = new
    BY <1>3, <1>4, <1>6, <2>2 DEF LoginInv, FlagIsEarned
  <2> QED BY <1>2, <2>1, <2>2
<1>7. LoginIsPerConnection'
  BY <1>6 DEF LoginIsPerConnection, LoggedIn, NeedsLogin
<1> QED BY <1>1, <1>5, <1>7 DEF LoginInv

LEMMA LoginStart == ASSUME Init PROVE LoginInv
BY DEF Init, Idle, LoginInv, FlagIsEarned, LoginIsPerConnection

LEMMA ClientKeepsLogin ==
    ASSUME LoginInv, NEW c \in Clients, ClientStep(c) \/ HangUp(c)
    PROVE  LoginInv'
<1>1. UNCHANGED <<server, log>>
  BY DEF ClientStep, HangUp, Connect, ConnectTimesOut, Send, SendRefused, Receive, ReceivePart,
         ReceiveEnd, ReceiveTimesOut, SendsOn, Reads, Leaves
<1> QED BY <1>1 DEF LoginInv, FlagIsEarned, LoggedIn, LoginIsPerConnection

LEMMA ServerKeepsLogin ==
    ASSUME LoginInv, ServerStep \/ SendBreaksOff
    PROVE  LoginInv'
<1> DOMAIN server = DOMAIN Idle /\ server.user \in BOOLEAN
  BY DEF LoginInv
\* A new connection starts without a name.
<1>1. CASE Accept
  <2>1. log' = log /\ server' = Session(Head(queue))
    BY <1>1 DEF Accept
  <2>2. DOMAIN server' = DOMAIN Idle /\ server'.user = FALSE
    BY <2>1 DEF Session, Idle
  <2> QED BY <2>1, <2>2, QuietStep
<1>2. CASE ReadLine
  <2>1. log' = log /\ server.doing = "read"
    BY <1>2 DEF ReadLine
  <2>2. CASE server' = Close
    BY <2>1, <2>2, QuietStep DEF Close, Idle
  <2>3. CASE server' = [server EXCEPT !.line = SubSeq(Here.text, 1, LineSize), !.doing = "route"]
    BY <2>1, <2>3, QuietStep DEF Idle
  <2> QED BY <1>2, <2>2, <2>3 DEF ReadLine
\* The flag goes up with the answer that earns it.
<1>3. CASE FtpUser
  <2> DEFINE code == IF Arg(1) = "" THEN "530" ELSE "230"
             new == [conn |-> server.at, line |-> server.line, answer |-> Refuse(code)]
  <2>1. log' = log \cup {new}
    BY <1>3 DEF FtpUser
  <2>2. new.conn = server.at /\ new.answer.code = code
    BY DEF Refuse, Answer
  <2>3. /\ DOMAIN server' = DOMAIN Idle /\ server'.user = (server.user \/ Arg(1) # "")
        /\ server'.at = server.at /\ server.doing # "accept"
    BY <1>3 DEF FtpUser, NotJson, Idle
  <2>4. (Arg(1) # "" => code = "230") /\ code \notin NeedsLogin
    BY DEF NeedsLogin
  <2> HIDE DEF new, code
  <2>5. ASSUME NEW id, LoggedIn(id) PROVE LoggedIn(id)'
    BY <2>1, <2>5 DEF LoggedIn
  <2>6. Arg(1) # "" => LoggedIn(server.at)'
    BY <2>1, <2>2, <2>3, <2>4 DEF LoggedIn
  <2>7. FlagIsEarned'
    BY <2>3, <2>5, <2>6 DEF LoginInv, FlagIsEarned
  <2>8. LoginIsPerConnection'
    <3>1. ASSUME NEW e \in log', e.answer.code \in NeedsLogin PROVE LoggedIn(e.conn)'
      BY <2>1, <2>2, <2>4, <2>5, <3>1 DEF LoginInv, LoginIsPerConnection, LoggedIn, NeedsLogin
    <3> QED BY <3>1 DEF LoginIsPerConnection, LoggedIn, NeedsLogin
  <2> QED BY <2>3, <2>7, <2>8 DEF LoginInv
\* The one handler that gives answers that need a login: it reads the flag.
<1>4. CASE FtpLine
  <2> DEFINE known == FtpOn /\ server.user /\ Arg(0) \in FtpVerbs
             answer == IF known THEN FtpAnswer
                       ELSE Refuse(IF FtpOn /\ ~server.user THEN "530" ELSE "BAD_REQUEST")
  <2>1. server.doing # "accept"
    BY <1>4 DEF FtpLine, NotJson
  <2>2. Replies(Refuse("221"), "close") \/ Replies(answer, "read")
    BY <1>4 DEF FtpLine
  <2>3. Refuse("221").code \notin NeedsLogin
    BY DEF Refuse, Answer, NeedsLogin
  <2>4. answer.code \in NeedsLogin => server.user
    BY DEF Refuse, Answer, NeedsLogin
  <2> HIDE DEF answer
  <2> QED BY <2>1, <2>2, <2>3, <2>4, ReplyStep
<1>5. CASE Notify
  <2>1. log' = log /\ server.doing = "route" /\ Sends(Notification, "handle")
    BY <1>5 DEF Notify
  <2> QED BY <2>1, AfterSend, QuietStep
<1>6. CASE HandlePlain
  <2>1. server.doing # "accept" /\ Replies(Plain(server.line), "read")
    BY <1>6 DEF HandlePlain, Handling
  <2>2. Plain(server.line).code \notin NeedsLogin
    BY <1>6, PlainCodes DEF HandlePlain
  <2> QED BY <2>1, <2>2, ReplyStep
<1>7. CASE HandleQuery
  <2>1. server.doing # "accept"
    BY <1>7 DEF HandleQuery, Handling
  <2>2. CASE Replies(Refuse("BAD_ARGUMENTS"), "read")
    <3>1. Refuse("BAD_ARGUMENTS").code \notin NeedsLogin
      BY DEF Refuse, Answer, NeedsLogin
    <3> QED BY <2>1, <2>2, <3>1, ReplyStep
  <2>3. ASSUME NEW docs,
               Replies(IF NativeTool(server.line) = "rag.docs.search"
                       THEN DocsSearch(server.line, docs)
                       ELSE CommandRecommend(server.line, docs), "read")
        PROVE  LoginInv'
    BY <2>1, <2>3, ToolCodes, ReplyStep
  <2> QED BY <1>7, <2>2, <2>3 DEF HandleQuery
<1>8. CASE HandleProxied
  <2>1. server.doing # "accept" /\ Replies(Answer("OK", {"agent"}), "read")
    BY <1>8 DEF HandleProxied, Handling
  <2>2. Answer("OK", {"agent"}).code \notin NeedsLogin
    BY DEF Answer, NeedsLogin
  <2> QED BY <2>1, <2>2, ReplyStep
<1>9. ASSUME NEW found, NEW count PROVE Deleted(found, count).code \notin NeedsLogin
  BY DEF Deleted, NeedsLogin
<1>10. CASE Scan
  <2> DEFINE plan == PlanOf(server.line)
  <2>1. server.doing # "accept"
    BY <1>10 DEF Scan, Handling
  <2>2. CASE Replies(Refuse(plan.code), "read")
    <3>1. plan.code \notin NeedsLogin
      BY PlanCodes DEF PlanOf
    <3>2. Refuse(plan.code).code \notin NeedsLogin
      BY <3>1 DEF Refuse, Answer
    <3> QED BY <2>1, <2>2, <3>2, ReplyStep
  <2>3. ASSUME NEW found, Replies(Deleted(found, 0), "read") PROVE LoginInv'
    BY <1>9, <2>1, <2>3, ReplyStep
  <2>4. ASSUME NEW found, NEW ages, log' = log,
               server' = [server EXCEPT !.doing = "unlink", !.todo = found, !.found = ages]
        PROVE  LoginInv'
    BY <2>1, <2>4, QuietStep DEF Idle
  <2> QED BY <1>10, <2>2, <2>3, <2>4 DEF Scan
<1>11. CASE Unlink
  <2>1. PICK f, n : server' = [server EXCEPT !.todo = @ \ {f}, !.gone = n]
    BY <1>11 DEF Unlink
  <2> QED BY <1>11, <2>1, QuietStep DEF Unlink, Idle
<1>12. CASE ReportDeleted
  BY <1>9, <1>12, ReplyStep DEF ReportDeleted
\* The flag stays with its connection while an answer goes out.
<1>13. CASE SendLine
  <2>1. log' = log /\ server.doing = "send"
    BY <1>13 DEF SendLine
  <2>2. CASE server' = [Session(server.at) EXCEPT !.user = server.user]
    <3>1. /\ DOMAIN server' = DOMAIN Idle /\ server'.user = server.user /\ server'.at = server.at
      BY <2>2 DEF Session, Idle
    <3> QED BY <2>1, <3>1, QuietStep
  <2>3. CASE server' = [server EXCEPT !.doing = "handle"]
    BY <2>1, <2>3, QuietStep DEF Idle
  <2>4. CASE server' = Close
    BY <2>1, <2>4, QuietStep DEF Close, Idle
  <2> QED BY <1>13, <2>2, <2>3, <2>4 DEF SendLine
<1>14. CASE SendFails \/ SendBreaksOff
  <2>1. log' = log /\ server' = Close
    BY <1>14 DEF SendFails, SendBreaksOff
  <2> QED BY <2>1, QuietStep DEF Close, Idle
<1> QED BY <1>1, <1>2, <1>3, <1>4, <1>5, <1>6, <1>7, <1>8, <1>10, <1>11, <1>12, <1>13, <1>14
        DEF ServerStep

\* A login holds for the connection it was given on: LoginInv is inductive.
\* (handle_ftp_style_command, the memset of session in main)
THEOREM LoginHolds == Spec => []LoginIsPerConnection
<1>1. Init => LoginInv
  BY LoginStart
<1>2. LoginInv /\ [Next]_vars => LoginInv'
  <2> SUFFICES ASSUME LoginInv, [Next]_vars PROVE LoginInv'
    OBVIOUS
  <2>1. ASSUME NEW c \in Clients, ClientStep(c) \/ HangUp(c) PROVE LoginInv'
    BY <2>1, ClientKeepsLogin
  <2>2. CASE ServerStep \/ SendBreaksOff
    BY <2>2, ServerKeepsLogin
  <2>3. CASE UNCHANGED <<server, log>>
    BY <2>3 DEF LoginInv, FlagIsEarned, LoggedIn, LoginIsPerConnection
  <2> QED BY <2>1, <2>2, <2>3 DEF Next, Edit, vars
<1>3. LoginInv => LoginIsPerConnection
  BY DEF LoginInv
<1> QED BY <1>1, <1>2, <1>3, PTL DEF Spec

-----------------------------------------------------------------------------
(* The answer a call gets.                                                 *)

Request(c) == script[c][1]
Entry(i, line, answer) == [conn |-> i, line |-> line, answer |-> answer]

\* An answer that call c may take for its own on connection i.
Fit(c, i, answer) ==
  \/ answer = Notification /\ Announces(Request(c))
  \/ Entry(i, Request(c), answer) \in log

\* What a call may hold as its success: a cut answer only if it is a long one.
Good(c, i, got) == Fit(c, i, got.answer) /\ (got.whole \/ Long(got.answer))

Shapes ==
  /\ script \in Scripts
  /\ DOMAIN call = Clients
  /\ \A c \in Clients : /\ DOMAIN call[c] = {"phase", "n", "at", "sent", "got", "ok"}
                        /\ call[c].n \in 1..Attempts[c]
  /\ DOMAIN wire = Connections
  /\ \A i \in Connections : DOMAIN wire[i] = {"text", "eof", "answers", "closed"}
  /\ queue \in Seq(Connections)
  /\ DOMAIN server = DOMAIN Idle
  /\ server.doing \in {"accept", "read", "send", "route", "handle", "unlink"}
  /\ server.doing # "accept" => server.at \in Connections

\* A call is at its only line, and reports success once it has an answer.
CallFits(c) ==
  /\ call[c].at = 1
  /\ call[c].phase \in {"start", "sending"} => call[c].sent = 0
  /\ call[c].ok => call[c].phase = "done" /\ Good(c, Conn(c), call[c].got)

\* A connection of a call carries its line, whole, or nothing; nothing before
\* the call sends it; and in return what the call may take, of which the first
\* is cut only if it is long.
WireFits(c, m) ==
  LET w == wire[<<c, m>>] IN
  /\ w.text # <<>> => w.text = Request(c) \o <<NewLine>> /\ Len(Request(c)) < LineMax
  /\ m > call[c].n \/ (m = call[c].n /\ call[c].phase \in {"start", "sending"}) => w.text = <<>>
  /\ w.answers \in Seq(Range(w.answers))
  /\ \A got \in Range(w.answers) : Fit(c, <<c, m>>, got.answer)
  /\ w.answers # <<>> => w.answers[1].whole \/ Long(w.answers[1].answer)

\* What the server works on is the line of the call it serves, and what it
\* sends is for that call.
Busy == server.doing \in {"send", "route", "handle", "unlink"}
Answers(line, i, answer) ==
  \/ Entry(i, line, answer) \in log
  \/ answer = Notification /\ Announces(line)
ServesLine ==
  /\ Busy /\ server.at[1] \in Calling => server.line = Request(server.at[1])
  /\ server.doing = "send" => Answers(server.line, server.at, server.reply)

CallInv ==
  /\ Shapes
  /\ \A c \in Calling : CallFits(c)
  /\ \A c \in Calling : \A m \in 1..Attempts[c] : WireFits(c, m)
  /\ ServesLine

LEMMA ConnectionPairs ==
  /\ \A i \in Connections : /\ i = <<i[1], i[2]>>
                            /\ i[1] \in Clients /\ i[2] \in 1..Attempts[i[1]]
  /\ \A c \in Clients : \A m \in 1..Attempts[c] : <<c, m>> \in Connections
BY DEF Connections

LEMMA MinIs ==
  ASSUME NEW S \in SUBSET Int, NEW x \in S, \A y \in S : x <= y
  PROVE  Min(S) = x
<1>1. \A z \in S : (\A y \in S : z <= y) <=> z = x
  OBVIOUS
<1> QED BY <1>1 DEF Min

\* Instances the prover does not find by itself.
LEMMA MinOfTwo ==
  ASSUME NEW a \in Int, NEW b \in Int, a <= b
  PROVE  Min({a, b}) = a /\ Min({b, a}) = a
<1>1. {a, b} \in SUBSET Int /\ {b, a} = {a, b} /\ a \in {a, b} /\ \A y \in {a, b} : a <= y
  OBVIOUS
<1> QED BY <1>1, MinIs

LEMMA AppendRange ==
  ASSUME NEW s, s \in Seq(Range(s)), NEW a
  PROVE  /\ Append(s, a) \in Seq(Range(Append(s, a)))
         /\ Range(Append(s, a)) = Range(s) \cup {a}
<1>1. /\ Len(s) \in Nat /\ DOMAIN s = 1..Len(s)
      /\ s \in Seq(Range(s) \cup {a})
  BY DEF Range
<1>2. /\ Append(s, a) \in Seq(Range(s) \cup {a})
      /\ Len(Append(s, a)) = Len(s) + 1
      /\ \A i \in 1..Len(s) : Append(s, a)[i] = s[i]
      /\ Append(s, a)[Len(s) + 1] = a
  BY <1>1
<1>3. DOMAIN Append(s, a) = 1..(Len(s) + 1)
  BY <1>1, <1>2
<1>4. Range(Append(s, a)) = Range(s) \cup {a}
  BY <1>1, <1>2, <1>3 DEF Range
<1> QED BY <1>2, <1>4

\* recv_line on a text that is one line and its newline.
LEMMA ReadsWholeLine ==
  ASSUME NEW line, line \in Seq(Range(line)), NewLine \notin Range(line), Len(line) < LineMax,
         Here.text = line \o <<NewLine>>
  PROVE  /\ LineSize = Len(line)
         /\ SubSeq(Here.text, 1, LineSize) = line
         /\ SubSeq(Here.text, Consumed + 1, Len(Here.text)) = <<>>
<1> DEFINE text == line \o <<NewLine>>
           T == Range(line) \cup {NewLine}
<1>1. LineMax \in Nat \ {0}
  BY Limits
<1>2. line \in Seq(T) /\ <<NewLine>> \in Seq(T) /\ Len(line) \in Nat
  OBVIOUS
<1>3. /\ text \in Seq(T) /\ Len(text) = Len(line) + 1
      /\ \A i \in 1..Len(line) : text[i] = line[i]
      /\ text[Len(line) + 1] = NewLine
  BY <1>2, ConcatProperties
<1>4. \A i \in 1..Len(line) : line[i] # NewLine
  BY <1>2 DEF Range
<1>5. {i \in DOMAIN text : text[i] = NewLine} = {Len(line) + 1}
  <2>1. DOMAIN text = 1..(Len(line) + 1)
    BY <1>2, <1>3
  <2> QED BY <1>2, <1>3, <1>4, <2>1
<1>6. NewLineAt = Len(line) + 1
  <2>1. NewLineAt = Min({Len(line) + 1} \cup {Len(text) + 1})
    BY <1>5 DEF NewLineAt
  <2>2. {Len(line) + 1} \cup {Len(text) + 1} = {Len(line) + 1, Len(line) + 2}
    BY <1>2, <1>3
  <2> QED BY <1>2, <2>1, <2>2, MinOfTwo
<1>7. LineSize = Len(line)
  <2>1. LineSize = Min({Len(line), LineMax})
    BY <1>2, <1>6 DEF LineSize
  <2> QED BY <1>1, <1>2, <2>1, MinOfTwo
<1>8. Consumed = Len(line) + 1
  <2>1. Consumed = Min({Len(line) + 1, Len(line) + 1})
    BY <1>1, <1>2, <1>3, <1>6 DEF Consumed
  <2> QED BY <1>2, <2>1, MinOfTwo
<1>9. SubSeq(text, 1, Len(line)) = line
  BY <1>2, <1>3, SubSeqProperties, SeqEqual
<1>10. SubSeq(text, Len(line) + 2, Len(line) + 1) = <<>>
  BY <1>2, <1>3, SubSeqProperties
<1> QED BY <1>3, <1>7, <1>8, <1>9, <1>10

\* And on no text at all.
LEMMA ReadsNothing == ASSUME Here.text = <<>> PROVE LineSize = 0
<1>1. NewLineAt = Min({1, 1})
  <2>1. {i \in DOMAIN Here.text : Here.text[i] = NewLine} = {} /\ Len(Here.text) = 0
    OBVIOUS
  <2>2. {} \cup {Len(Here.text) + 1} = {1, 1}
    BY <2>1
  <2> QED BY <2>1, <2>2 DEF NewLineAt
<1>2. NewLineAt = 1
  BY <1>1, MinOfTwo
<1>3. LineSize = Min({0, LineMax})
  BY <1>2 DEF LineSize
<1> QED BY <1>3, Limits, MinOfTwo

LEMMA CallsStart == ASSUME OneLineCalls, Init PROVE CallInv
<1>1. Shapes
  <2>1. \A c \in Clients : DOMAIN call[c] = {"phase", "n", "at", "sent", "got", "ok"} /\ call[c].n = 1
    BY DEF Init
  <2>2. \A i \in Connections : DOMAIN wire[i] = {"text", "eof", "answers", "closed"}
    BY DEF Init
  <2> QED BY <2>1, <2>2 DEF Init, Shapes, Idle, OneLineCalls
<1>2. ASSUME NEW c \in Calling PROVE CallFits(c)
  BY DEF Init, CallFits, Calling
<1>3. ASSUME NEW c \in Calling, NEW m \in 1..Attempts[c] PROVE WireFits(c, m)
  <2>1. wire[<<c, m>>] = [text |-> <<>>, eof |-> FALSE, answers |-> <<>>, closed |-> FALSE]
    BY ConnectionPairs DEF Init, Calling
  <2>2. <<>> \in Seq(Range(<<>>)) /\ Range(<<>>) = {}
    BY DEF Range
  <2> QED BY <2>1, <2>2 DEF WireFits
<1>4. ServesLine
  BY DEF Init, Idle, ServesLine, Busy
<1> QED BY <1>1, <1>2, <1>3, <1>4 DEF CallInv

\* The log grows, and the scripts stay: an answer that fits goes on fitting.
LEMMA FitStays ==
  ASSUME script' = script, log \subseteq log'
  PROVE  /\ \A c, i, answer : Fit(c, i, answer) => Fit(c, i, answer)'
         /\ \A c, i, got : Good(c, i, got) => Good(c, i, got)'
         /\ \A line, i, answer : Answers(line, i, answer) => Answers(line, i, answer)'
<1>1. \A c, i, answer : Fit(c, i, answer) => Fit(c, i, answer)'
  BY DEF Fit, Request, Entry
<1>2. \A line, i, answer : Answers(line, i, answer) => Answers(line, i, answer)'
  BY DEF Answers, Entry
<1> QED BY <1>1, <1>2 DEF Good

\* One client's call goes on; the connections keep their texts and answers.
LEMMA CallStep ==
  ASSUME CallInv, NEW c \in Clients, NEW next, call' = [call EXCEPT ![c] = next],
         DOMAIN next = {"phase", "n", "at", "sent", "got", "ok"}, next.n \in 1..Attempts[c],
         UNCHANGED <<script, server, log>>,
         queue' \in Seq(Connections), DOMAIN wire' = Connections,
         \A i \in Connections : /\ DOMAIN wire'[i] = DOMAIN wire[i]
                                /\ wire'[i].answers = wire[i].answers
                                /\ wire'[i].text = wire[i].text,
         c \in Calling =>
            /\ next.at = 1
            /\ next.phase \in {"start", "sending"} => next.sent = 0
            /\ next.ok => next.phase = "done" /\ next.n = call[c].n /\ Good(c, Conn(c), next.got)
            /\ next.n >= call[c].n
            /\ next.n = call[c].n /\ next.phase \in {"start", "sending"} =>
                  call[c].phase \in {"start", "sending"}
  PROVE  CallInv'
<1>1. /\ call'[c] = next /\ \A d \in Clients : d # c => call'[d] = call[d]
      /\ DOMAIN call' = Clients
  BY DEF CallInv, Shapes
<1>2. Shapes'
  <2>1. \A d \in Clients : /\ DOMAIN call'[d] = {"phase", "n", "at", "sent", "got", "ok"}
                           /\ call'[d].n \in 1..Attempts[d]
    BY <1>1 DEF CallInv, Shapes
  <2> QED BY <1>1, <2>1 DEF CallInv, Shapes
<1>3. /\ \A d, i, answer : Fit(d, i, answer) => Fit(d, i, answer)'
      /\ \A d, i, got : Good(d, i, got) => Good(d, i, got)'
  BY FitStays
<1>4. ASSUME NEW d \in Calling PROVE CallFits(d)'
  <2>1. CASE d # c
    BY <1>1, <1>3, <2>1 DEF CallInv, CallFits, Conn, Calling
  <2>2. CASE d = c
    <3>1. Conn(c)' = <<c, next.n>>
      BY <1>1 DEF Conn
    <3>2. next.ok => Good(c, <<c, next.n>>, next.got)'
      BY <1>3, <1>4, <2>2 DEF Conn
    <3> QED BY <1>1, <1>4, <2>2, <3>1, <3>2 DEF CallFits, Conn
  <2> QED BY <2>1, <2>2
<1>5. ASSUME NEW d \in Calling, NEW m \in 1..Attempts[d] PROVE WireFits(d, m)'
  <2>1. /\ wire'[<<d, m>>].answers = wire[<<d, m>>].answers
        /\ wire'[<<d, m>>].text = wire[<<d, m>>].text
    BY <1>5, ConnectionPairs DEF Calling
  <2>2. WireFits(d, m) /\ m \in Int /\ call[d].n \in Int /\ call'[d].n \in Int
    <3>1. call[d].n \in 1..Attempts[d] /\ call'[d].n \in 1..Attempts[d]
      BY <1>2, <1>5 DEF CallInv, Shapes, Calling
    <3> QED BY <1>5, <3>1 DEF CallInv
  <2>3. /\ m > call'[d].n \/ (m = call'[d].n /\ call'[d].phase \in {"start", "sending"})
        => m > call[d].n \/ (m = call[d].n /\ call[d].phase \in {"start", "sending"})
    BY <1>1, <1>5, <2>2 DEF Calling
  <2> QED BY <1>3, <2>1, <2>2, <2>3 DEF WireFits, Request
<1>6. ServesLine'
  BY DEF CallInv, ServesLine, Request, Busy, Answers
<1> QED BY <1>2, <1>4, <1>5, <1>6 DEF CallInv

\* rpc sends its line in one piece; what a session sends is its own affair.
LEMMA SendStep ==
  ASSUME OneLineCalls, CallInv, NEW c \in Clients, Send(c)
  PROVE  CallInv'
<1>1. PICK k \in Amounts(c) :
        /\ wire' = [wire EXCEPT ![Conn(c)].text = @ \o SubSeq(Line(c), call[c].sent + 1, k)
                       \o (IF k = Len(Line(c)) THEN <<NewLine>> ELSE <<>>)]
        /\ call' = [call EXCEPT ![c].sent = k,
              ![c].phase = IF (IF k = Len(Line(c)) THEN <<NewLine>> ELSE <<>>) = <<>>
                           THEN "sending" ELSE "waiting"]
  BY DEF Send
<1>2. Conn(c) \in Connections /\ Conn(c) = <<c, call[c].n>>
  BY ConnectionPairs DEF CallInv, Shapes, Conn
<1>3. /\ DOMAIN wire' = Connections
      /\ \A i \in Connections : /\ DOMAIN wire'[i] = DOMAIN wire[i]
                                /\ wire'[i].answers = wire[i].answers
                                /\ i # Conn(c) => wire'[i] = wire[i]
      /\ wire'[Conn(c)].text = wire[Conn(c)].text \o SubSeq(Line(c), call[c].sent + 1, k)
                                  \o (IF k = Len(Line(c)) THEN <<NewLine>> ELSE <<>>)
  BY <1>1, <1>2 DEF CallInv, Shapes
<1>4. /\ DOMAIN call' = Clients
      /\ \A d \in Clients : /\ DOMAIN call'[d] = DOMAIN call[d]
                            /\ call'[d].n = call[d].n /\ call'[d].at = call[d].at
                            /\ call'[d].ok = call[d].ok /\ call'[d].got = call[d].got
                            /\ d # c => call'[d] = call[d]
      /\ k = Len(Line(c)) => call'[c].phase = "waiting"
  BY <1>1 DEF CallInv, Shapes
<1>5. UNCHANGED <<script, queue, server, log>> /\ call[c].phase = "sending" /\ HasLine(c)
  BY DEF Send
<1>6. Shapes'
  BY <1>3, <1>4, <1>5 DEF CallInv, Shapes
<1>7. /\ \A d, i, answer : Fit(d, i, answer) => Fit(d, i, answer)'
      /\ \A d, i, got : Good(d, i, got) => Good(d, i, got)'
  BY <1>5, FitStays
<1>8. ASSUME c \in Calling
      PROVE  /\ k = Len(Line(c)) /\ Len(Request(c)) < LineMax
             /\ wire'[Conn(c)].text = Request(c) \o <<NewLine>>
  <2>1. k = Len(Line(c)) /\ Line(c) = Request(c) /\ call[c].sent = 0
    BY <1>5, <1>8 DEF Amounts, Calling, CallInv, CallFits, Line, Request
  <2>2. Request(c) \in Seq(Range(Request(c)))
    BY <1>8 DEF OneLineCalls, CallInv, Shapes, Request
  <2>3. wire[Conn(c)].text = <<>>
    <3>1. WireFits(c, call[c].n)
      BY <1>8 DEF CallInv, Shapes, Calling
    <3> QED BY <1>2, <1>5, <3>1 DEF WireFits
  <2>4. SubSeq(Request(c), 1, Len(Request(c))) = Request(c)
    BY <2>2, SubSeqFull
  <2>5. <<>> \o Request(c) = Request(c)
    BY <2>2, ConcatEmptySeq
  <2>6. call[c].sent + 1 = 1
    BY <2>1
  <2>7. SubSeq(Line(c), call[c].sent + 1, k) = Request(c)
    BY <2>1, <2>4, <2>6
  <2>8. wire'[Conn(c)].text = <<>> \o Request(c) \o <<NewLine>>
    BY <1>3, <2>1, <2>3, <2>7
  <2>9. Len(Request(c)) < LineMax
    <3>1. ~(Len(Request(c)) + 1 >= RpcMax)
      BY <1>8, <2>1 DEF Send, TooLong, Calling
    <3>2. Len(Request(c)) \in Nat /\ RpcMax \in Nat /\ LineMax \in Nat /\ RpcMax <= LineMax
      BY <2>2, Limits DEF OneLineCalls
    <3> QED BY <3>1, <3>2
  <2> QED BY <2>1, <2>5, <2>8, <2>9
<1>9. ASSUME NEW d \in Calling PROVE CallFits(d)'
  <2>1. CallFits(d) /\ d \in Clients
    BY <1>9 DEF CallInv, Calling
  <2>2. CASE d # c
    BY <1>4, <1>7, <2>1, <2>2 DEF CallFits, Conn
  <2>3. CASE d = c
    BY <1>4, <1>5, <1>7, <1>8, <1>9, <2>1, <2>3 DEF CallFits, Conn
  <2> QED BY <2>2, <2>3
<1>10. ASSUME NEW d \in Calling, NEW m \in 1..Attempts[d] PROVE WireFits(d, m)'
  <2>1. WireFits(d, m) /\ <<d, m>> \in Connections /\ d \in Clients
    BY <1>10, ConnectionPairs DEF CallInv, Calling
  <2>2. wire'[<<d, m>>].answers = wire[<<d, m>>].answers
    BY <1>3, <2>1
  <2>3. CASE <<d, m>> # Conn(c)
    <3>1. wire'[<<d, m>>] = wire[<<d, m>>]
      BY <1>3, <2>1, <2>3
    <3>2. \/ d # c /\ call'[d] = call[d]
          \/ d = c /\ m # call[c].n /\ call'[c].n = call[c].n
      BY <1>2, <1>4, <2>1, <2>3
    <3> QED BY <1>5, <1>7, <2>1, <3>1, <3>2 DEF WireFits, Request
  <2>4. CASE <<d, m>> = Conn(c)
    <3>1. d = c /\ m = call[c].n
      BY <1>2, <2>4
    <3>2. call'[c].phase = "waiting" /\ call'[c].n = call[c].n
      BY <1>4, <1>8, <1>10, <3>1
    <3>3. call[c].n \in Int
      BY DEF CallInv, Shapes
    <3>4. ~(m > call'[c].n)
      BY <3>1, <3>2, <3>3
    <3>5. wire'[<<d, m>>].text = Request(d)' \o <<NewLine>> /\ Len(Request(d)') < LineMax
      BY <1>5, <1>8, <1>10, <2>4, <3>1 DEF Request
    <3> QED BY <1>7, <2>1, <2>2, <3>1, <3>2, <3>4, <3>5 DEF WireFits
  <2> QED BY <2>3, <2>4
<1>11. ServesLine'
  BY <1>5 DEF CallInv, ServesLine, Request, Busy, Answers
<1> QED BY <1>6, <1>9, <1>10, <1>11 DEF CallInv

LEMMA ClientKeepsCalls ==
  ASSUME OneLineCalls, CallInv, NEW c \in Clients, ClientStep(c) \/ HangUp(c)
  PROVE  CallInv'
<1>1. /\ Conn(c) \in Connections /\ Conn(c) = <<c, call[c].n>> /\ call[c].n \in 1..Attempts[c]
      /\ Attempts[c] \in Nat \ {0}
  BY ConnectionPairs DEF CallInv, Shapes, Conn, OneLineCalls
<1>2. /\ DOMAIN call = Clients
      /\ DOMAIN call[c] = {"phase", "n", "at", "sent", "got", "ok"}
      /\ DOMAIN wire = Connections
      /\ \A i \in Connections : DOMAIN wire[i] = {"text", "eof", "answers", "closed"}
      /\ queue \in Seq(Connections)
  BY DEF CallInv, Shapes
<1>3. c \in Calling => /\ call[c].at = 1
                       /\ call[c].phase \in {"start", "sending"} => call[c].sent = 0
                       /\ call[c].ok => call[c].phase = "done"
  BY DEF CallInv, CallFits
\* A failed attempt starts over on a connection of its own, or ends the call.
<1>4. ASSUME call[c].phase # "done"
      PROVE  /\ DOMAIN Failed(c) = {"phase", "n", "at", "sent", "got", "ok"}
             /\ Failed(c).n \in 1..Attempts[c] /\ Failed(c).n >= call[c].n
             /\ c \in Calling => /\ Failed(c).at = 1 /\ ~Failed(c).ok
                                 /\ Failed(c).phase \in {"start", "sending"} =>
                                       Failed(c).sent = 0 /\ Failed(c).n # call[c].n
  <2>1. CASE call[c].n < Attempts[c]
    <3>1. Failed(c) = [call[c] EXCEPT !.phase = "start", !.n = call[c].n + 1, !.at = 1, !.sent = 0]
      BY <2>1 DEF Failed
    <3> QED BY <1>1, <1>2, <1>3, <1>4, <2>1, <3>1
  <2>2. CASE ~(call[c].n < Attempts[c])
    <3>1. Failed(c) = [call[c] EXCEPT !.phase = "done"]
      BY <2>2 DEF Failed
    <3> QED BY <1>1, <1>2, <1>3, <1>4, <3>1
  <2> QED BY <2>1, <2>2
<1>5. ASSUME NEW next, Leaves(c, next)
      PROVE  /\ call' = [call EXCEPT ![c] = next] /\ UNCHANGED <<script, server, log, queue>>
             /\ DOMAIN wire' = Connections
             /\ \A i \in Connections : /\ DOMAIN wire'[i] = DOMAIN wire[i]
                                       /\ wire'[i].answers = wire[i].answers
                                       /\ wire'[i].text = wire[i].text
  BY <1>1, <1>2, <1>5 DEF Leaves
<1>6. CASE Connect(c)
  <2> DEFINE next == [call[c] EXCEPT !.phase = "sending"]
  <2>1. /\ call' = [call EXCEPT ![c] = next] /\ queue' = Append(queue, Conn(c))
        /\ UNCHANGED <<script, wire, server, log>> /\ call[c].phase = "start"
    BY <1>2, <1>6 DEF Connect
  <2>2. /\ DOMAIN next = DOMAIN call[c] /\ next.n = call[c].n /\ next.at = call[c].at
        /\ next.sent = call[c].sent /\ next.ok = call[c].ok
    BY <1>2
  <2>3. queue' \in Seq(Connections)
    BY <1>1, <1>2, <2>1
  <2>4. call[c].n >= call[c].n
    BY <1>1
  <2> HIDE DEF next
  <2> QED BY <1>1, <1>2, <1>3, <2>1, <2>2, <2>3, <2>4, CallStep
<1>7. CASE ConnectTimesOut(c)
  <2>1. /\ call' = [call EXCEPT ![c] = Failed(c)] /\ call[c].phase = "start"
        /\ UNCHANGED <<script, wire, server, log, queue>>
    BY <1>7 DEF ConnectTimesOut
  <2> QED BY <1>2, <1>4, <2>1, CallStep
<1>8. ASSUME Leaves(c, Failed(c)), call[c].phase # "done" PROVE CallInv'
  BY <1>2, <1>4, <1>5, <1>8, CallStep
\* What a call takes is for its line, and cut only if it is long.
<1>9. ASSUME NEW got, c \notin Patient, Leaves(c, Received(c, got)), Good(c, Conn(c), got)
      PROVE  CallInv'
  <2> DEFINE next == Received(c, got)
  <2>1. /\ DOMAIN next = DOMAIN call[c] /\ next.n = call[c].n /\ next.at = call[c].at
        /\ next.phase = "done" /\ next.got = got
    BY <1>2 DEF Received
  <2>2. call[c].n >= call[c].n
    BY <1>1
  <2> HIDE DEF next
  <2>3. Leaves(c, next)
    BY <1>9 DEF next
  <2>4. Good(c, Conn(c), next.got)
    BY <1>9, <2>1
  <2>5. /\ call' = [call EXCEPT ![c] = next] /\ UNCHANGED <<script, server, log, queue>>
        /\ DOMAIN wire' = Connections
        /\ \A i \in Connections : /\ DOMAIN wire'[i] = DOMAIN wire[i]
                                  /\ wire'[i].answers = wire[i].answers
                                  /\ wire'[i].text = wire[i].text
    BY <1>5, <2>3
  <2>6. /\ DOMAIN next = {"phase", "n", "at", "sent", "got", "ok"} /\ next.n \in 1..Attempts[c]
        /\ queue' \in Seq(Connections) /\ next.phase \notin {"start", "sending"}
        /\ c \in Calling => next.at = 1
    BY <1>1, <1>2, <1>3, <2>1, <2>5
  <2> QED BY <2>1, <2>2, <2>4, <2>5, <2>6, CallStep
<1>12. CASE Receive(c)
  <2>1. PICK got \in Kept(Head(wire[Conn(c)].answers)) :
          /\ c \notin Patient /\ wire[Conn(c)].answers # <<>> /\ Leaves(c, Received(c, got))
    BY <1>12 DEF Receive
  <2> DEFINE first == Head(wire[Conn(c)].answers)
  <2>2. WireFits(c, call[c].n)
    BY <1>1, <2>1 DEF CallInv, Calling
  <2>3. /\ wire[Conn(c)].answers \in Seq(Range(wire[Conn(c)].answers))
        /\ \A g \in Range(wire[Conn(c)].answers) : Fit(c, Conn(c), g.answer)
        /\ wire[Conn(c)].answers[1].whole \/ Long(wire[Conn(c)].answers[1].answer)
    BY <1>1, <2>1, <2>2 DEF WireFits
  <2>4. first \in Range(wire[Conn(c)].answers) /\ first = wire[Conn(c)].answers[1]
    BY <2>1, <2>3, HeadTailProperties
  <2>5. Fit(c, Conn(c), first.answer) /\ (first.whole \/ Long(first.answer))
    BY <2>3, <2>4
  <2> HIDE DEF first
  <2>6. got = first \/ (got = Part(first.answer) /\ Long(first.answer))
    BY <2>1 DEF Kept, first
  <2>7. Good(c, Conn(c), got)
    BY <2>5, <2>6 DEF Good, Part
  <2> QED BY <1>9, <2>1, <2>7
<1>13. CASE ReceivePart(c)
  <2>1. /\ c \in Calling /\ c \notin Patient /\ server.at = Conn(c) /\ server.doing = "send"
        /\ Long(server.reply) /\ Leaves(c, Received(c, Part(server.reply)))
    BY <1>13 DEF ReceivePart, Calling
  <2>2. server.line = Request(c) /\ Answers(server.line, Conn(c), server.reply)
    BY <1>1, <2>1 DEF CallInv, ServesLine, Busy
  <2>3. Good(c, Conn(c), Part(server.reply))
    BY <2>1, <2>2 DEF Good, Part, Fit, Answers
  <2> QED BY <1>9, <2>1, <2>3
\* Only a session has more lines to send, or reads answers one by one.
<1>14. CASE SendsOn(c) \/ Reads(c)
  <2>1. /\ c \notin Calling /\ UNCHANGED <<script, queue, server, log>>
        /\ \/ /\ call' = [call EXCEPT ![c].at = @ + 1, ![c].sent = 0, ![c].phase = "sending"]
              /\ wire' = wire
           \/ call' = call /\ wire' = [wire EXCEPT ![Conn(c)].answers = Tail(@)]
    BY <1>14 DEF SendsOn, Reads, Calling, clientVars
  <2>2. /\ DOMAIN call' = Clients /\ \A d \in Clients : d # c => call'[d] = call[d]
        /\ DOMAIN call'[c] = DOMAIN call[c] /\ call'[c].n = call[c].n
        /\ DOMAIN wire' = Connections
        /\ \A i \in Connections : DOMAIN wire'[i] = DOMAIN wire[i]
        /\ \A i \in Connections : i # Conn(c) => wire'[i] = wire[i]
    BY <1>1, <1>2, <2>1
  <2>3. Shapes'
    <3>1. \A d \in Clients : /\ DOMAIN call'[d] = {"phase", "n", "at", "sent", "got", "ok"}
                             /\ call'[d].n \in 1..Attempts[d]
      BY <2>2 DEF CallInv, Shapes
    <3> QED BY <2>1, <2>2, <3>1 DEF CallInv, Shapes
  <2>4. /\ \A d, i, answer : Fit(d, i, answer) => Fit(d, i, answer)'
        /\ \A d, i, got : Good(d, i, got) => Good(d, i, got)'
    BY <2>1, FitStays
  <2>5. ASSUME NEW d \in Calling PROVE CallFits(d)'
    BY <2>1, <2>2, <2>4, <2>5 DEF CallInv, CallFits, Conn, Calling
  <2>6. ASSUME NEW d \in Calling, NEW m \in 1..Attempts[d] PROVE WireFits(d, m)'
    <3>1. <<d, m>> \in Connections /\ <<d, m>> # Conn(c) /\ d # c /\ d \in Clients
      BY <1>1, <2>1, <2>6, ConnectionPairs DEF Calling
    <3>2. wire'[<<d, m>>] = wire[<<d, m>>] /\ call'[d] = call[d]
      BY <2>2, <3>1
    <3> QED BY <2>1, <2>4, <2>6, <3>2 DEF CallInv, WireFits, Request
  <2>7. ServesLine'
    BY <2>1 DEF CallInv, ServesLine, Request, Busy, Answers
  <2> QED BY <2>3, <2>5, <2>6, <2>7 DEF CallInv
<1>10. CASE SendRefused(c) \/ ReceiveEnd(c) \/ ReceiveTimesOut(c)
  BY <1>8, <1>10 DEF SendRefused, ReceiveEnd, ReceiveTimesOut, NoLine
<1>11. CASE HangUp(c)
  <2> DEFINE next == [call[c] EXCEPT !.phase = "done"]
  <2>1. Leaves(c, next) /\ c \notin Calling
    BY <1>11 DEF HangUp, Calling
  <2>2. DOMAIN next = DOMAIN call[c] /\ next.n = call[c].n
    BY <1>2
  <2> HIDE DEF next
  <2> QED BY <1>1, <1>2, <1>5, <2>1, <2>2, CallStep
<1> QED BY <1>6, <1>7, <1>10, <1>11, <1>12, <1>13, <1>14, SendStep DEF ClientStep

-----------------------------------------------------------------------------
(* The server's side.                                                      *)

\* The server works on, closes or finishes a line: no text changes, and at
\* most the answer it sends is added to the connection it serves.
LEMMA AnswerStep ==
  ASSUME CallInv, Busy,
         UNCHANGED <<script, call, queue>>, log \subseteq log',
         DOMAIN server' = DOMAIN Idle,
         \/ server'.doing \in {"accept", "read"}
         \/ server'.doing \in {"send", "handle", "unlink"} /\ server'.line = server.line,
         (server.doing = "send" => Answers(server.line, server.at, server.reply))',
         server'.doing # "accept" => server'.at = server.at,
         DOMAIN wire' = Connections,
         \A i \in Connections : /\ DOMAIN wire'[i] = DOMAIN wire[i]
                                /\ wire'[i].text = wire[i].text
                                /\ i # server.at => wire'[i].answers = wire[i].answers,
         \/ wire'[server.at].answers = wire[server.at].answers
         \/ \E got : /\ wire'[server.at].answers = Append(wire[server.at].answers, got)
                     /\ server.doing = "send" /\ got.answer = server.reply
                     /\ got.whole \/ Long(got.answer) \/ ~HasRoom
  PROVE  CallInv'
<1>1. Shapes'
  BY DEF CallInv, Shapes, Busy
<1>2. /\ \A c, i, answer : Fit(c, i, answer) => Fit(c, i, answer)'
      /\ \A c, i, got : Good(c, i, got) => Good(c, i, got)'
  BY FitStays
<1>3. ASSUME NEW c \in Calling PROVE CallFits(c)'
  BY <1>2, <1>3 DEF CallInv, CallFits, Conn
<1>4. ASSUME NEW c \in Calling, NEW m \in 1..Attempts[c] PROVE WireFits(c, m)'
  <2>1. WireFits(c, m) /\ <<c, m>> \in Connections
    BY <1>4, ConnectionPairs DEF CallInv, Calling
  <2>2. CASE wire'[<<c, m>>].answers = wire[<<c, m>>].answers
    BY <1>2, <2>1, <2>2 DEF WireFits, Request
  <2>3. ASSUME <<c, m>> = server.at, NEW got,
               wire'[server.at].answers = Append(wire[server.at].answers, got),
               server.doing = "send", got.answer = server.reply,
               got.whole \/ Long(got.answer) \/ ~HasRoom
        PROVE  WireFits(c, m)'
    <3> DEFINE old == wire[<<c, m>>].answers
               new == wire'[<<c, m>>].answers
    <3>1. server.line = Request(c) /\ Request(c)' = Request(c)
      BY <1>4, <2>3 DEF CallInv, ServesLine, Busy, Request
    <3>2. Fit(c, <<c, m>>, got.answer)'
      <4>1. Answers(server.line, server.at, server.reply)
        BY <2>3 DEF CallInv, ServesLine
      <4>2. Fit(c, <<c, m>>, got.answer)
        BY <2>3, <3>1, <4>1 DEF Fit, Answers
      <4> QED BY <1>2, <4>2
    <3>3. old \in Seq(Range(old))
      BY <2>1 DEF WireFits
    <3>4. new = Append(old, got)
      BY <2>3
    <3>5. HasRoom <=> Len(old) < Room
      BY <2>3 DEF HasRoom, Here
    <3>6. /\ \A g \in Range(old) : Fit(c, <<c, m>>, g.answer)'
          /\ old # <<>> => old[1].whole \/ Long(old[1].answer)
      BY <1>2, <2>1 DEF WireFits
    <3>7. WireFits(c, m)' <=>
            /\ new \in Seq(Range(new)) /\ \A g \in Range(new) : Fit(c, <<c, m>>, g.answer)'
            /\ new # <<>> => new[1].whole \/ Long(new[1].answer)
      BY <2>1, <3>1 DEF WireFits
    <3> HIDE DEF old, new
    <3>8. new \in Seq(Range(new)) /\ Range(new) = Range(old) \cup {got}
      BY <3>3, <3>4, AppendRange
    <3>9. CASE old = <<>>
      <4>1. new[1] = got
        BY <3>4, <3>9
      <4>2. HasRoom
        BY <3>5, <3>9, Limits
      <4> QED BY <2>3, <3>2, <3>6, <3>7, <3>8, <4>1, <4>2
    <3>10. CASE old # <<>>
      <4>1. new[1] = old[1]
        BY <3>3, <3>4, <3>10
      <4> QED BY <3>2, <3>6, <3>7, <3>8, <3>10, <4>1
    <3> QED BY <3>9, <3>10
  <2>4. CASE <<c, m>> # server.at
    BY <2>1, <2>2, <2>4
  <2>5. CASE <<c, m>> = server.at
    <3>1. CASE wire'[server.at].answers = wire[server.at].answers
      BY <2>2, <2>5, <3>1
    <3>2. CASE wire'[server.at].answers # wire[server.at].answers
      <4>1. PICK got : /\ wire'[server.at].answers = Append(wire[server.at].answers, got)
                       /\ server.doing = "send" /\ got.answer = server.reply
                       /\ got.whole \/ Long(got.answer) \/ ~HasRoom
        BY <3>2
      <4> QED BY <2>3, <2>5, <4>1
    <3> QED BY <3>1, <3>2
  <2> QED BY <2>4, <2>5
<1>5. ServesLine'
  BY DEF CallInv, ServesLine, Busy, Request
<1> QED BY <1>1, <1>3, <1>4, <1>5 DEF CallInv

\* A handler hands its answer to send and leaves the connections alone.
LEMMA SendsStep ==
  ASSUME CallInv, Busy, UNCHANGED <<script, call, queue, wire>>, log \subseteq log',
         Answers(server.line, server.at, server.reply)', DOMAIN server' = DOMAIN Idle,
         server'.doing = "send", server'.line = server.line, server'.at = server.at
  PROVE  CallInv'
<1>1. DOMAIN wire = Connections
  BY DEF CallInv, Shapes
<1>2. \A i \in Connections : /\ DOMAIN wire'[i] = DOMAIN wire[i]
                             /\ wire'[i].text = wire[i].text
                             /\ wire'[i].answers = wire[i].answers
  OBVIOUS
<1>3. wire'[server.at].answers = wire[server.at].answers
  OBVIOUS
<1> QED BY <1>1, <1>2, <1>3, AnswerStep

LEMMA RepliesStep ==
  ASSUME CallInv, Busy, NEW answer, NEW then,
         Replies(answer, then), UNCHANGED <<clientVars, wire, queue>>
  PROVE  CallInv'
<1>1. log \subseteq log' /\ Entry(server.at, server.line, answer) \in log'
  BY DEF Replies, Entry
<1>2. DOMAIN server = DOMAIN Idle
  BY DEF CallInv, Shapes
<1>3. /\ DOMAIN server' = DOMAIN Idle /\ server'.doing = "send" /\ server'.line = server.line
      /\ server'.at = server.at /\ server'.reply = answer
  BY <1>2 DEF Replies, Sends, Idle
<1>4. Answers(server.line, server.at, server.reply)'
  BY <1>1, <1>3 DEF Answers, Entry
<1> QED BY <1>1, <1>3, <1>4, SendsStep DEF clientVars

\* The answer goes out, or the connection ends.
LEMMA SendingStep ==
  ASSUME CallInv, SendLine \/ SendFails \/ SendBreaksOff
  PROVE  CallInv'
<1>1. /\ DOMAIN server = DOMAIN Idle /\ DOMAIN wire = Connections /\ server.at \in Connections
      /\ \A i \in Connections : DOMAIN wire[i] = {"text", "eof", "answers", "closed"}
      /\ server.doing = "send" /\ Busy /\ UNCHANGED <<script, call, queue, log>>
  BY DEF CallInv, Shapes, SendLine, SendFails, SendBreaksOff, Busy, clientVars
<1>2. ASSUME NEW got, NEW closed,
             wire' = [wire EXCEPT ![server.at].answers = Append(@, got), ![server.at].closed = closed]
      PROVE  /\ DOMAIN wire' = Connections
             /\ \A i \in Connections : /\ DOMAIN wire'[i] = DOMAIN wire[i]
                                       /\ wire'[i].text = wire[i].text
                                       /\ i # server.at => wire'[i].answers = wire[i].answers
             /\ wire'[server.at].answers = Append(wire[server.at].answers, got)
  BY <1>1, <1>2
<1>3. Close.doing = "accept" /\ DOMAIN Close = DOMAIN Idle
  BY DEF Close, Idle
<1>4. CASE SendLine
  <2>1. wire' = [wire EXCEPT ![server.at].answers = Append(@, All(server.reply)),
                             ![server.at].closed = server.then = "close"]
    BY <1>4 DEF SendLine
  <2>2. All(server.reply).whole /\ All(server.reply).answer = server.reply
    BY DEF All
  <2>3. \/ server' = Close
        \/ server' = [server EXCEPT !.doing = "handle"]
        \/ server' = [Session(server.at) EXCEPT !.user = server.user]
    BY <1>4 DEF SendLine
  <2>4. /\ DOMAIN server' = DOMAIN Idle
        /\ \/ server'.doing \in {"accept", "read"}
           \/ server'.doing = "handle" /\ server'.line = server.line
        /\ server'.doing # "accept" => server'.at = server.at
    BY <1>1, <1>3, <2>3 DEF Session, Idle
  <2>5. server'.doing # "send"
    BY <2>4
  <2> QED BY <1>1, <1>2, <2>1, <2>2, <2>4, <2>5, AnswerStep
<1>5. CASE SendFails
  <2>1. wire' = [wire EXCEPT ![server.at].closed = TRUE] /\ server' = Close
    BY <1>5 DEF SendFails
  <2>2. /\ DOMAIN wire' = Connections
        /\ \A i \in Connections : /\ DOMAIN wire'[i] = DOMAIN wire[i]
                                  /\ wire'[i].text = wire[i].text
                                  /\ wire'[i].answers = wire[i].answers
    BY <1>1, <2>1
  <2>3. server'.doing = "accept" /\ DOMAIN server' = DOMAIN Idle
    BY <1>3, <2>1
  <2>4. wire'[server.at].answers = wire[server.at].answers /\ server'.doing # "send"
    BY <1>1, <2>2, <2>3
  <2> QED BY <1>1, <2>2, <2>3, <2>4, AnswerStep
<1>6. CASE SendBreaksOff
  <2>1. /\ wire' = [wire EXCEPT ![server.at].answers = Append(@, Part(server.reply)),
                                ![server.at].closed = TRUE]
        /\ server' = Close /\ (Long(server.reply) \/ ~HasRoom)
    BY <1>6 DEF SendBreaksOff
  <2>2. Part(server.reply).answer = server.reply
    BY DEF Part
  <2>3. server'.doing = "accept" /\ DOMAIN server' = DOMAIN Idle
    BY <1>3, <2>1
  <2>4. server'.doing # "send"
    BY <2>3
  <2> QED BY <1>1, <1>2, <2>1, <2>2, <2>3, <2>4, AnswerStep
<1> QED BY <1>4, <1>5, <1>6

\* The server takes a line from the connection, or finds that it has ended.
LEMMA ReadStep ==
  ASSUME OneLineCalls, CallInv, ReadLine
  PROVE  CallInv'
<1>1. /\ DOMAIN server = DOMAIN Idle /\ DOMAIN wire = Connections
      /\ \A i \in Connections : DOMAIN wire[i] = {"text", "eof", "answers", "closed"}
      /\ server.doing = "read" /\ server.at \in Connections
      /\ UNCHANGED <<script, call, queue, log>>
  BY DEF CallInv, Shapes, ReadLine, clientVars
<1>2. /\ \A c, i, answer : Fit(c, i, answer) => Fit(c, i, answer)'
      /\ \A c, i, got : Good(c, i, got) => Good(c, i, got)'
  BY <1>1, FitStays
<1>3. ASSUME NEW c \in Calling PROVE CallFits(c)'
  BY <1>1, <1>2, <1>3 DEF CallInv, CallFits, Conn
<1>4. CASE LineSize = 0
  <2>1. wire' = [wire EXCEPT ![server.at].closed = TRUE] /\ server' = Close
    BY <1>4 DEF ReadLine
  <2>2. /\ DOMAIN wire' = Connections
        /\ \A i \in Connections : /\ DOMAIN wire'[i] = DOMAIN wire[i]
                                  /\ wire'[i].text = wire[i].text
                                  /\ wire'[i].answers = wire[i].answers
    BY <1>1, <2>1
  <2>3. DOMAIN server' = DOMAIN Idle /\ server'.doing = "accept"
    BY <2>1 DEF Close, Idle
  <2>4. Shapes' /\ ServesLine'
    BY <1>1, <2>2, <2>3 DEF CallInv, Shapes, ServesLine, Busy
  <2>5. ASSUME NEW c \in Calling, NEW m \in 1..Attempts[c] PROVE WireFits(c, m)'
    <3>1. WireFits(c, m) /\ <<c, m>> \in Connections
      BY <2>5, ConnectionPairs DEF CallInv, Calling
    <3> QED BY <1>1, <1>2, <2>2, <3>1 DEF WireFits, Request
  <2> QED BY <1>3, <2>4, <2>5 DEF CallInv
<1>5. CASE LineSize # 0
  <2>1. /\ wire' = [wire EXCEPT ![server.at].text = SubSeq(@, Consumed + 1, Len(@))]
        /\ server' = [server EXCEPT !.line = SubSeq(Here.text, 1, LineSize), !.doing = "route"]
    BY <1>5 DEF ReadLine
  <2>2. /\ DOMAIN wire' = Connections
        /\ \A i \in Connections : /\ DOMAIN wire'[i] = DOMAIN wire[i]
                                  /\ wire'[i].answers = wire[i].answers
                                  /\ i # server.at => wire'[i] = wire[i]
        /\ wire'[server.at].text = SubSeq(Here.text, Consumed + 1, Len(Here.text))
    BY <1>1, <2>1 DEF Here
  <2>3. /\ DOMAIN server' = DOMAIN Idle /\ server'.doing = "route" /\ server'.at = server.at
        /\ server'.line = SubSeq(Here.text, 1, LineSize)
    BY <1>1, <2>1 DEF Idle
  <2>4. Shapes'
    BY <1>1, <2>2, <2>3 DEF CallInv, Shapes
  \* On the connection of a call the line is the call's, and nothing follows.
  <2>5. ASSUME NEW c \in Calling, NEW m \in 1..Attempts[c], <<c, m>> = server.at
        PROVE  server'.line = Request(c) /\ wire'[<<c, m>>].text = <<>>
    <3>1. WireFits(c, m) /\ Here = wire[<<c, m>>]
      BY <2>5 DEF CallInv, Here
    <3>2. Here.text # <<>>
      BY <1>5, ReadsNothing
    <3>3. Here.text = Request(c) \o <<NewLine>> /\ Len(Request(c)) < LineMax
      BY <3>1, <3>2 DEF WireFits
    <3>4. /\ Request(c) \in Seq(Range(Request(c))) /\ NewLine \notin Range(Request(c))
      BY <2>5 DEF OneLineCalls, CallInv, Shapes, Request
    <3> QED BY <2>2, <2>3, <2>5, <3>3, <3>4, ReadsWholeLine
  <2>6. ServesLine'
    <3>1. server.at = <<server.at[1], server.at[2]>> /\ server.at[2] \in 1..Attempts[server.at[1]]
      BY <1>1, ConnectionPairs
    <3> QED BY <1>1, <2>3, <2>5, <3>1 DEF ServesLine, Busy, Request
  <2>7. ASSUME NEW c \in Calling, NEW m \in 1..Attempts[c] PROVE WireFits(c, m)'
    <3>1. WireFits(c, m) /\ <<c, m>> \in Connections
      BY <2>7, ConnectionPairs DEF CallInv, Calling
    <3>2. wire'[<<c, m>>].text = wire[<<c, m>>].text \/ wire'[<<c, m>>].text = <<>>
      BY <2>2, <2>5, <2>7, <3>1
    <3> QED BY <1>1, <1>2, <2>2, <3>1, <3>2 DEF WireFits, Request
  <2> QED BY <1>3, <2>4, <2>6, <2>7 DEF CallInv
<1> QED BY <1>4, <1>5

LEMMA ServerKeepsCalls ==
  ASSUME OneLineCalls, CallInv, ServerStep \/ SendBreaksOff
  PROVE  CallInv'
<1>1. /\ DOMAIN server = DOMAIN Idle /\ DOMAIN wire = Connections
      /\ \A i \in Connections : DOMAIN wire[i] = {"text", "eof", "answers", "closed"}
      /\ queue \in Seq(Connections)
      /\ server.doing # "accept" => server.at \in Connections
  BY DEF CallInv, Shapes
<1>2. \A i \in Connections : wire[i].answers = wire[i].answers /\ wire[i].text = wire[i].text
  OBVIOUS
<1>3. CASE Accept
  <2>1. /\ UNCHANGED <<script, call, wire, log>>
        /\ server' = Session(Head(queue)) /\ queue' = Tail(queue) /\ queue # <<>>
    BY <1>3 DEF Accept, clientVars
  <2>2. Head(queue) \in Connections /\ Tail(queue) \in Seq(Connections)
    BY <1>1, <2>1, HeadTailProperties
  <2>3. DOMAIN server' = DOMAIN Idle /\ server'.doing = "read" /\ server'.at = Head(queue)
    BY <2>1 DEF Session, Idle
  <2>4. Shapes' /\ ServesLine'
    BY <2>1, <2>2, <2>3 DEF CallInv, Shapes, ServesLine, Busy
  <2>5. /\ \A c, i, answer : Fit(c, i, answer) => Fit(c, i, answer)'
        /\ \A c, i, got : Good(c, i, got) => Good(c, i, got)'
    BY <2>1, FitStays
  <2>6. ASSUME NEW c \in Calling PROVE CallFits(c)'
    BY <2>1, <2>5, <2>6 DEF CallInv, CallFits, Conn
  <2>7. ASSUME NEW c \in Calling, NEW m \in 1..Attempts[c] PROVE WireFits(c, m)'
    <3>1. WireFits(c, m)
      BY <2>7 DEF CallInv
    <3> QED BY <2>1, <2>5, <3>1 DEF WireFits, Request
  <2> QED BY <2>4, <2>6, <2>7 DEF CallInv
<1>4. CASE ReadLine
  BY <1>4, ReadStep
<1>5. CASE FtpUser
  <2> DEFINE answer == Refuse(IF Arg(1) = "" THEN "530" ELSE "230")
  <2>1. /\ UNCHANGED <<script, call, queue, wire>> /\ server.doing = "route"
        /\ log' = log \cup {Entry(server.at, server.line, answer)}
        /\ server' = [server EXCEPT !.user = @ \/ Arg(1) # "", !.doing = "send",
                                    !.then = "read", !.reply = answer]
    BY <1>5 DEF FtpUser, NotJson, Entry, clientVars
  <2> HIDE DEF answer
  <2>2. /\ DOMAIN server' = DOMAIN Idle /\ server'.doing = "send" /\ server'.at = server.at
        /\ server'.line = server.line /\ server'.reply = answer
    BY <1>1, <2>1 DEF Idle
  <2>3. Answers(server.line, server.at, server.reply)' /\ Busy
    BY <2>1, <2>2 DEF Answers, Entry, Busy
  <2> QED BY <2>1, <2>2, <2>3, SendsStep
<1>6. CASE FtpLine
  <2>1. Busy /\ UNCHANGED <<clientVars, wire, queue>> /\ \E answer, then : Replies(answer, then)
    BY <1>6 DEF FtpLine, NotJson, Busy
  <2> QED BY <2>1, RepliesStep
\* The progress line is for a line that is announced.
<1>7. CASE Notify
  <2>1. /\ UNCHANGED <<script, call, queue, wire, log>> /\ Busy
        /\ Announces(server.line)
        /\ server' = [server EXCEPT !.doing = "send", !.reply = Notification, !.then = "handle"]
    BY <1>7 DEF Notify, Announced, clientVars, Sends, Busy
  <2>2. /\ DOMAIN server' = DOMAIN Idle /\ server'.doing = "send" /\ server'.at = server.at
        /\ server'.line = server.line /\ server'.reply = Notification
    BY <1>1, <2>1 DEF Idle
  <2>3. Answers(server.line, server.at, server.reply)'
    BY <2>1, <2>2 DEF Answers
  <2> QED BY <2>1, <2>2, <2>3, SendsStep
<1>8. Handling => Busy
  BY DEF Handling, Busy
<1>9. CASE HandlePlain
  BY <1>8, <1>9, RepliesStep DEF HandlePlain
<1>10. CASE HandleQuery
  <2>1. \E answer : Replies(answer, "read")
    BY <1>10 DEF HandleQuery
  <2> QED BY <1>8, <1>10, <2>1, RepliesStep DEF HandleQuery
<1>11. CASE HandleProxied
  BY <1>8, <1>11, RepliesStep DEF HandleProxied
\* The scan and the unlinks leave the connections alone until the answer.
<1>12. ASSUME UNCHANGED <<script, call, queue, wire, log>>,
              Busy, DOMAIN server' = DOMAIN Idle,
              server'.doing = "unlink", server'.line = server.line, server'.at = server.at
       PROVE  CallInv'
  BY <1>1, <1>2, <1>12, AnswerStep
<1>13. CASE Scan
  <2>1. CASE \E answer : Replies(answer, "read")
    BY <1>8, <1>13, <2>1, RepliesStep DEF Scan
  <2>2. ASSUME NEW found, NEW ages, UNCHANGED <<wire, log>>,
               server' = [server EXCEPT !.doing = "unlink", !.todo = found, !.found = ages]
        PROVE  CallInv'
    <3>1. /\ DOMAIN server' = DOMAIN Idle /\ server'.doing = "unlink"
          /\ server'.at = server.at /\ server'.line = server.line
      BY <1>1, <2>2 DEF Idle
    <3> QED BY <1>8, <1>12, <1>13, <2>2, <3>1 DEF Scan, clientVars
  <2> QED BY <1>13, <2>1, <2>2 DEF Scan
<1>14. CASE Unlink
  <2>1. PICK f, n : server' = [server EXCEPT !.todo = @ \ {f}, !.gone = n]
    BY <1>14 DEF Unlink
  <2>2. UNCHANGED <<script, call, queue, wire, log>> /\ server.doing = "unlink" /\ Busy
    BY <1>14 DEF Unlink, clientVars, Busy
  <2>3. /\ DOMAIN server' = DOMAIN Idle /\ server'.doing = "unlink"
        /\ server'.at = server.at /\ server'.line = server.line
    BY <1>1, <2>1, <2>2 DEF Idle
  <2> QED BY <1>12, <2>2, <2>3
<1>15. CASE ReportDeleted
  BY <1>15, RepliesStep DEF ReportDeleted, Busy
<1>16. CASE SendLine \/ SendFails \/ SendBreaksOff
  BY <1>16, SendingStep
<1> QED
  BY <1>3, <1>4, <1>5, <1>6, <1>7, <1>9, <1>10, <1>11, <1>13, <1>14, <1>15, <1>16 DEF ServerStep

\* A call that reports success holds the answer to its own line, or its
\* progress line, and all of it unless it is longer than RPC_MAX_LINE, whatever
\* the other clients do, however often it is tried and wherever a connection
\* ends: CallInv is inductive.
\* (read_line, rpc_exchange_once, recv_line, send_json_line, the loop of main)
THEOREM AnswersAreOwn == ASSUME OneLineCalls PROVE Spec => []AnswerIsOwn
<1>1. Init => CallInv
  BY CallsStart
<1>2. CallInv /\ [Next]_vars => CallInv'
  <2> SUFFICES ASSUME CallInv, [Next]_vars PROVE CallInv'
    OBVIOUS
  <2>1. ASSUME NEW c \in Clients, ClientStep(c) \/ HangUp(c) PROVE CallInv'
    BY <2>1, ClientKeepsCalls
  <2>2. CASE ServerStep \/ SendBreaksOff
    BY <2>2, ServerKeepsCalls
  <2>3. CASE UNCHANGED <<script, call, wire, queue, server, log>>
    <3>1. Shapes' /\ ServesLine'
      BY <2>3 DEF CallInv, Shapes, ServesLine, Request, Busy, Answers
    <3>2. /\ \A c, i, answer : Fit(c, i, answer) => Fit(c, i, answer)'
          /\ \A c, i, got : Good(c, i, got) => Good(c, i, got)'
      BY <2>3, FitStays
    <3>3. ASSUME NEW c \in Calling PROVE CallFits(c)'
      BY <2>3, <3>2, <3>3 DEF CallInv, CallFits, Conn
    <3>4. ASSUME NEW c \in Calling, NEW m \in 1..Attempts[c] PROVE WireFits(c, m)'
      <4>1. WireFits(c, m)
        BY <3>4 DEF CallInv
      <4> QED BY <2>3, <3>2, <4>1 DEF WireFits, Request
    <3> QED BY <3>1, <3>3, <3>4 DEF CallInv
  <2> QED BY <2>1, <2>2, <2>3 DEF Next, Edit, vars, clientVars
<1>3. CallInv => AnswerIsOwn
  BY DEF CallInv, CallFits, Good, Fit, Entry, AnswerIsOwn, Calling, Line, Request
<1> QED BY <1>1, <1>2, <1>3, PTL DEF Spec

-----------------------------------------------------------------------------
(* What is deleted was asked for.                                          *)

LEMMA LeastExists ==
  ASSUME NEW S \in SUBSET Nat, S # {}
  PROVE  Min(S) \in S /\ \A x \in S : Min(S) <= x
<1>1. PICK m \in S : \A x \in S : <<x, m>> \notin OpToRel(<, Nat)
  BY NatLessThanWellFounded, WFMin, Zenon
<1>2. \A x \in S : ~(x < m)
  BY <1>1, Zenon DEF OpToRel
<1>3. \A x \in S : m <= x
  BY <1>2
<1>4. Min(S) = m
  BY <1>3, MinIs
<1> QED BY <1>3, <1>4

NoNewLine(t, a, b) == \A j \in a..b : t[j] # NewLine
Begins(t, a) == a = 1 \/ t[a - 1] = NewLine

\* What a socket holds: between two newlines there is a part of a line.
InLines(t, lines) ==
  \A a \in 1..Len(t) : \A b \in a..Len(t) : NoNewLine(t, a, b) =>
    \E l \in DOMAIN lines, k \in Nat :
      /\ k + (b - a + 1) <= Len(lines[l])
      /\ \A j \in a..b : t[j] = lines[l][k + (j - a + 1)]

\* All that stands before a newline is a line, or the end of one that
\* overruns the buffer.
FullLines(t, lines) ==
  \A a \in 1..Len(t) : \A b \in a..(Len(t) - 1) :
    NoNewLine(t, a, b) /\ Begins(t, a) /\ t[b + 1] = NewLine =>
      \E l \in DOMAIN lines, k \in Nat :
        /\ k + (b - a + 1) <= Len(lines[l])
        /\ \A j \in a..b : t[j] = lines[l][k + (j - a + 1)]
        /\ Len(lines[l]) = b - a + 1 \/ Len(lines[l]) >= LineMax

\* Behind the last newline there is the part of the line that has been sent.
EndsWith(t, line, sent) ==
  \A a \in 1..Len(t) : NoNewLine(t, a, Len(t)) =>
    /\ Len(t) - a + 1 <= sent
    /\ \A j \in a..Len(t) : t[j] = line[sent + j - Len(t)]

\* And all of that part, unless the line overruns the buffer.
OpenLine(t, line, sent) ==
  \A a \in 1..(Len(t) + 1) :
    NoNewLine(t, a, Len(t)) /\ Begins(t, a) => Len(t) - a + 1 = sent \/ Len(line) >= LineMax

\* Where recv_line stops, unless the text ends there.
Cut(t, n) == n = 0 \/ t[n] = NewLine \/ (n >= LineMax /\ NoNewLine(t, 1, n))

LEMMA SomeLess ==
  ASSUME NEW T, NEW t \in Seq(T), NEW n \in 0..Len(t), NEW lines, NEW line, NEW sent
  PROVE  LET u == SubSeq(t, n + 1, Len(t)) IN
         /\ u \in Seq(T) /\ Len(u) = Len(t) - n /\ \A j \in 1..Len(u) : u[j] = t[n + j]
         /\ InLines(t, lines) => InLines(u, lines)
         /\ EndsWith(t, line, sent) => EndsWith(u, line, sent)
<1> DEFINE u == SubSeq(t, n + 1, Len(t))
<1>1. u \in Seq(T) /\ Len(u) = Len(t) - n /\ \A j \in 1..Len(u) : u[j] = t[n + j]
  BY SubSeqProperties
<1>2. Len(t) \in Nat
  OBVIOUS
<1> HIDE DEF u
<1>3. ASSUME InLines(t, lines), NEW a \in 1..Len(u), NEW b \in a..Len(u), NoNewLine(u, a, b)
      PROVE  \E l \in DOMAIN lines, k \in Nat :
               /\ k + (b - a + 1) <= Len(lines[l])
               /\ \A j \in a..b : u[j] = lines[l][k + (j - a + 1)]
  <2>1. n + a \in 1..Len(t) /\ n + b \in (n + a)..Len(t)
    BY <1>1, <1>2
  <2>2. \A j \in (n + a)..(n + b) : j - n \in a..b /\ j - n \in 1..Len(u) /\ t[j] = u[j - n]
    BY <1>1, <1>2
  <2>3. NoNewLine(t, n + a, n + b)
    BY <1>3, <2>2 DEF NoNewLine
  <2>4. PICK l \in DOMAIN lines, k \in Nat :
          /\ k + ((n + b) - (n + a) + 1) <= Len(lines[l])
          /\ \A j \in (n + a)..(n + b) : t[j] = lines[l][k + (j - (n + a) + 1)]
    BY <1>3, <2>1, <2>3 DEF InLines
  <2>5. ASSUME NEW j \in a..b
        PROVE  /\ n + j \in (n + a)..(n + b) /\ u[j] = t[n + j]
               /\ (n + j) - (n + a) + 1 = j - a + 1
    <3>1. j \in 1..Len(u) /\ n + j \in (n + a)..(n + b) /\ (n + j) - (n + a) + 1 = j - a + 1
      BY <1>1, <1>2
    <3> QED BY <1>1, <3>1
  <2>6. (n + b) - (n + a) + 1 = b - a + 1
    BY <1>1, <1>2
  <2>7. k + (b - a + 1) <= Len(lines[l])
    BY <2>4, <2>6
  <2>8. ASSUME NEW j \in a..b PROVE u[j] = lines[l][k + (j - a + 1)]
    BY <2>4, <2>5
  <2> QED BY <2>7, <2>8
<1>4. ASSUME EndsWith(t, line, sent), NEW a \in 1..Len(u), NoNewLine(u, a, Len(u))
      PROVE  /\ Len(u) - a + 1 <= sent
             /\ \A j \in a..Len(u) : u[j] = line[sent + j - Len(u)]
  <2>1. n + a \in 1..Len(t)
    BY <1>1, <1>2
  <2>2. \A j \in (n + a)..Len(t) : j - n \in a..Len(u) /\ j - n \in 1..Len(u) /\ t[j] = u[j - n]
    BY <1>1, <1>2
  <2>3. NoNewLine(t, n + a, Len(t))
    BY <1>4, <2>2 DEF NoNewLine
  <2>4. /\ Len(t) - (n + a) + 1 <= sent
        /\ \A j \in (n + a)..Len(t) : t[j] = line[sent + j - Len(t)]
    BY <1>4, <2>1, <2>3 DEF EndsWith
  <2>5. ASSUME NEW j \in a..Len(u) PROVE n + j \in (n + a)..Len(t) /\ u[j] = t[n + j]
    <3>1. j \in 1..Len(u) /\ n + j \in (n + a)..Len(t)
      BY <1>1, <1>2
    <3> QED BY <1>1, <3>1
  <2>6. Len(t) - (n + a) + 1 = Len(u) - a + 1
    BY <1>1, <1>2
  <2>7. ASSUME NEW j \in a..Len(u) PROVE u[j] = line[sent + j - Len(u)]
    <3>1. sent + (n + j) - Len(t) = sent + j - Len(u)
      BY <1>1, <1>2
    <3> QED BY <2>4, <2>5, <3>1
  <2> QED BY <2>4, <2>6, <2>7
<1> QED BY <1>1, <1>3, <1>4 DEF InLines, EndsWith, u

\* What is left begins lines where the text did, or in one that overruns.
LEMMA StillFull ==
  ASSUME NEW T, NEW t \in Seq(T), NEW n \in 0..Len(t), Cut(t, n), NEW lines,
         \A l \in DOMAIN lines : Len(lines[l]) \in Nat,
         NEW line, NEW sent \in Nat, sent = 0 \/ (Len(line) \in Nat /\ sent <= Len(line))
  PROVE  LET u == SubSeq(t, n + 1, Len(t)) IN
         /\ InLines(t, lines) /\ FullLines(t, lines) => FullLines(u, lines)
         /\ EndsWith(t, line, sent) /\ OpenLine(t, line, sent) => OpenLine(u, line, sent)
<1> DEFINE u == SubSeq(t, n + 1, Len(t))
<1>1. u \in Seq(T) /\ Len(u) = Len(t) - n /\ \A j \in 1..Len(u) : u[j] = t[n + j]
  BY SubSeqProperties
<1>2. Len(t) \in Nat /\ LineMax \in Nat \ {0}
  BY Limits
<1> HIDE DEF u
<1>3. ASSUME NEW a \in 1..(Len(u) + 1), Begins(u, a)
      PROVE  Begins(t, n + a) \/ (a = 1 /\ n >= LineMax /\ NoNewLine(t, 1, n))
  <2>1. CASE a = 1
    <3>1. n + a - 1 = n
      BY <2>1
    <3>2. n = 0 => n + a = 1
      BY <2>1
    <3> QED BY <2>1, <3>1, <3>2 DEF Begins, Cut
  <2>2. CASE a # 1
    <3>1. a - 1 \in 1..Len(u) /\ n + (a - 1) = n + a - 1
      BY <1>1, <1>2, <2>2
    <3>2. u[a - 1] = t[n + a - 1]
      BY <1>1, <3>1
    <3> QED BY <1>3, <2>2, <3>2 DEF Begins
  <2> QED BY <2>1, <2>2
<1>4. ASSUME NEW a \in 1..(Len(u) + 1), NEW b \in 0..Len(u), NoNewLine(u, a, b)
      PROVE  NoNewLine(t, n + a, n + b)
  <2>1. \A j \in (n + a)..(n + b) : j - n \in a..b /\ j - n \in 1..Len(u) /\ n + (j - n) = j
    BY <1>1, <1>2
  <2> QED BY <1>1, <1>4, <2>1 DEF NoNewLine
<1>5. ASSUME InLines(t, lines), FullLines(t, lines), NEW a \in 1..Len(u), NEW b \in a..(Len(u) - 1),
             NoNewLine(u, a, b), Begins(u, a), u[b + 1] = NewLine
      PROVE  \E l \in DOMAIN lines, k \in Nat :
               /\ k + (b - a + 1) <= Len(lines[l])
               /\ \A j \in a..b : u[j] = lines[l][k + (j - a + 1)]
               /\ Len(lines[l]) = b - a + 1 \/ Len(lines[l]) >= LineMax
  <2>1. /\ n + a \in 1..Len(t) /\ n + b \in (n + a)..(Len(t) - 1) /\ b \in 0..Len(u)
        /\ b + 1 \in 1..Len(u) /\ n + (b + 1) = (n + b) + 1 /\ a \in 1..(Len(u) + 1)
    BY <1>1, <1>2
  <2>2. NoNewLine(t, n + a, n + b) /\ t[(n + b) + 1] = NewLine
    BY <1>1, <1>4, <1>5, <2>1
  <2>3. ASSUME NEW j \in a..b PROVE n + j \in (n + a)..(n + b) /\ u[j] = t[n + j]
    <3>1. j \in 1..Len(u) /\ n + j \in (n + a)..(n + b)
      BY <1>1, <1>2
    <3> QED BY <1>1, <3>1
  <2>4. CASE Begins(t, n + a)
    <3>1. PICK l \in DOMAIN lines, k \in Nat :
            /\ k + ((n + b) - (n + a) + 1) <= Len(lines[l])
            /\ \A j \in (n + a)..(n + b) : t[j] = lines[l][k + (j - (n + a) + 1)]
            /\ Len(lines[l]) = (n + b) - (n + a) + 1 \/ Len(lines[l]) >= LineMax
      BY <1>5, <2>1, <2>2, <2>4 DEF FullLines
    <3>2. (n + b) - (n + a) + 1 = b - a + 1
      BY <1>1, <1>2
    <3>3. ASSUME NEW j \in a..b PROVE u[j] = lines[l][k + (j - a + 1)]
      <4>1. (n + j) - (n + a) + 1 = j - a + 1
        BY <1>1, <1>2
      <4> QED BY <2>3, <3>1, <4>1
    <3> QED BY <3>1, <3>2, <3>3
  <2>5. CASE a = 1 /\ n >= LineMax /\ NoNewLine(t, 1, n)
    <3>1. NoNewLine(t, 1, n + b)
      <4>1. \A j \in 1..(n + b) : j \in 1..n \/ j \in (n + a)..(n + b)
        BY <2>1, <2>5
      <4> QED BY <2>2, <2>5, <4>1 DEF NoNewLine
    <3>2. 1 \in 1..Len(t) /\ n + b \in 1..Len(t)
      BY <1>2, <2>1, <2>5
    <3>3. PICK l \in DOMAIN lines, k \in Nat :
            /\ k + ((n + b) - 1 + 1) <= Len(lines[l])
            /\ \A j \in 1..(n + b) : t[j] = lines[l][k + (j - 1 + 1)]
      BY <1>5, <3>1, <3>2 DEF InLines
    <3>4. /\ k + n \in Nat /\ (k + n) + (b - a + 1) <= Len(lines[l]) /\ Len(lines[l]) >= LineMax
      BY <1>2, <2>1, <2>5, <3>3
    <3>5. ASSUME NEW j \in a..b PROVE u[j] = lines[l][(k + n) + (j - a + 1)]
      <4>1. n + j \in 1..(n + b) /\ k + ((n + j) - 1 + 1) = (k + n) + (j - a + 1)
        BY <2>1, <2>5, <3>3
      <4> QED BY <2>3, <3>3, <4>1
    <3> QED BY <3>4, <3>5
  <2> QED BY <1>3, <1>5, <2>1, <2>4, <2>5
<1>6. ASSUME EndsWith(t, line, sent), OpenLine(t, line, sent), NEW a \in 1..(Len(u) + 1),
             NoNewLine(u, a, Len(u)), Begins(u, a)
      PROVE  Len(u) - a + 1 = sent \/ Len(line) >= LineMax
  <2>1. n + a \in 1..(Len(t) + 1) /\ n + Len(u) = Len(t) /\ Len(u) \in 0..Len(u)
    BY <1>1, <1>2
  <2>2. NoNewLine(t, n + a, Len(t))
    BY <1>4, <1>6, <2>1
  <2>3. CASE Begins(t, n + a)
    <3>1. Len(t) - (n + a) + 1 = sent \/ Len(line) >= LineMax
      BY <1>6, <2>1, <2>2, <2>3 DEF OpenLine
    <3>2. Len(t) - (n + a) + 1 = Len(u) - a + 1
      BY <1>1, <1>2
    <3> QED BY <3>1, <3>2
  <2>4. CASE a = 1 /\ n >= LineMax /\ NoNewLine(t, 1, n)
    <3>1. NoNewLine(t, 1, Len(t))
      <4>1. \A j \in 1..Len(t) : j \in 1..n \/ j \in (n + a)..Len(t)
        BY <1>2, <2>4
      <4> QED BY <2>2, <2>4, <4>1 DEF NoNewLine
    <3>2. 1 \in 1..Len(t) /\ Len(t) >= LineMax
      BY <1>2, <2>4
    <3>3. Len(t) - 1 + 1 <= sent
      BY <1>6, <3>1, <3>2 DEF EndsWith
    <3> QED BY <1>2, <3>2, <3>3
  <2> QED BY <1>3, <1>6, <2>3, <2>4
<1> QED BY <1>5, <1>6 DEF FullLines, OpenLine, u

LEMMA Joined ==
  ASSUME NEW T, NEW a \in Seq(T), NEW b \in Seq(T)
  PROVE  /\ a \o b \in Seq(T) /\ Len(a \o b) = Len(a) + Len(b)
         /\ \A i \in 1..Len(a) : (a \o b)[i] = a[i]
         /\ \A i \in (Len(a) + 1)..(Len(a) + Len(b)) : (a \o b)[i] = b[i - Len(a)]
<1> DEFINE u == a \o b
<1>1. /\ u \in Seq(T) /\ Len(u) = Len(a) + Len(b) /\ Len(b) \in Nat /\ Len(a) \in Nat
      /\ \A i \in 1..(Len(a) + Len(b)) : u[i] = IF i <= Len(a) THEN a[i] ELSE b[i - Len(a)]
  BY ConcatProperties
<1> HIDE DEF u
<1>2. \A i \in 1..Len(a) : i \in 1..(Len(a) + Len(b)) /\ i <= Len(a)
  BY <1>1
<1>3. \A i \in (Len(a) + 1)..(Len(a) + Len(b)) : i \in 1..(Len(a) + Len(b)) /\ ~(i <= Len(a))
  BY <1>1
<1>4. \A i \in 1..Len(a) : u[i] = a[i]
  BY <1>1, <1>2
<1>5. \A i \in (Len(a) + 1)..(Len(a) + Len(b)) : u[i] = b[i - Len(a)]
  BY <1>1, <1>3
<1> QED BY <1>1, <1>4, <1>5 DEF u

\* What Send puts on the connection.
Longer(t, line, sent, k) ==
  t \o SubSeq(line, sent + 1, k) \o (IF k = Len(line) THEN <<NewLine>> ELSE <<>>)

\* Send keeps the text in lines, and the end of it where the client is.
LEMMA SendsMore ==
  ASSUME NEW T, NewLine \in T, NEW lines, NEW at \in DOMAIN lines, lines[at] \in Seq(T),
         NewLine \notin Range(lines[at]),
         NEW text \in Seq(T), NEW sent \in Nat, NEW k \in Nat, sent <= k, k <= Len(lines[at]),
         InLines(text, lines), FullLines(text, lines),
         EndsWith(text, lines[at], sent), OpenLine(text, lines[at], sent)
  PROVE  LET u == Longer(text, lines[at], sent, k)
             s == IF k = Len(lines[at]) THEN 0 ELSE k
         IN  /\ u \in Seq(T) /\ InLines(u, lines) /\ FullLines(u, lines)
             /\ EndsWith(u, lines[at], s) /\ OpenLine(u, lines[at], s)
<1>1. PICK line, n, m, u, s, end, piece, v, t :
        /\ line = lines[at] /\ t = text /\ n = Len(t) /\ m = n + (k - sent)
        /\ end = (IF k = Len(line) THEN <<NewLine>> ELSE <<>>)
        /\ piece = SubSeq(line, sent + 1, k) /\ v = t \o piece /\ u = v \o end
        /\ s = (IF k = Len(line) THEN 0 ELSE k)
  OBVIOUS
<1>2. /\ line \in Seq(T) /\ t \in Seq(T) /\ end \in Seq(T)
      /\ n \in Nat /\ Len(line) \in Nat /\ k <= Len(line)
  <2>1. <<NewLine>> \in Seq(T) /\ <<>> \in Seq(T)
    OBVIOUS
  <2> QED BY <1>1, <2>1
<1>3. m \in Nat /\ n <= m /\ m - n = k - sent
  BY <1>1, <1>2
<1>4. /\ piece \in Seq(T) /\ Len(piece) = k - sent
      /\ \A j \in 1..Len(piece) : piece[j] = line[sent + j]
  BY <1>1, <1>2, SubSeqProperties
<1>5. /\ v \in Seq(T) /\ Len(v) = m
      /\ \A j \in 1..n : v[j] = t[j]
      /\ \A j \in (n + 1)..m : v[j] = piece[j - n]
  <2>1. /\ t \o piece \in Seq(T) /\ Len(t \o piece) = Len(t) + Len(piece)
        /\ \A j \in 1..Len(t) : (t \o piece)[j] = t[j]
        /\ \A j \in (Len(t) + 1)..(Len(t) + Len(piece)) : (t \o piece)[j] = piece[j - Len(t)]
    <3>1. t \in Seq(T) /\ piece \in Seq(T)
      BY <1>2, <1>4
    <3> HIDE <1>1
    <3> QED BY <3>1, Joined
  <2>2. n + Len(piece) = m
    BY <1>2, <1>3, <1>4
  <2> QED BY <1>1, <2>1, <2>2
<1>6. /\ u \in Seq(T) /\ Len(u) = m + Len(end)
      /\ \A j \in 1..m : u[j] = v[j]
      /\ \A j \in (m + 1)..(m + Len(end)) : u[j] = end[j - m]
  <2>1. /\ v \o end \in Seq(T) /\ Len(v \o end) = Len(v) + Len(end)
        /\ \A j \in 1..Len(v) : (v \o end)[j] = v[j]
        /\ \A j \in (Len(v) + 1)..(Len(v) + Len(end)) : (v \o end)[j] = end[j - Len(v)]
    BY <1>2, <1>5, Joined
  <2>2. u = v \o end
    BY <1>1
  <2> QED BY <1>5, <2>1, <2>2
<1>7. /\ \A j \in 1..n : u[j] = t[j]
      /\ \A j \in (n + 1)..m : u[j] = line[sent + j - n]
  <2>1. \A j \in 1..n : j \in 1..m
    BY <1>2, <1>3
  <2>2. ASSUME NEW j \in (n + 1)..m PROVE u[j] = line[sent + j - n]
    <3>1. j \in 1..m /\ j - n \in 1..Len(piece) /\ sent + (j - n) = sent + j - n
      BY <1>2, <1>3, <1>4
    <3> QED BY <1>4, <1>5, <1>6, <3>1
  <2> QED BY <1>5, <1>6, <2>1, <2>2
<1>8. /\ Len(u) \in Nat
      /\ \/ Len(u) = m /\ s = k
         \/ Len(u) = m + 1 /\ u[m + 1] = NewLine /\ s = 0 /\ k = Len(line)
  <2>1. CASE k = Len(line)
    <3>1. Len(end) = 1 /\ end[1] = NewLine /\ s = 0
      BY <1>1, <2>1
    <3>2. m + 1 \in (m + 1)..(m + Len(end)) /\ (m + 1) - m = 1
      BY <1>3, <3>1
    <3> QED BY <1>3, <1>6, <2>1, <3>1, <3>2
  <2>2. CASE k # Len(line)
    <3>1. Len(end) = 0 /\ s = k
      BY <1>1, <2>2
    <3> QED BY <1>3, <1>6, <3>1
  <2> QED BY <2>1, <2>2
<1>9. /\ InLines(t, lines) /\ EndsWith(t, line, sent) /\ n = Len(t) /\ line = lines[at]
      /\ FullLines(t, lines) /\ OpenLine(t, line, sent)
  BY <1>1
<1>0. \A j \in (n + 1)..m : u[j] # NewLine
  <2>1. NewLine \notin Range(line)
    BY <1>1
  <2>2. \A j \in (n + 1)..m : sent + j - n \in DOMAIN line
    BY <1>2, <1>3
  <2> QED BY <1>7, <2>1, <2>2 DEF Range
<1> USE <1>2, <1>3, <1>7, <1>8, <1>9
\* A stretch without newline that reaches into the new piece is the line's.
<1>10. ASSUME NEW a \in 1..m, NEW b \in a..m, b > n, NoNewLine(u, a, b)
      PROVE  /\ sent + a - n - 1 \in Nat
             /\ (sent + a - n - 1) + (b - a + 1) <= Len(line)
             /\ \A j \in a..b : u[j] = line[sent + j - n]
  <2>1. CASE a > n
    <3>1. \A j \in a..b : j \in (n + 1)..m
      BY <1>10, <2>1
    <3>2. \A j \in a..b : u[j] = line[sent + j - n]
      BY <3>1
    <3>3. sent + a - n - 1 \in Nat /\ (sent + a - n - 1) + (b - a + 1) <= Len(line)
      BY <1>10, <2>1
    <3> QED BY <3>2, <3>3
  <2>2. CASE ~(a > n)
    <3>1. a \in 1..n /\ \A j \in a..n : j \in a..b /\ j \in 1..n
      BY <1>10, <2>2
    <3>2. NoNewLine(t, a, n)
      BY <1>10, <3>1 DEF NoNewLine
    <3>3. n - a + 1 <= sent /\ \A j \in a..n : t[j] = line[sent + j - n]
      BY <3>1, <3>2 DEF EndsWith
    <3>4. \A j \in a..b : j \in a..n \/ j \in (n + 1)..m
      BY <1>10
    <3>5. \A j \in a..b : u[j] = line[sent + j - n]
      BY <3>1, <3>3, <3>4
    <3> QED BY <1>10, <3>1, <3>3, <3>5
  <2> QED BY <2>1, <2>2
<1>11. ASSUME NEW a \in 1..Len(u), NEW b \in a..Len(u), NoNewLine(u, a, b)
      PROVE  \E i \in DOMAIN lines, x \in Nat :
               /\ x + (b - a + 1) <= Len(lines[i])
               /\ \A j \in a..b : u[j] = lines[i][x + (j - a + 1)]
  <2>1. b <= m /\ a \in 1..m
    <3>1. b # m + 1
      BY <1>11 DEF NoNewLine
    <3> QED BY <1>11, <3>1
  <2>2. CASE b > n
    <3> DEFINE x == sent + a - n - 1
    <3>1. /\ x \in Nat /\ x + (b - a + 1) <= Len(line)
          /\ \A j \in a..b : u[j] = line[sent + j - n]
      BY <1>10, <1>11, <2>1, <2>2
    <3>2. \A j \in a..b : x + (j - a + 1) = sent + j - n
      BY <1>11
    <3>3. \A j \in a..b : u[j] = line[x + (j - a + 1)]
      BY <3>1, <3>2
    <3> HIDE DEF x
    <3> QED BY <3>1, <3>3
  <2>3. CASE ~(b > n)
    <3>1. a \in 1..n /\ b \in a..n /\ \A j \in a..b : u[j] = t[j]
      BY <1>11, <2>1, <2>3
    <3>2. NoNewLine(t, a, b)
      BY <1>11, <3>1 DEF NoNewLine
    <3>3. PICK i \in DOMAIN lines, x \in Nat :
            /\ x + (b - a + 1) <= Len(lines[i])
            /\ \A j \in a..b : t[j] = lines[i][x + (j - a + 1)]
      BY <3>1, <3>2 DEF InLines
    <3> QED BY <3>1, <3>3
  <2> QED BY <2>2, <2>3
\* What stands before the newline, or last.
<1>12. ASSUME NEW a \in 1..m, NoNewLine(u, a, m)
      PROVE  m - a + 1 <= k /\ \A j \in a..m : u[j] = line[k + j - m]
  <2>2. CASE m > n
    <3>0. m \in a..m
      BY <1>12
    <3>1. /\ sent + a - n - 1 \in Nat /\ \A j \in a..m : u[j] = line[sent + j - n]
      BY <1>10, <1>12, <2>2, <3>0
    <3>2. ASSUME NEW j \in a..m PROVE sent + j - n = k + j - m
      <4> HIDE <1>7, <1>8, <1>9
      <4>1. j \in Int
        BY <3>0
      <4> QED BY <4>1
    <3>3. \A j \in a..m : u[j] = line[k + j - m]
      BY <3>1, <3>2
    <3>4. m - a + 1 <= k
      BY <1>12, <3>1
    <3> QED BY <3>3, <3>4
  <2>3. CASE ~(m > n)
    <3>0. m = n /\ k = sent /\ a \in 1..n /\ \A j \in a..n : j \in 1..n
      BY <2>3
    <3>1. m = n /\ k = sent /\ a \in 1..n /\ \A j \in a..n : u[j] = t[j]
      BY <3>0
    <3>2. NoNewLine(t, a, n)
      BY <1>12, <3>1 DEF NoNewLine
    <3>3. n - a + 1 <= sent /\ \A j \in a..n : t[j] = line[sent + j - n]
      BY <3>1, <3>2 DEF EndsWith
    <3> QED BY <3>1, <3>3
  <2> QED BY <2>2, <2>3
<1>13. ASSUME NEW a \in 1..(m + 1), NoNewLine(u, a, m), Begins(u, a)
       PROVE  m - a + 1 = k \/ Len(line) >= LineMax
  <2>1. CASE a <= n + 1
    <3>1. a \in 1..(n + 1) /\ \A j \in a..n : j \in a..m /\ j \in 1..n
      BY <1>13, <2>1
    <3>2. NoNewLine(t, a, n)
      BY <1>13, <3>1 DEF NoNewLine
    <3>3. Begins(t, a)
      <4>1. a # 1 => a - 1 \in 1..n
        BY <3>1
      <4> QED BY <1>13, <4>1 DEF Begins
    <3>4. n - a + 1 = sent \/ Len(line) >= LineMax
      BY <3>1, <3>2, <3>3 DEF OpenLine
    <3> QED BY <3>1, <3>4
  <2>2. CASE ~(a <= n + 1)
    <3>1. a - 1 \in (n + 1)..m /\ a # 1
      BY <1>13, <2>2
    <3> QED BY <1>0, <1>13, <3>1 DEF Begins
  <2> QED BY <2>1, <2>2
\* No stretch without newline reaches behind the newline.
<1>14. ASSUME NEW a \in 1..(Len(u) + 1), NoNewLine(u, a, Len(u)), Len(u) = m + 1, u[m + 1] = NewLine
       PROVE  a = Len(u) + 1
  <2>1. CASE a <= m + 1
    <3>1. m + 1 \in a..Len(u)
      BY <1>14, <2>1
    <3> QED BY <1>14, <3>1 DEF NoNewLine
  <2>2. CASE ~(a <= m + 1)
    BY <1>14, <2>2
  <2> QED BY <2>1, <2>2
<1>15. ASSUME NEW a \in 1..Len(u), NoNewLine(u, a, Len(u))
      PROVE  /\ Len(u) - a + 1 <= s
             /\ \A j \in a..Len(u) : u[j] = line[s + j - Len(u)]
  <2>1. a \in 1..(Len(u) + 1) /\ a # Len(u) + 1
    BY <1>15
  <2>2. Len(u) = m /\ s = k
    BY <1>14, <1>15, <2>1
  <2>3. a \in 1..m /\ NoNewLine(u, a, m)
    BY <1>15, <2>2
  <2> QED BY <1>12, <2>2, <2>3
<1>16. ASSUME NEW a \in 1..(Len(u) + 1), NoNewLine(u, a, Len(u)), Begins(u, a)
       PROVE  Len(u) - a + 1 = s \/ Len(line) >= LineMax
  <2>1. CASE Len(u) = m /\ s = k
    BY <1>13, <1>16, <2>1
  <2>2. CASE Len(u) = m + 1 /\ u[m + 1] = NewLine /\ s = 0
    <3>1. a = Len(u) + 1
      BY <1>14, <1>16, <2>2
    <3> QED BY <2>2, <3>1
  <2> QED BY <2>1, <2>2
<1>17. ASSUME NEW a \in 1..Len(u), NEW b \in a..(Len(u) - 1),
              NoNewLine(u, a, b), Begins(u, a), u[b + 1] = NewLine
       PROVE  \E l \in DOMAIN lines, x \in Nat :
                /\ x + (b - a + 1) <= Len(lines[l])
                /\ \A j \in a..b : u[j] = lines[l][x + (j - a + 1)]
                /\ Len(lines[l]) = b - a + 1 \/ Len(lines[l]) >= LineMax
  <2>1. CASE b + 1 <= n
    <3>1. /\ a \in 1..n /\ b \in a..(n - 1) /\ b + 1 \in 1..n
          /\ \A j \in a..b : j \in 1..n
          /\ a # 1 => a - 1 \in 1..n
      BY <1>17, <2>1
    <3>2. NoNewLine(t, a, b) /\ Begins(t, a) /\ t[b + 1] = NewLine
      BY <1>17, <3>1 DEF NoNewLine, Begins
    <3>3. PICK l \in DOMAIN lines, x \in Nat :
            /\ x + (b - a + 1) <= Len(lines[l])
            /\ \A j \in a..b : t[j] = lines[l][x + (j - a + 1)]
            /\ Len(lines[l]) = b - a + 1 \/ Len(lines[l]) >= LineMax
      BY <3>1, <3>2 DEF FullLines
    <3>4. \A j \in a..b : u[j] = t[j]
      BY <3>1
    <3> QED BY <3>3, <3>4
  <2>2. CASE ~(b + 1 <= n)
    <3>1. b + 1 \notin (n + 1)..m
      BY <1>0, <1>17
    <3>2. b = m /\ Len(u) = m + 1 /\ s = 0 /\ a \in 1..m /\ a \in 1..(m + 1)
      BY <1>17, <2>2, <3>1
    <3>3. k = Len(line)
      BY <3>2
    <3>9. NoNewLine(u, a, m)
      BY <1>17, <3>2
    <3>4. PICK x : x = k - (m - a + 1)
      OBVIOUS
    <3>5. m - a + 1 <= k /\ \A j \in a..m : u[j] = line[k + j - m]
      BY <1>12, <3>2, <3>9
    <3>10. x \in Nat /\ x + (b - a + 1) = Len(line)
      BY <3>2, <3>3, <3>4, <3>5
    <3>6. ASSUME NEW j \in a..b PROVE u[j] = line[x + (j - a + 1)]
      <4>1. j \in a..m /\ k + j - m = x + (j - a + 1)
        BY <3>2, <3>4
      <4> QED BY <3>5, <4>1
    <3>7. Len(line) = b - a + 1 \/ Len(line) >= LineMax
      BY <1>13, <1>17, <3>2, <3>3, <3>9
    <3>8. at \in DOMAIN lines /\ x + (b - a + 1) <= Len(lines[at])
      BY <3>10
    <3> QED BY <3>6, <3>7, <3>8, <3>10
  <2> QED BY <2>1, <2>2
<1>18. u = Longer(text, lines[at], sent, k) /\ s = IF k = Len(lines[at]) THEN 0 ELSE k
  BY <1>1 DEF Longer
<1>19. InLines(u, lines) /\ FullLines(u, lines) /\ EndsWith(u, line, s) /\ OpenLine(u, line, s)
  <2>1. InLines(u, lines)
    BY <1>11, Zenon DEF InLines
  <2>2. FullLines(u, lines)
    BY <1>17, Zenon DEF FullLines
  <2>3. EndsWith(u, line, s)
    BY <1>15, Zenon DEF EndsWith
  <2>4. OpenLine(u, line, s)
    BY <1>16, Zenon DEF OpenLine
  <2> QED BY <2>1, <2>2, <2>3, <2>4
<1> QED BY <1>6, <1>18, <1>19

-----------------------------------------------------------------------------
(* A plan that is carried out was asked for.                               *)

\* Both ways to find the value of a member end at a member.
LEMMA RawIsMember ==
  ASSUME NEW t, t \in Seq(Range(t)), NEW o, NEW k, NEW values, FindsMember(t, o, k, values),
         NEW i \in values, i \in DOMAIN t, i = Raw(t, k)
  PROVE  i - 2 \in Keys(t, o, k)
<1> DEFINE found == {x \in DOMAIN t : t[x] = k}
           colons == {j \in DOMAIN t : found # {} /\ j > Min(found) /\ t[j] = ":"}
           m == Min(found)
<1>1. DOMAIN t = 1..Len(t) /\ Len(t) \in Nat
  OBVIOUS
<1>2. CASE \A x \in values : x - 2 \in Keys(t, o, k)
  BY <1>2
<1>3. CASE \A x \in DOMAIN t : t[x] = k => x \in Keys(t, o, k)
  <2>1. colons # {} /\ i = Min(colons) + 1
    <3>1. i # 0
      BY <1>1
    <3>2. Raw(t, k) = IF colons = {} THEN 0 ELSE Min(colons) + 1
      BY DEF Raw
    <3> HIDE DEF colons
    <3> QED BY <3>1, <3>2
  <2>2. found # {} /\ found \in SUBSET Nat
    <3>1. found \in SUBSET Nat
      BY <1>1
    <3> HIDE DEF found
    <3> QED BY <2>1, <3>1
  <2>3. m \in found
    <3> HIDE DEF found
    <3> QED BY <2>2, LeastExists
  <2>4. m \in Keys(t, o, k) /\ m \in Nat
    BY <1>3, <2>2, <2>3
  <2> HIDE DEF m
  <2>5. m + 1 \in DOMAIN t /\ t[m + 1] = ":"
    <3>1. m \in (o + 1)..(Len(t) - 1) /\ t[m + 1] = ":"
      BY <2>4 DEF Keys
    <3>2. m \in DOMAIN t
      BY <2>3
    <3> QED BY <1>1, <2>4, <3>1, <3>2
  <2>6. colons \in SUBSET Int /\ m + 1 \in colons /\ \A j \in colons : m + 1 <= j
    <3>1. colons = {j \in DOMAIN t : j > m /\ t[j] = ":"}
      BY <2>2 DEF m
    <3>2. ASSUME NEW j \in DOMAIN t, j > m PROVE m + 1 <= j
      BY <1>1, <2>4, <3>2
    <3>3. m + 1 > m
      BY <2>4
    <3> HIDE DEF colons
    <3>4. m + 1 \in colons /\ colons \in SUBSET Int
      BY <1>1, <2>5, <3>1, <3>3
    <3> QED BY <3>1, <3>2, <3>4
  <2> HIDE DEF colons
  <2>7. i = (m + 1) + 1
    BY <2>1, <2>6, MinIs
  <2>8. i - 2 = m
    BY <2>4, <2>7
  <2> QED BY <2>4, <2>8
<1> QED BY <1>2, <1>3 DEF FindsMember

LEMMA GetIsMember ==
  ASSUME NEW t, t \in Seq(Range(t)), NEW o, NEW k, NEW i \in DOMAIN t, i = Get(t, o, k)
  PROVE  o \in DOMAIN t /\ i - 2 \in Keys(t, o, k)
<1>1. DOMAIN t = 1..Len(t) /\ Len(t) \in Nat
  OBVIOUS
<1>2. Keys(t, o, k) # {} /\ i = Min(Keys(t, o, k)) + 2
  BY <1>1 DEF Get
<1>3. o \in DOMAIN t
  BY <1>2 DEF Keys, ObjectAt
<1>4. Keys(t, o, k) \in SUBSET Nat
  BY <1>1, <1>3 DEF Keys
<1>5. Min(Keys(t, o, k)) \in Keys(t, o, k)
  BY <1>2, <1>4, LeastExists
<1> QED BY <1>2, <1>3, <1>4, <1>5

\* A plan to delete goes by three members of one object of the line.
GoesBy(line, plan) ==
  \E o \in DOMAIN line :
    /\ \E i \in Keys(line, o, "path") : Where(StringAt(line, i + 2)) = plan.root
    /\ \E i \in Keys(line, o, "dryRun") \cup Keys(line, o, "dry_run") : line[i + 2] = "false"
    /\ \E i \in Days(line, o) : IsNumber(line, i) /\ NumberOf[line[i]] = plan.days

LEMMA NativeGoesBy ==
  ASSUME NEW line, line \in Seq(Range(line)), NEW w, NEW o \in DOMAIN line, Unmistaken(line, o),
         NativePlan(line, w).code = "OK", ~NativePlan(line, w).dry
  PROVE  GoesBy(line, NativePlan(line, w))
<1> DEFINE path == Raw(line, "path")
           days == Raw(line, "days")
           dry == Raw(line, "dryRun")
           plan == NativePlan(line, w)
<1> HIDE DEF path, days, dry
<1>1. /\ StringAt(line, path) # "" /\ IsNumber(line, days)
      /\ plan = OnPath(w, Where(StringAt(line, path)), NumberOf[line[days]], BoolAt(line, dry, TRUE),
                       Resolves(w, Where(StringAt(line, path))))
  BY DEF NativePlan, NoPlan, Plan, path, days, dry
<1> DEFINE b == BoolAt(line, dry, TRUE)
           p == Where(StringAt(line, path))
           n == NumberOf[line[days]]
<1>2. plan = Plan("OK", p, n, b)
  <2> HIDE DEF p, n, b, plan
  <2>1. plan = OnPath(w, p, n, b, Resolves(w, p)) /\ plan.code = "OK"
    BY <1>1 DEF p, n, b, plan
  <2> QED BY <2>1 DEF OnPath, Plan, NoPlan
<1>3. plan.root = p /\ plan.days = n /\ ~BoolAt(line, dry, TRUE)
  <2> HIDE DEF p, n, b, plan
  <2>1. plan.root = p /\ plan.days = n /\ plan.dry = b
    BY <1>2 DEF Plan
  <2>2. ~b
    BY <2>1 DEF plan
  <2> QED BY <2>1, <2>2 DEF b
<1>4. IsString(line, path) /\ IsBool(line, dry) /\ line[dry] = "false"
  BY <1>1, <1>3 DEF StringAt, BoolAt, IsBool
<1>5. path \in DOMAIN line /\ days \in DOMAIN line /\ dry \in DOMAIN line
  BY <1>1, <1>4 DEF IsString, IsNumber, IsBool
<1>6. /\ path - 2 \in Keys(line, o, "path") /\ days - 2 \in Keys(line, o, "days")
      /\ dry - 2 \in Keys(line, o, "dryRun")
  <2>1. /\ path \in {i \in DOMAIN line : IsString(line, i)}
        /\ days \in {i \in DOMAIN line : IsNumber(line, i)}
        /\ dry \in {i \in DOMAIN line : IsBool(line, i)}
    BY <1>1, <1>4, <1>5
  <2> QED BY <1>5, <2>1, RawIsMember DEF Unmistaken, path, days, dry
<1>7. (path - 2) + 2 = path /\ (days - 2) + 2 = days /\ (dry - 2) + 2 = dry
  BY <1>5
<1> HIDE DEF plan
<1>8. days \in Days(line, o)
  BY <1>6, <1>7 DEF Days
<1>9. GoesBy(line, plan)
  BY <1>1, <1>3, <1>4, <1>6, <1>7, <1>8 DEF GoesBy
<1> QED BY <1>9 DEF plan

LEMMA LegacyGoesBy ==
  ASSUME NEW line, line \in Seq(Range(line)), NEW w,
         LegacyPlan(line, w).code = "OK", ~LegacyPlan(line, w).dry
  PROVE  GoesBy(line, LegacyPlan(line, w))
<1> DEFINE o == Arguments(line)
           path == Get(line, o, "path")
           days == Get(line, o, "days")
           first == Get(line, o, "dryRun")
           second == Get(line, o, "dry_run")
           dry == FirstOf(first, second)
           plan == LegacyPlan(line, w)
<1> HIDE DEF o, path, days, dry
<1>1. /\ StringAt(line, path) # "" /\ IsNumber(line, days)
      /\ plan = OnPath(w, Where(StringAt(line, path)), NumberOf[line[days]], BoolAt(line, dry, TRUE),
                       Resolves(w, Where(StringAt(line, path))))
  BY DEF LegacyPlan, NoPlan, Plan, o, path, days, dry
<1> DEFINE b == BoolAt(line, dry, TRUE)
           p == Where(StringAt(line, path))
           n == NumberOf[line[days]]
<1>2. plan = Plan("OK", p, n, b)
  <2> HIDE DEF p, n, b, plan
  <2>1. plan = OnPath(w, p, n, b, Resolves(w, p)) /\ plan.code = "OK"
    BY <1>1 DEF p, n, b, plan
  <2> QED BY <2>1 DEF OnPath, Plan, NoPlan
<1>3. plan.root = p /\ plan.days = n /\ ~BoolAt(line, dry, TRUE)
  <2> HIDE DEF p, n, b, plan
  <2>1. plan.root = p /\ plan.days = n /\ plan.dry = b
    BY <1>2 DEF Plan
  <2>2. ~b
    BY <2>1 DEF plan
  <2> QED BY <2>1, <2>2 DEF b
<1>4. IsString(line, path) /\ IsBool(line, dry) /\ line[dry] = "false"
  BY <1>1, <1>3 DEF StringAt, BoolAt, IsBool
<1>5. path \in DOMAIN line /\ days \in DOMAIN line /\ dry \in DOMAIN line
  BY <1>1, <1>4 DEF IsString, IsNumber, IsBool
<1>6. /\ o \in DOMAIN line /\ path - 2 \in Keys(line, o, "path")
      /\ days - 2 \in Keys(line, o, "days")
  BY <1>5, GetIsMember DEF path, days
<1>7. dry - 2 \in Keys(line, o, "dryRun") \cup Keys(line, o, "dry_run")
  <2>1. dry = first \/ dry = second
    BY DEF dry, FirstOf
  <2> QED BY <1>5, <2>1, GetIsMember
<1>8. (path - 2) + 2 = path /\ (days - 2) + 2 = days /\ (dry - 2) + 2 = dry
  BY <1>5
<1> HIDE DEF plan
<1>9. days \in Days(line, o)
  BY <1>6, <1>8 DEF Days
<1>10. GoesBy(line, plan)
  BY <1>1, <1>3, <1>4, <1>6, <1>7, <1>8, <1>9 DEF GoesBy
<1> QED BY <1>10 DEF plan

\* What a scan by such a plan finds is asked for.
LEMMA FoundIsAsked ==
  ASSUME NEW line, NEW plan, GoesBy(line, plan), NEW found \in Scans(ws, plan), NEW f \in found
  PROVE  Asked(line, f, ws.files[f].age)
<1>1. f \in Old(ws, plan.root, plan.days)
  BY DEF Scans, kSubset
<1>2. IsPrefix(plan.root, f) /\ ws.files[f].age > plan.days
  BY <1>1 DEF Old
<1> QED BY <1>2 DEF GoesBy, Asked, TellsToDelete, OlderThan

-----------------------------------------------------------------------------
(* The invariant.                                                          *)

\* How much a client may have sent of the line that its record r names.
SentFits(c, r) ==
  /\ r.sent \in Nat
  /\ r.phase = "start" => r.sent = 0
  /\ r.at \in DOMAIN script[c] => r.sent <= Len(script[c][r.at])
  /\ r.phase = "waiting" => r.at \in DOMAIN script[c] /\ r.sent = Len(script[c][r.at])
  /\ r.phase = "sending" =>
       \/ r.sent = 0
       \/ c \in Patient /\ r.at \in DOMAIN script[c] /\ r.sent < Len(script[c][r.at])

\* What was sent of a line that is not finished.
Begun(c, r) ==
  IF r.at \in DOMAIN script[c] /\ r.sent < Len(script[c][r.at]) THEN r.sent ELSE 0

\* The text ends with what was sent of the line that r names.
Reaches(t, c, r) ==
  /\ EndsWith(t, script[c][r.at], Begun(c, r))
  /\ OpenLine(t, script[c][r.at], Begun(c, r))

\* Texts are made of lines; the last connection's ends with what is sent of
\* the line the client is at, those before it with a newline, and those to
\* come are empty.  A client closes its socket when it fails or is done.
TextOf(c, m) ==
  LET w == wire[<<c, m>>] IN
  /\ w.text \in Seq(Range(w.text)) /\ InLines(w.text, script[c]) /\ FullLines(w.text, script[c])
  /\ w.eof => m < call[c].n \/ (m = call[c].n /\ call[c].phase = "done")
  /\ m > call[c].n \/ (m = call[c].n /\ call[c].phase = "start") => w.text = <<>>
  /\ m < call[c].n => EndsWith(w.text, <<>>, 0)
  /\ m = call[c].n =>
       \/ call[c].phase \in {"start", "done"} /\ w.text = <<>>
       \/ Reaches(w.text, c, call[c])

WorksOn ==
  /\ Busy => server.line \in Seq(Range(server.line)) /\ WasSent(server.at, server.line)
  /\ server.doing = "unlink" =>
       Mistakable(server.line) \/ \A e \in server.found : Asked(server.line, e.file, e.age)

DeletingInv ==
  /\ Shapes
  /\ \A c \in Clients : SentFits(c, call[c])
  /\ \A c \in Clients : \A m \in 1..Attempts[c] : TextOf(c, m)
  /\ WorksOn
  /\ \A r \in removed : r.conn \in Connections
  /\ DeletesAsAsked

LEMMA LinesAre ==
  ASSUME Lines, script \in Scripts, NEW c \in Clients, NEW l \in DOMAIN script[c]
  PROVE  /\ script[c][l] \in Seq(Range(script[c][l])) /\ Len(script[c][l]) \in Nat
         /\ NewLine \notin Range(script[c][l])
BY DEF Lines

\* Before anything is sent.
LEMMA NothingSent ==
  ASSUME NEW lines, NEW line, NEW sent
  PROVE  /\ <<>> \in Seq(Range(<<>>)) /\ InLines(<<>>, lines) /\ FullLines(<<>>, lines)
         /\ EndsWith(<<>>, line, sent) /\ OpenLine(<<>>, line, 0)
<1>1. Len(<<>>) = 0 /\ <<>> \in Seq(Range(<<>>))
  BY DEF Range
<1>2. \A a \in 1..(0 + 1) : 0 - a + 1 = 0
  OBVIOUS
<1> QED BY <1>1, <1>2 DEF InLines, FullLines, EndsWith, OpenLine

\* Behind a newline nothing of any line is sent.
LEMMA AllSent ==
  ASSUME NEW t, t \in Seq(Range(t)), NEW line, EndsWith(t, line, 0), NEW other
  PROVE  EndsWith(t, other, 0) /\ OpenLine(t, other, 0)
<1>1. Len(t) \in Nat
  OBVIOUS
<1>2. ASSUME NEW a \in 1..Len(t), NoNewLine(t, a, Len(t)) PROVE FALSE
  <2>1. Len(t) - a + 1 <= 0
    BY <1>2 DEF EndsWith
  <2> QED BY <1>1, <2>1
<1>3. ASSUME NEW a \in 1..(Len(t) + 1), NoNewLine(t, a, Len(t)) PROVE Len(t) - a + 1 = 0
  <2>1. a \notin 1..Len(t)
    BY <1>2, <1>3
  <2> QED BY <1>1, <2>1
<1> QED BY <1>2, <1>3 DEF EndsWith, OpenLine

\* What was sent stays sent: a client that left does nothing any more.
LEMMA WasSentStays ==
  ASSUME script' = script, NEW i \in Connections, NEW w, WasSent(i, w),
         \A c \in Clients : call[c].phase = "done" => call'[c] = call[c]
  PROVE  WasSent(i, w)'
<1>1. i[1] \in Clients
  BY ConnectionPairs
<1>2. CASE \E l \in DOMAIN script[i[1]] :
             LET line == script[i[1]][l] IN
             line = w \/ (Len(line) >= LineMax /\ IsPart(w, line))
  BY <1>2 DEF WasSent
<1>3. CASE LeftAt(i, w)
  <2>1. call'[i[1]] = call[i[1]]
    BY <1>1, <1>3 DEF LeftAt
  <2>2. LeftAt(i, w)'
    BY <1>3, <2>1 DEF LeftAt, HasLine, Line
  <2> QED BY <2>2 DEF WasSent
<1> QED BY <1>2, <1>3 DEF WasSent

LEMMA DeletingStarts == ASSUME Lines, Init PROVE DeletingInv
<1>1. Shapes
  <2>1. \A c \in Clients : DOMAIN call[c] = {"phase", "n", "at", "sent", "got", "ok"} /\ call[c].n = 1
    BY DEF Init
  <2>2. \A i \in Connections : DOMAIN wire[i] = {"text", "eof", "answers", "closed"}
    BY DEF Init
  <2> QED BY <2>1, <2>2 DEF Init, Shapes, Idle, Lines
<1>2. ASSUME NEW c \in Clients PROVE SentFits(c, call[c])
  <2>1. call[c].phase = "start" /\ call[c].sent = 0 /\ call[c].at = 1
    BY DEF Init
  <2>2. 1 \in DOMAIN script[c] => Len(script[c][1]) \in Nat
    BY LinesAre DEF Init
  <2> QED BY <2>1, <2>2 DEF SentFits
<1>3. ASSUME NEW c \in Clients, NEW m \in 1..Attempts[c] PROVE TextOf(c, m)
  <2>1. wire[<<c, m>>].text = <<>> /\ ~wire[<<c, m>>].eof
    BY ConnectionPairs DEF Init
  <2>2. call[c].phase = "start"
    BY DEF Init
  <2> QED BY <2>1, <2>2, NothingSent DEF TextOf
<1>4. WorksOn /\ DeletesAsAsked /\ \A r \in removed : r.conn \in Connections
  BY DEF Init, Idle, WorksOn, Busy, DeletesAsAsked
<1> QED BY <1>1, <1>2, <1>3, <1>4 DEF DeletingInv

\* What the steps of clients keep of the server's side.
LEMMA WorkStays ==
  ASSUME DeletingInv, UNCHANGED <<script, server, removed>>,
         \A c \in Clients : call[c].phase = "done" => call'[c] = call[c]
  PROVE  WorksOn' /\ DeletesAsAsked' /\ \A r \in removed' : r.conn \in Connections
<1>1. \A i \in Connections : \A w : WasSent(i, w) => WasSent(i, w)'
  BY WasSentStays
<1>2. Busy => server.at \in Connections
  BY DEF DeletingInv, Shapes, Busy
<1>3. ASSUME Busy PROVE WasSent(server.at, server.line)'
  <2>1. PICK i \in Connections : i = server.at
    BY <1>2, <1>3
  <2>2. PICK w : w = server.line
    OBVIOUS
  <2>3. WasSent(i, w)'
    BY <1>1, <1>3, <2>1, <2>2 DEF DeletingInv, WorksOn
  <2> QED BY <2>1, <2>2, <2>3
<1>4. WorksOn'
  BY <1>3 DEF DeletingInv, WorksOn, Busy, Mistakable, NativeCall, Asked
<1>5. ASSUME NEW r \in removed PROVE WasSent(r.conn, r.line)'
  BY <1>1 DEF DeletingInv, DeletesAsAsked
<1>6. DeletesAsAsked'
  BY <1>5 DEF DeletingInv, DeletesAsAsked, Mistakable, Asked
<1> QED BY <1>4, <1>6 DEF DeletingInv

\* One client's call goes on; the connections keep their texts.  It stays on
\* its connection, or closes it behind whole lines and takes the next one.
LEMMA DeletingCall ==
  ASSUME DeletingInv, NEW c \in Clients, NEW next,
         call' = [call EXCEPT ![c] = next] \/ (call' = call /\ next = call[c]),
         DOMAIN next = {"phase", "n", "at", "sent", "got", "ok"}, next.n \in 1..Attempts[c],
         UNCHANGED <<script, server, removed>>, call[c].phase # "done",
         queue' \in Seq(Connections), DOMAIN wire' = Connections,
         \A i \in Connections : /\ DOMAIN wire'[i] = DOMAIN wire[i]
                                /\ wire'[i].text = wire[i].text
                                /\ i # Conn(c) => wire'[i].eof = wire[i].eof,
         SentFits(c, next),
         \/ /\ next.n = call[c].n
            /\ next.phase = "start" => call[c].phase = "start"
            /\ next.phase # "done" => wire'[Conn(c)].eof = wire[Conn(c)].eof
            /\ \/ next.phase \in {"start", "done"} /\ wire[Conn(c)].text = <<>>
               \/ Reaches(wire[Conn(c)].text, c, next)
         \/ /\ next.n = call[c].n + 1 /\ next.phase = "start"
            /\ EndsWith(wire[Conn(c)].text, <<>>, 0)
  PROVE  DeletingInv'
<1>1. /\ call'[c] = next /\ \A d \in Clients : d # c => call'[d] = call[d]
      /\ DOMAIN call' = Clients
  BY DEF DeletingInv, Shapes
<1>2. Shapes'
  <2>1. \A d \in Clients : /\ DOMAIN call'[d] = {"phase", "n", "at", "sent", "got", "ok"}
                           /\ call'[d].n \in 1..Attempts[d]
    BY <1>1 DEF DeletingInv, Shapes
  <2> QED BY <1>1, <2>1 DEF DeletingInv, Shapes
<1>3. ASSUME NEW d \in Clients PROVE SentFits(d, call[d])'
  <2>1. CASE d # c
    BY <1>1, <1>3, <2>1 DEF DeletingInv, SentFits
  <2>2. CASE d = c
    BY <1>1, <2>2 DEF SentFits
  <2> QED BY <2>1, <2>2
<1>4. ASSUME NEW d \in Clients, NEW m \in 1..Attempts[d] PROVE TextOf(d, m)'
  <2>1. wire'[<<d, m>>].text = wire[<<d, m>>].text /\ TextOf(d, m) /\ <<d, m>> \in Connections
    BY <1>4, ConnectionPairs DEF DeletingInv
  <2>2. m \in Int /\ call[d].n \in Int /\ call'[d].n \in Int
    <3>1. call[d].n \in 1..Attempts[d] /\ call'[d].n \in 1..Attempts[d]
      BY <1>2 DEF DeletingInv, Shapes
    <3> QED BY <3>1
  <2>3. CASE d # c
    <3>1. wire'[<<d, m>>].eof = wire[<<d, m>>].eof /\ call'[d] = call[d]
      BY <1>1, <2>1, <2>3 DEF Conn
    <3> QED BY <2>1, <3>1 DEF TextOf, Reaches, Begun
  <2>4. CASE d = c /\ m # call[c].n
    <3>1. wire'[<<d, m>>].eof = wire[<<d, m>>].eof
      BY <2>1, <2>4 DEF Conn
    <3>2. CASE next.n = call[c].n
      BY <1>1, <2>1, <2>2, <2>4, <3>1, <3>2 DEF TextOf
    <3>3. CASE next.n = call[c].n + 1 /\ next.phase = "start"
      <4>1. m < call[c].n \/ m > call[c].n
        BY <2>2, <2>4
      <4>2. m > call[c].n => ~wire[<<d, m>>].eof /\ wire[<<d, m>>].text = <<>>
        BY <2>1, <2>2, <2>4 DEF TextOf
      <4>3. m < call[c].n => EndsWith(wire[<<d, m>>].text, <<>>, 0)
        BY <2>1, <2>2, <2>4 DEF TextOf
      <4>4. m < call[c].n => m < call'[d].n
        BY <1>1, <2>2, <2>4, <3>3
      <4>5. m > call[c].n => ~(m < call'[d].n)
        BY <1>1, <2>2, <2>4, <3>3
      <4> QED BY <1>1, <2>1, <2>2, <2>4, <3>1, <3>3, <4>1, <4>2, <4>3, <4>4, <4>5 DEF TextOf
    <3> QED BY <3>2, <3>3
  <2>5. CASE d = c /\ m = call[c].n
    <3>1. <<d, m>> = Conn(c) /\ ~wire[<<d, m>>].eof
      BY <2>1, <2>2, <2>5 DEF TextOf, Conn
    <3>2. CASE next.n = call[c].n
      <4>1. next.phase # "done" => ~wire'[<<d, m>>].eof
        BY <2>2, <3>1, <3>2
      <4>2. \/ next.phase \in {"start", "done"} /\ wire[<<d, m>>].text = <<>>
            \/ Reaches(wire[<<d, m>>].text, c, next)
        BY <2>2, <3>1, <3>2
      <4>3. next.phase = "start" => wire[<<d, m>>].text = <<>>
        BY <2>1, <2>2, <2>5, <3>2 DEF TextOf
      <4>4. ~(m < call'[d].n) /\ ~(m > call'[d].n) /\ m = call'[d].n /\ call'[d] = next
        BY <1>1, <2>2, <2>5, <3>2
      <4>5. \A t : Reaches(t, c, next) => Reaches(t, c, next)'
        BY DEF Reaches, Begun
      <4> QED BY <2>1, <2>5, <4>1, <4>2, <4>3, <4>4, <4>5 DEF TextOf
    <3>3. CASE next.n = call[c].n + 1
      <4>1. m < call'[d].n /\ ~(m > call'[d].n) /\ m # call'[d].n
        BY <1>1, <2>2, <2>5, <3>3
      <4>2. EndsWith(wire[<<d, m>>].text, <<>>, 0)
        BY <2>2, <2>5, <3>1, <3>3
      <4> QED BY <2>1, <4>1, <4>2 DEF TextOf
    <3> QED BY <3>2, <3>3
  <2> QED BY <2>3, <2>4, <2>5
<1>5. \A d \in Clients : call[d].phase = "done" => call'[d] = call[d]
  BY <1>1
<1> QED BY <1>2, <1>3, <1>4, <1>5, WorkStays DEF DeletingInv

LEMMA DeletingSend ==
  ASSUME Lines, DeletingInv, NEW c \in Clients, Send(c)
  PROVE  DeletingInv'
<1>1. PICK k \in Amounts(c) :
        /\ wire' = [wire EXCEPT ![Conn(c)].text = @ \o SubSeq(Line(c), call[c].sent + 1, k)
                       \o (IF k = Len(Line(c)) THEN <<NewLine>> ELSE <<>>)]
        /\ call' = [call EXCEPT ![c].sent = k,
              ![c].phase = IF (IF k = Len(Line(c)) THEN <<NewLine>> ELSE <<>>) = <<>>
                           THEN "sending" ELSE "waiting"]
  BY DEF Send
<1> DEFINE end == IF k = Len(Line(c)) THEN <<NewLine>> ELSE <<>>
           text == wire[Conn(c)].text
<1>2. /\ Conn(c) \in Connections /\ Conn(c) = <<c, call[c].n>> /\ call[c].n \in 1..Attempts[c]
      /\ call[c].n \in Int
  BY ConnectionPairs DEF DeletingInv, Shapes, Conn
<1>3. /\ DOMAIN wire' = Connections
      /\ \A i \in Connections : /\ DOMAIN wire'[i] = DOMAIN wire[i]
                                /\ wire'[i].eof = wire[i].eof
                                /\ i # Conn(c) => wire'[i] = wire[i]
      /\ wire'[Conn(c)].text = text \o SubSeq(Line(c), call[c].sent + 1, k) \o end
  BY <1>1, <1>2 DEF DeletingInv, Shapes
<1>4. /\ DOMAIN call' = Clients
      /\ \A d \in Clients : /\ DOMAIN call'[d] = DOMAIN call[d]
                            /\ call'[d].n = call[d].n /\ call'[d].at = call[d].at
                            /\ d # c => call'[d] = call[d]
      /\ call'[c].sent = k
      /\ call'[c].phase = IF k = Len(Line(c)) THEN "waiting" ELSE "sending"
  <2>1. end = <<>> <=> k # Len(Line(c))
    OBVIOUS
  <2> QED BY <1>1, <2>1 DEF DeletingInv, Shapes
<1>5. UNCHANGED <<script, queue, server, removed>> /\ call[c].phase = "sending" /\ HasLine(c)
  BY DEF Send
<1>6. Shapes'
  BY <1>3, <1>4, <1>5 DEF DeletingInv, Shapes
\* The line, and how much of it is sent already.
<1>7. /\ call[c].at \in DOMAIN script[c] /\ Line(c) = script[c][call[c].at]
      /\ Line(c) \in Seq(Range(Line(c))) /\ Len(Line(c)) \in Nat /\ NewLine \notin Range(Line(c))
      /\ call[c].sent \in Nat /\ call[c].sent <= k /\ k <= Len(Line(c)) /\ k \in Nat
      /\ k = Len(Line(c)) \/ c \in Patient
  <2>1. call[c].at \in DOMAIN script[c] /\ Line(c) = script[c][call[c].at]
    BY <1>5 DEF HasLine, Line
  <2>2. Line(c) \in Seq(Range(Line(c))) /\ Len(Line(c)) \in Nat /\ NewLine \notin Range(Line(c))
    BY <2>1, LinesAre DEF DeletingInv, Shapes
  <2>3. call[c].sent \in Nat /\ call[c].sent <= Len(Line(c))
    BY <2>1 DEF DeletingInv, SentFits
  <2>4. k = Len(Line(c)) \/ (c \in Patient /\ call[c].sent < k /\ k < Len(Line(c)) /\ k \in Nat)
    BY <2>2, <2>3, CutsAreNumbers DEF Amounts
  <2> QED BY <2>1, <2>2, <2>3, <2>4
<1>8. TextOf(c, call[c].n)
  BY <1>2 DEF DeletingInv
<1>9. Begun(c, call[c]) = call[c].sent
  BY <1>5, <1>7 DEF DeletingInv, SentFits, Begun
<1>10. /\ text \in Seq(Range(text)) /\ InLines(text, script[c]) /\ FullLines(text, script[c])
       /\ EndsWith(text, Line(c), call[c].sent) /\ OpenLine(text, Line(c), call[c].sent)
  BY <1>2, <1>5, <1>7, <1>8, <1>9 DEF TextOf, Reaches
<1> DEFINE u == wire'[Conn(c)].text
           s == IF k = Len(Line(c)) THEN 0 ELSE k
<1>11. /\ u \in Seq(Range(u)) /\ InLines(u, script[c]) /\ FullLines(u, script[c])
       /\ EndsWith(u, Line(c), s) /\ OpenLine(u, Line(c), s)
  <2> DEFINE T == Range(text) \cup Range(Line(c)) \cup {NewLine}
             sent == call[c].sent
             lines == script[c]
             at == call[c].at
             long == Longer(text, lines[at], sent, k)
             rest == IF k = Len(lines[at]) THEN 0 ELSE k
  <2>1. text \in Seq(T) /\ lines[at] \in Seq(T) /\ NewLine \in T
    <3>1. text \in Seq(T)
      BY <1>10 DEF Range
    <3>2. lines[at] \in Seq(T)
      BY <1>7 DEF Range
    <3> QED BY <3>1, <3>2
  <2>2. u = long
    BY <1>3, <1>7 DEF Longer
  <2>4. /\ sent \in Nat /\ k \in Nat /\ sent <= k /\ k <= Len(lines[at])
        /\ at \in DOMAIN lines /\ lines[at] = Line(c) /\ NewLine \notin Range(lines[at])
    BY <1>7
  <2>5. /\ InLines(text, lines) /\ FullLines(text, lines)
        /\ EndsWith(text, lines[at], sent) /\ OpenLine(text, lines[at], sent)
    BY <1>7, <1>10
  <2>8. s = rest
    BY <2>4
  <2> HIDE DEF T, text, u, end, sent, lines, at
  <2>6. /\ long \in Seq(T) /\ InLines(long, lines) /\ FullLines(long, lines)
        /\ EndsWith(long, lines[at], rest) /\ OpenLine(long, lines[at], rest)
    BY <2>1, <2>4, <2>5, SendsMore
  <2> HIDE DEF long, rest
  <2>7. u \in Seq(Range(u))
    BY <2>2, <2>6 DEF Range
  <2>9. lines = script[c]
    BY DEF lines
  <2> HIDE DEF s
  <2> QED BY <2>2, <2>4, <2>6, <2>7, <2>8, <2>9
<1>13. ASSUME NEW d \in Clients PROVE SentFits(d, call[d])'
  <2>1. CASE d # c
    BY <1>4, <1>5, <1>13, <2>1 DEF DeletingInv, SentFits
  <2>2. CASE d = c
    <3>1. /\ script'[c][call'[c].at] = Line(c) /\ call'[c].at \in DOMAIN script'[c]
          /\ k < Len(Line(c)) \/ k = Len(Line(c))
      BY <1>4, <1>5, <1>7
    <3> QED BY <1>4, <1>7, <2>2, <3>1 DEF SentFits
  <2> QED BY <2>1, <2>2
<1>14. ASSUME NEW d \in Clients, NEW x \in 1..Attempts[d] PROVE TextOf(d, x)'
  <2>1. TextOf(d, x) /\ <<d, x>> \in Connections
    BY <1>14, ConnectionPairs DEF DeletingInv
  <2>2. CASE <<d, x>> # Conn(c)
    <3>1. wire'[<<d, x>>] = wire[<<d, x>>]
      BY <1>3, <2>1, <2>2
    <3>2. \/ d # c /\ call'[d] = call[d]
          \/ d = c /\ x # call[c].n /\ call'[c].n = call[c].n
      BY <1>2, <1>4, <1>14, <2>2
    <3>3. CASE d # c /\ call'[d] = call[d]
      BY <1>5, <2>1, <3>1, <3>3 DEF TextOf, Reaches, Begun
    <3>4. CASE d = c /\ x # call[c].n /\ call'[c].n = call[c].n
      BY <1>5, <2>1, <3>1, <3>4 DEF TextOf
    <3> QED BY <3>2, <3>3, <3>4
  <2>3. CASE <<d, x>> = Conn(c)
    <3>1. d = c /\ x = call[c].n /\ call'[c].n = call[c].n /\ script' = script
      BY <1>2, <1>4, <1>5, <2>3
    <3>2. ~(x > call'[d].n) /\ ~(x < call'[d].n) /\ call'[d].phase # "start"
      BY <1>2, <1>4, <3>1
    <3>3. ~wire'[<<d, x>>].eof
      BY <1>2, <1>3, <1>5, <1>8, <2>1, <3>1 DEF TextOf
    <3>4. Begun(c, call[c])' = s
      BY <1>4, <1>5, <1>7, <3>1 DEF Begun
    <3>5. wire'[<<d, x>>].text = u /\ script'[c][call'[c].at] = Line(c)
      BY <1>4, <1>5, <1>7, <2>3
    <3> HIDE DEF u, s
    <3>6. Reaches(wire[<<d, x>>].text, c, call[c])'
      BY <1>11, <3>4, <3>5 DEF Reaches
    <3> QED BY <1>11, <3>1, <3>2, <3>3, <3>5, <3>6 DEF TextOf
  <2> QED BY <2>2, <2>3
<1>15. \A d \in Clients : call[d].phase = "done" => call'[d] = call[d]
  BY <1>4, <1>5
<1> QED BY <1>5, <1>6, <1>13, <1>14, <1>15, WorkStays DEF DeletingInv

LEMMA ClientKeepsDeleting ==
  ASSUME Lines, DeletingInv, NEW c \in Clients, ClientStep(c) \/ HangUp(c)
  PROVE  DeletingInv'
<1> DEFINE text == wire[Conn(c)].text
<1>1. /\ Conn(c) \in Connections /\ Conn(c) = <<c, call[c].n>> /\ call[c].n \in 1..Attempts[c]
      /\ Attempts[c] \in Nat \ {0} /\ script \in Scripts
  BY ConnectionPairs DEF DeletingInv, Shapes, Conn, Lines
<1>2. /\ DOMAIN call = Clients
      /\ DOMAIN call[c] = {"phase", "n", "at", "sent", "got", "ok"}
      /\ DOMAIN wire = Connections
      /\ \A i \in Connections : DOMAIN wire[i] = {"text", "eof", "answers", "closed"}
      /\ queue \in Seq(Connections)
  BY <1>1 DEF DeletingInv, Shapes
<1>3. TextOf(c, call[c].n) /\ SentFits(c, call[c])
  BY <1>1 DEF DeletingInv
<1>15. /\ text \in Seq(Range(text))
       /\ call[c].phase = "start" => text = <<>>
       /\ \/ call[c].phase \in {"start", "done"} /\ text = <<>>
          \/ Reaches(text, c, call[c])
  BY <1>1, <1>3 DEF TextOf
<1>16. call[c].phase = "waiting" \/ (call[c].phase = "sending" /\ c \notin Patient) =>
         Begun(c, call[c]) = 0
  <2>1. CASE call[c].phase = "waiting"
    <3>1. call[c].at \in DOMAIN script[c] /\ call[c].sent = Len(script[c][call[c].at])
      BY <1>3, <2>1 DEF SentFits
    <3>2. Len(script[c][call[c].at]) \in Nat
      BY <1>1, <3>1, LinesAre
    <3> QED BY <3>1, <3>2 DEF Begun
  <2>2. CASE call[c].phase = "sending" /\ c \notin Patient
    BY <1>3, <2>2 DEF SentFits, Begun
  <2> QED BY <2>1, <2>2
\* Then a newline ends the text, if there is one.
<1>17. ASSUME Begun(c, call[c]) = 0, call[c].phase # "done", NEW other
       PROVE  EndsWith(text, other, 0) /\ OpenLine(text, other, 0)
  <2> HIDE DEF text
  <2>1. CASE text = <<>>
    BY <2>1, NothingSent
  <2>2. CASE Reaches(text, c, call[c])
    <3>1. EndsWith(text, script[c][call[c].at], 0)
      BY <1>17, <2>2 DEF Reaches
    <3> QED BY <1>15, <3>1, AllSent
  <2> QED BY <1>15, <2>1, <2>2
\* A failed attempt starts over on a connection of its own, or ends the call.
<1>4. /\ DOMAIN Failed(c) = {"phase", "n", "at", "sent", "got", "ok"}
      /\ Failed(c).n \in 1..Attempts[c] /\ SentFits(c, Failed(c))
      /\ \/ Failed(c).n = call[c].n + 1 /\ Failed(c).phase = "start"
         \/ /\ Failed(c).n = call[c].n /\ Failed(c).phase = "done"
            /\ Failed(c).at = call[c].at /\ Failed(c).sent = call[c].sent
  <2>1. CASE call[c].n < Attempts[c]
    <3>1. Failed(c) = [call[c] EXCEPT !.phase = "start", !.n = call[c].n + 1, !.at = 1, !.sent = 0]
      BY <2>1 DEF Failed
    <3>2. /\ DOMAIN Failed(c) = DOMAIN call[c] /\ Failed(c).n = call[c].n + 1
          /\ Failed(c).at = 1 /\ Failed(c).sent = 0 /\ Failed(c).phase = "start"
      BY <1>2, <3>1
    <3>3. 1 \in DOMAIN script[c] => Len(script[c][1]) \in Nat
      BY <1>1, LinesAre
    <3>4. SentFits(c, Failed(c))
      BY <3>2, <3>3 DEF SentFits
    <3> QED BY <1>1, <1>2, <2>1, <3>2, <3>4
  <2>2. CASE ~(call[c].n < Attempts[c])
    <3>1. Failed(c) = [call[c] EXCEPT !.phase = "done"]
      BY <2>2 DEF Failed
    <3>2. /\ DOMAIN Failed(c) = DOMAIN call[c] /\ Failed(c).n = call[c].n
          /\ Failed(c).at = call[c].at /\ Failed(c).sent = call[c].sent /\ Failed(c).phase = "done"
      BY <1>2, <3>1
    <3> QED BY <1>1, <1>2, <1>3, <3>2 DEF SentFits
  <2> QED BY <2>1, <2>2
<1>5. ASSUME NEW next, Leaves(c, next)
      PROVE  /\ call' = [call EXCEPT ![c] = next] /\ UNCHANGED <<script, server, removed, queue>>
             /\ DOMAIN wire' = Connections
             /\ \A i \in Connections : /\ DOMAIN wire'[i] = DOMAIN wire[i]
                                       /\ wire'[i].text = wire[i].text
                                       /\ i # Conn(c) => wire'[i].eof = wire[i].eof
  BY <1>1, <1>2, <1>5 DEF Leaves
\* Whoever is done stays at the end of what it sent.
<1>6. ASSUME NEW next, Leaves(c, next), DOMAIN next = DOMAIN call[c], next.n = call[c].n,
             next.phase = "done", next.at = call[c].at, next.sent = call[c].sent,
             call[c].phase # "done"
      PROVE  DeletingInv'
  <2>1. next.n \in 1..Attempts[c] /\ SentFits(c, next)
    BY <1>1, <1>3, <1>6 DEF SentFits
  <2>2. \/ next.phase \in {"start", "done"} /\ wire[Conn(c)].text = <<>>
        \/ Reaches(wire[Conn(c)].text, c, next)
    BY <1>6, <1>15 DEF Reaches, Begun
  <2>3. /\ call' = [call EXCEPT ![c] = next] /\ UNCHANGED <<script, server, removed, queue>>
        /\ DOMAIN wire' = Connections
        /\ \A i \in Connections : /\ DOMAIN wire'[i] = DOMAIN wire[i]
                                  /\ wire'[i].text = wire[i].text
                                  /\ i # Conn(c) => wire'[i].eof = wire[i].eof
    BY <1>5, <1>6
  <2> QED BY <1>2, <1>6, <2>1, <2>2, <2>3, DeletingCall
<1>9. ASSUME call' = [call EXCEPT ![c] = Failed(c)], UNCHANGED <<script, server, removed, queue>>,
             DOMAIN wire' = Connections,
             \A i \in Connections : /\ DOMAIN wire'[i] = DOMAIN wire[i]
                                    /\ wire'[i].text = wire[i].text
                                    /\ i # Conn(c) => wire'[i].eof = wire[i].eof,
             call[c].phase # "done", Begun(c, call[c]) = 0
      PROVE  DeletingInv'
  <2>1. EndsWith(text, <<>>, 0)
    BY <1>9, <1>17
  <2>2. Failed(c).n = call[c].n =>
          \/ Failed(c).phase \in {"start", "done"} /\ wire[Conn(c)].text = <<>>
          \/ Reaches(wire[Conn(c)].text, c, Failed(c))
    <3>1. call[c].n # call[c].n + 1
      BY <1>1
    <3> QED BY <1>4, <1>9, <1>15, <3>1 DEF Reaches, Begun
  <2>3. PICK next : next = Failed(c)
    OBVIOUS
  <2> QED BY <1>1, <1>2, <1>4, <1>9, <2>1, <2>2, <2>3, DeletingCall
<1>7. CASE Connect(c)
  <2> DEFINE next == [call[c] EXCEPT !.phase = "sending"]
  <2>1. /\ call' = [call EXCEPT ![c] = next] /\ queue' = Append(queue, Conn(c))
        /\ UNCHANGED <<script, wire, server, removed>> /\ call[c].phase = "start"
    BY <1>2, <1>7 DEF Connect
  <2>2. /\ DOMAIN next = DOMAIN call[c] /\ next.n = call[c].n /\ next.at = call[c].at
        /\ next.sent = call[c].sent /\ next.phase = "sending"
    BY <1>2
  <2>3. queue' \in Seq(Connections)
    BY <1>1, <1>2, <2>1
  <2>4. next.sent = 0 /\ wire[Conn(c)].text = <<>>
    BY <1>3, <1>15, <2>1, <2>2 DEF SentFits
  <2> HIDE DEF next
  <2>5. SentFits(c, next)
    BY <1>3, <2>2, <2>4 DEF SentFits
  <2>6. Reaches(wire[Conn(c)].text, c, next)
    <3>1. Begun(c, next) = 0
      BY <2>4 DEF Begun
    <3> QED BY <2>4, <3>1, NothingSent DEF Reaches
  <2> QED BY <1>1, <1>2, <2>1, <2>2, <2>3, <2>5, <2>6, DeletingCall
<1>8. CASE ConnectTimesOut(c)
  <2>1. /\ call' = [call EXCEPT ![c] = Failed(c)] /\ call[c].phase = "start"
        /\ UNCHANGED <<script, wire, server, removed, queue>>
    BY <1>8 DEF ConnectTimesOut
  <2>2. Begun(c, call[c]) = 0
    BY <1>3, <2>1 DEF SentFits, Begun
  <2> QED BY <1>2, <1>9, <2>1, <2>2
<1>10. CASE Receive(c) \/ ReceivePart(c)
  <2>1. PICK got : Leaves(c, Received(c, got)) /\ call[c].phase = "waiting"
    BY <1>10 DEF Receive, ReceivePart
  <2> DEFINE next == Received(c, got)
  <2>2. /\ DOMAIN next = DOMAIN call[c] /\ next.n = call[c].n /\ next.phase = "done"
        /\ next.at = call[c].at /\ next.sent = call[c].sent
    BY <1>2 DEF Received
  <2>3. Leaves(c, next)
    BY <2>1
  <2> HIDE DEF next
  <2> QED BY <1>6, <2>1, <2>2, <2>3
<1>11. CASE SendRefused(c) \/ ReceiveEnd(c) \/ ReceiveTimesOut(c)
  <2>1. /\ Leaves(c, Failed(c))
        /\ \/ call[c].phase = "waiting"
           \/ call[c].phase = "sending" /\ c \notin Patient
    BY <1>11 DEF SendRefused, TooLong, ReceiveEnd, ReceiveTimesOut, NoLine
  <2> QED BY <1>5, <1>9, <1>16, <2>1
<1>12. CASE HangUp(c)
  <2> DEFINE next == [call[c] EXCEPT !.phase = "done"]
  <2>1. Leaves(c, next) /\ call[c].phase # "done"
    BY <1>12 DEF HangUp
  <2>2. /\ DOMAIN next = DOMAIN call[c] /\ next.n = call[c].n /\ next.phase = "done"
        /\ next.at = call[c].at /\ next.sent = call[c].sent
    BY <1>2
  <2> HIDE DEF next
  <2> QED BY <1>6, <2>1, <2>2
<1>13. CASE SendsOn(c)
  <2> DEFINE next == [call[c] EXCEPT !.at = @ + 1, !.sent = 0, !.phase = "sending"]
  <2>1. /\ call' = [call EXCEPT ![c] = next] /\ call[c].phase = "waiting"
        /\ UNCHANGED <<script, wire, queue, server, removed>>
    BY <1>2, <1>13 DEF SendsOn
  <2>2. /\ DOMAIN next = DOMAIN call[c] /\ next.n = call[c].n /\ next.sent = 0
        /\ next.phase = "sending"
    BY <1>2
  <2> HIDE DEF next
  <2>3. next.at \in DOMAIN script[c] => Len(script[c][next.at]) \in Nat
    BY <1>1, LinesAre
  <2>4. SentFits(c, next) /\ Begun(c, next) = 0
    BY <2>2, <2>3 DEF SentFits, Begun
  <2>5. Reaches(wire[Conn(c)].text, c, next)
    BY <1>16, <1>17, <2>1, <2>4 DEF Reaches
  <2> QED BY <1>1, <1>2, <2>1, <2>2, <2>4, <2>5, DeletingCall
<1>14. CASE Reads(c)
  <2>1. /\ UNCHANGED <<script, call, queue, server, removed>>
        /\ wire' = [wire EXCEPT ![Conn(c)].answers = Tail(@)] /\ call[c].phase # "done"
    BY <1>14 DEF Reads, clientVars
  <2>6. PICK i, x : i = Conn(c) /\ x = Tail(wire[Conn(c)].answers)
    OBVIOUS
  <2>7. wire' = [wire EXCEPT ![i] = [wire[i] EXCEPT !.answers = x]]
    BY <1>2, <2>1, <2>6
  <2>2. /\ DOMAIN wire' = Connections
        /\ \A j \in Connections : /\ DOMAIN wire'[j] = DOMAIN wire[j]
                                  /\ wire'[j].text = wire[j].text /\ wire'[j].eof = wire[j].eof
    BY <1>1, <1>2, <2>6, <2>7
  <2>4. \/ call[c].phase \in {"start", "done"} /\ wire[Conn(c)].text = <<>>
        \/ Reaches(wire[Conn(c)].text, c, call[c])
    BY <1>15
  <2>5. PICK next : next = call[c]
    OBVIOUS
  <2> QED BY <1>1, <1>2, <1>3, <2>1, <2>2, <2>4, <2>5, DeletingCall
<1> QED
  BY <1>7, <1>8, <1>10, <1>11, <1>12, <1>13, <1>14, DeletingSend DEF ClientStep

-----------------------------------------------------------------------------
(* The server's side.                                                      *)

\* recv_line takes tokens before the first newline, and no more than there
\* are: up to the newline, or a full buffer, or all when the client is gone.
LEMMA LineIsBefore ==
  ASSUME NEW t, t = Here.text, t \in Seq(Range(t)), LineReady
  PROVE  /\ LineSize \in 0..Len(t) /\ Consumed \in 0..Len(t)
         /\ \A j \in 1..LineSize : t[j] # NewLine
         /\ \/ LineSize + 1 \in 1..Len(t) /\ t[LineSize + 1] = NewLine
            \/ LineSize = LineMax
            \/ LineSize = Len(t) /\ Here.eof
         /\ Cut(t, Consumed) \/ (Consumed = Len(t) /\ Here.eof)
<1> DEFINE S == {i \in DOMAIN t : t[i] = NewLine} \cup {Len(t) + 1}
<1>1. DOMAIN t = 1..Len(t) /\ Len(t) \in Nat /\ LineMax \in Nat \ {0}
  BY Limits
<1>2. S \in SUBSET Nat /\ S # {}
  BY <1>1
<1>3. NewLineAt = Min(S)
  BY DEF NewLineAt
<1>4. NewLineAt \in S /\ \A x \in S : NewLineAt <= x
  <2> HIDE DEF S
  <2> QED BY <1>2, <1>3, LeastExists
<1>5. NewLineAt \in 1..(Len(t) + 1) /\ NewLineAt \in Nat
  BY <1>1, <1>4
<1>6. ASSUME NEW j \in 1..(NewLineAt - 1) PROVE t[j] # NewLine
  <2>1. j \in DOMAIN t /\ ~(NewLineAt <= j)
    BY <1>1, <1>5
  <2> QED BY <1>4, <2>1
<1>9. NewLineAt <= Len(t) => t[NewLineAt] = NewLine
  BY <1>1, <1>4
<1>10. NewLineAt <= Len(t) \/ Len(t) >= LineMax \/ Here.eof
  BY DEF LineReady
<1>7. CASE NewLineAt - 1 < LineMax
  <2>1. LineSize = NewLineAt - 1
    BY <1>1, <1>5, <1>7, MinOfTwo DEF LineSize
  <2>2. Consumed = Min({NewLineAt, Len(t)})
    BY <1>7 DEF Consumed
  <2>3. CASE NewLineAt <= Len(t)
    <3>1. Consumed = NewLineAt /\ t[Consumed] = NewLine
      BY <1>1, <1>5, <1>9, <2>2, <2>3, MinOfTwo
    <3>2. LineSize + 1 = NewLineAt
      BY <1>5, <2>1
    <3>3. LineSize + 1 \in 1..Len(t) /\ t[LineSize + 1] = NewLine
      BY <1>1, <1>5, <1>9, <2>3, <3>2
    <3>4. Cut(t, Consumed) /\ Consumed \in 0..Len(t) /\ LineSize \in 0..Len(t)
      BY <1>1, <1>5, <2>1, <2>3, <3>1 DEF Cut
    <3> QED BY <1>6, <2>1, <3>3, <3>4
  <2>4. CASE ~(NewLineAt <= Len(t))
    <3>1. NewLineAt = Len(t) + 1 /\ Len(t) <= NewLineAt /\ ~(Len(t) >= LineMax) /\ Here.eof
      BY <1>1, <1>5, <1>7, <1>10, <2>4
    <3>2. Consumed = Len(t)
      BY <1>1, <1>5, <2>2, <3>1, MinOfTwo
    <3> QED BY <1>1, <1>5, <1>6, <2>1, <3>1, <3>2
  <2> QED BY <2>3, <2>4
<1>8. CASE ~(NewLineAt - 1 < LineMax)
  <2>1. LineSize = LineMax
    BY <1>1, <1>5, <1>8, MinOfTwo DEF LineSize
  <2>2. Consumed = LineMax
    BY <1>8 DEF Consumed
  <2>3. LineMax \in 0..Len(t) /\ \A j \in 1..LineMax : j \in 1..(NewLineAt - 1)
    BY <1>1, <1>5, <1>8
  <2>4. Cut(t, Consumed)
    BY <1>1, <1>6, <2>2, <2>3 DEF Cut, NoNewLine
  <2> QED BY <1>6, <2>1, <2>2, <2>3, <2>4
<1> QED BY <1>7, <1>8

\* A line of which all of w is a part, from behind its first k tokens on.
LEMMA PartOf ==
  ASSUME NEW w, w \in Seq(Range(w)), NEW line, line \in Seq(Range(line)), NEW k \in Nat,
         k + Len(w) <= Len(line), \A j \in 1..Len(w) : w[j] = line[k + j]
  PROVE  IsPart(w, line) /\ (Len(line) = Len(w) => line = w)
<1>1. Len(w) \in Nat /\ Len(line) \in Nat /\ DOMAIN w = 1..Len(w)
  OBVIOUS
<1>2. k \in 0..Len(line)
  BY <1>1
<1>3. IsPart(w, line)
  BY <1>1, <1>2 DEF IsPart
<1>4. ASSUME Len(line) = Len(w) PROVE line = w
  <2>1. k = 0
    BY <1>1, <1>4
  <2> DEFINE T == Range(line) \cup Range(w)
  <2>2. line \in Seq(T) /\ w \in Seq(T)
    <3>1. line \in Seq(T)
      BY DEF Range
    <3>2. w \in Seq(T)
      BY DEF Range
    <3> QED BY <3>1, <3>2
  <2> HIDE DEF T
  <2>3. \A j \in 1..Len(line) : line[j] = w[j]
    BY <1>1, <1>4, <2>1
  <2> QED BY <1>4, <2>2, <2>3, SeqEqual
<1> QED BY <1>3, <1>4

\* What recv_line returns was sent on that connection.
LEMMA LineWasSent ==
  ASSUME Lines, DeletingInv, NEW c \in Clients, NEW m \in 1..Attempts[c], server.at = <<c, m>>,
         LineReady, LineSize # 0, NEW w, w = SubSeq(Here.text, 1, LineSize)
  PROVE  w \in Seq(Range(w)) /\ WasSent(<<c, m>>, w)
<1>1. PICK t : t = Here.text
  OBVIOUS
<1>2. TextOf(c, m) /\ t = wire[<<c, m>>].text /\ Here = wire[<<c, m>>] /\ SentFits(c, call[c])
      /\ script \in Scripts
  BY <1>1 DEF DeletingInv, Here, Shapes
<1>3. t \in Seq(Range(t)) /\ InLines(t, script[c]) /\ FullLines(t, script[c]) /\ Len(t) \in Nat
      /\ LineMax \in Nat \ {0}
  BY <1>2, Limits DEF TextOf
<1>4. /\ LineSize \in 1..Len(t) /\ LineSize \in Nat
      /\ \A j \in 1..LineSize : t[j] # NewLine
      /\ \/ LineSize + 1 \in 1..Len(t) /\ t[LineSize + 1] = NewLine
         \/ LineSize = LineMax
         \/ LineSize = Len(t) /\ Here.eof
  <2>1. /\ LineSize \in 0..Len(t)
        /\ \A j \in 1..LineSize : t[j] # NewLine
        /\ \/ LineSize + 1 \in 1..Len(t) /\ t[LineSize + 1] = NewLine
           \/ LineSize = LineMax
           \/ LineSize = Len(t) /\ Here.eof
    BY <1>1, <1>3, LineIsBefore
  <2> QED BY <1>3, <2>1
<1>5. PICK n : n = LineSize
  OBVIOUS
<1>6. w \in Seq(Range(t)) /\ Len(w) = n /\ \A j \in 1..n : w[j] = t[j]
  BY <1>1, <1>3, <1>4, <1>5, SubSeqProperties
<1>7. w \in Seq(Range(w)) /\ n \in 1..Len(t) /\ n \in Nat /\ n # 0
  <2>1. w \in Seq(Range(w))
    BY <1>6 DEF Range
  <2>2. n \in 1..Len(t) /\ n \in Nat
    BY <1>4, <1>5
  <2> QED BY <2>1, <2>2
<1>8. NoNewLine(t, 1, n) /\ Begins(t, 1) /\ 1 \in 1..Len(t)
  BY <1>3, <1>4, <1>5 DEF NoNewLine, Begins
\* A part of a line that is long, or all of it.
<1>9. ASSUME NEW l \in DOMAIN script[c], NEW k \in Nat, k + (n - 1 + 1) <= Len(script[c][l]),
             \A j \in 1..n : t[j] = script[c][l][k + (j - 1 + 1)],
             Len(script[c][l]) = n \/ Len(script[c][l]) >= LineMax
      PROVE  WasSent(<<c, m>>, w)
  <2>1. PICK line : line = script[c][l]
    OBVIOUS
  <2>2. line \in Seq(Range(line))
    BY <1>2, <2>1, LinesAre
  <2>3. k + Len(w) <= Len(line)
    BY <1>6, <1>7, <1>9, <2>1
  <2>4. \A j \in 1..Len(w) : w[j] = line[k + j]
    <3>1. \A j \in 1..n : k + (j - 1 + 1) = k + j
      BY <1>7
    <3> QED BY <1>6, <1>9, <2>1, <3>1
  <2>5. IsPart(w, line) /\ (Len(line) = Len(w) => line = w)
    BY <1>7, <2>2, <2>3, <2>4, PartOf
  <2> QED BY <1>6, <1>9, <2>1, <2>5 DEF WasSent
<1>10. CASE LineSize + 1 \in 1..Len(t) /\ t[LineSize + 1] = NewLine
  <2>1. n \in 1..(Len(t) - 1) /\ t[n + 1] = NewLine
    BY <1>3, <1>5, <1>7, <1>10
  <2>2. PICK l \in DOMAIN script[c], k \in Nat :
          /\ k + (n - 1 + 1) <= Len(script[c][l])
          /\ \A j \in 1..n : t[j] = script[c][l][k + (j - 1 + 1)]
          /\ Len(script[c][l]) = n - 1 + 1 \/ Len(script[c][l]) >= LineMax
    BY <1>3, <1>8, <2>1 DEF FullLines
  <2>3. n - 1 + 1 = n
    BY <1>7
  <2> QED BY <1>7, <1>9, <2>2, <2>3
<1>11. CASE LineSize = LineMax
  <2>1. PICK l \in DOMAIN script[c], k \in Nat :
          /\ k + (n - 1 + 1) <= Len(script[c][l])
          /\ \A j \in 1..n : t[j] = script[c][l][k + (j - 1 + 1)]
    BY <1>3, <1>7, <1>8 DEF InLines
  <2>2. Len(script[c][l]) \in Nat
    BY <1>2, LinesAre
  <2>3. Len(script[c][l]) >= LineMax
    BY <1>3, <1>5, <1>11, <2>1, <2>2
  <2> QED BY <1>7, <1>9, <2>1, <2>3
\* The client is gone, and has not finished its last line.
<1>12. CASE LineSize = Len(t) /\ Here.eof
  <2> DEFINE r == call[c]
             line == script[c][call[c].at]
  <2>1. n = Len(t) /\ 1 \in 1..Len(t) /\ NoNewLine(t, 1, Len(t)) /\ Len(t) - 1 + 1 = n
    BY <1>3, <1>5, <1>7, <1>8, <1>12
  <2>2. ~(m < r.n)
    <3>1. ASSUME m < r.n PROVE FALSE
      <4>1. EndsWith(t, <<>>, 0)
        BY <1>2, <3>1 DEF TextOf
      <4>2. Len(t) - 1 + 1 <= 0
        BY <2>1, <4>1 DEF EndsWith
      <4> QED BY <1>7, <2>1, <4>2
    <3> QED BY <3>1
  <2>3. m = r.n /\ r.phase = "done"
    BY <1>2, <1>12, <2>2 DEF TextOf
  <2>4. Reaches(t, c, r)
    <3>1. t # <<>>
      BY <1>7, <2>1
    <3> QED BY <1>2, <2>3, <3>1 DEF TextOf
  <2>5. PICK b : b = Begun(c, r)
    OBVIOUS
  <2>6. /\ n <= b /\ \A j \in 1..n : t[j] = line[b + j - n]
    <3>1. EndsWith(t, line, b)
      BY <2>4, <2>5 DEF Reaches
    <3>2. /\ Len(t) - 1 + 1 <= b /\ \A j \in 1..Len(t) : t[j] = line[b + j - Len(t)]
      BY <2>1, <3>1 DEF EndsWith
    <3> QED BY <2>1, <3>2
  <2>7. n = b \/ Len(line) >= LineMax
    <3>1. OpenLine(t, line, b)
      BY <2>4, <2>5 DEF Reaches
    <3>2. 1 \in 1..(Len(t) + 1)
      BY <1>3
    <3> QED BY <1>8, <2>1, <3>1, <3>2 DEF OpenLine
  <2>8. r.at \in DOMAIN script[c] /\ r.sent < Len(line) /\ b = r.sent /\ r.sent \in Nat
    <3>1. b # 0
      BY <1>7, <2>5, <2>6, <1>2 DEF SentFits, Begun
    <3> QED BY <1>2, <2>5, <3>1 DEF Begun, SentFits
  <2>9. line \in Seq(Range(line)) /\ Len(line) \in Nat
    BY <1>2, <2>8, LinesAre
  <2>10. CASE Len(line) >= LineMax
    <3>1. PICK k : k = b - n
      OBVIOUS
    <3>4. PICK len : len = Len(line)
      OBVIOUS
    <3>5. n \in Nat /\ b \in Nat /\ len \in Nat /\ n <= b /\ b < len
      BY <1>7, <2>6, <2>8, <2>9, <3>4
    <3>6. k \in Nat /\ k + (n - 1 + 1) <= len
      BY <3>1, <3>5
    <3>2. k \in Nat /\ k + (n - 1 + 1) <= Len(line)
      BY <3>4, <3>6
    <3>3. ASSUME NEW j \in 1..n PROVE t[j] = line[k + (j - 1 + 1)]
      <4>1. b + j - n = k + (j - 1 + 1)
        BY <1>7, <2>8, <3>1
      <4> QED BY <2>6, <4>1
    <3> QED BY <1>7, <1>9, <2>8, <2>10, <3>2, <3>3
  <2>11. CASE n = b
    <3>1. HasLine(c) /\ Line(c) = line /\ Len(w) = r.sent /\ Len(w) < Len(Line(c))
      BY <1>6, <2>8, <2>11 DEF HasLine, Line
    <3>2. IsPrefix(w, line)
      <4>1. \A j \in 1..n : w[j] = line[j]
        <5>1. \A j \in 1..n : b + j - n = j
          BY <1>7, <2>11
        <5> QED BY <1>6, <2>6, <5>1
      <4>2. SubSeq(w, 1, Len(w)) = w
        BY <1>7, SubSeqFull
      <4> DEFINE x == SubSeq(line, 1, n)
                 T == Range(line) \cup Range(w)
      <4>3. x \in Seq(Range(line)) /\ Len(x) = n /\ \A j \in 1..n : x[j] = line[j]
        <5>1. n <= Len(line) /\ \A j \in 1..n : j \in 1..Len(line)
          BY <1>7, <2>8, <2>9, <2>11
        <5> QED BY <1>7, <2>9, <5>1, SubSeqProperties
      <4>4. x \in Seq(T)
        <5> HIDE DEF x
        <5> QED BY <4>3
      <4>5. w \in Seq(T)
        BY <1>7
      <4> HIDE DEF x, T
      <4>6. \A j \in 1..Len(x) : x[j] = w[j]
        BY <4>1, <4>3
      <4>7. x = w
        BY <1>6, <4>3, <4>4, <4>5, <4>6, SeqEqual
      <4>8. Len(w) <= Len(line) /\ SubSeq(w, 1, Len(w)) = SubSeq(line, 1, Len(w))
        BY <1>6, <1>7, <2>8, <2>9, <2>11, <4>2, <4>7 DEF x
      <4> QED BY <4>8 DEF IsPrefix
    <3>3. LeftAt(<<c, m>>, w)
      BY <2>3, <3>1, <3>2 DEF LeftAt
    <3> QED BY <1>7, <3>3 DEF WasSent
  <2> QED BY <2>7, <2>10, <2>11
<1> QED BY <1>4, <1>7, <1>10, <1>11, <1>12

\* A step of the server that takes nothing from a connection: what it goes on
\* to delete was asked for, and so was what it unlinks.
LEMMA DeletingStep ==
  ASSUME DeletingInv, UNCHANGED <<script, call>>, queue' \in Seq(Connections),
         DOMAIN server' = DOMAIN Idle,
         server'.doing \in {"accept", "read", "send", "handle", "unlink"},
         server'.doing # "accept" => server'.at \in Connections,
         server'.doing \in {"send", "handle", "unlink"} =>
            Busy /\ server'.at = server.at /\ server'.line = server.line,
         server'.doing = "unlink" =>
            Mistakable(server.line) \/ \A e \in server'.found : Asked(server.line, e.file, e.age),
         DOMAIN wire' = Connections,
         \A i \in Connections : /\ DOMAIN wire'[i] = DOMAIN wire[i]
                                /\ wire'[i].text = wire[i].text /\ wire'[i].eof = wire[i].eof,
         \A r \in removed' : r \in removed \/ /\ Busy /\ r.conn = server.at /\ r.line = server.line
                                              /\ \/ Mistakable(server.line)
                                                 \/ Asked(server.line, r.file, r.age)
  PROVE  DeletingInv'
<1>1. Shapes'
  BY DEF DeletingInv, Shapes
<1>2. ASSUME NEW c \in Clients PROVE SentFits(c, call[c])'
  BY <1>2 DEF DeletingInv, SentFits
<1>3. ASSUME NEW c \in Clients, NEW m \in 1..Attempts[c] PROVE TextOf(c, m)'
  <2>1. /\ TextOf(c, m) /\ wire'[<<c, m>>].text = wire[<<c, m>>].text
        /\ wire'[<<c, m>>].eof = wire[<<c, m>>].eof
    BY <1>3, ConnectionPairs DEF DeletingInv
  <2> QED BY <2>1 DEF TextOf, Reaches, Begun
<1>4. \A i, w : WasSent(i, w) => WasSent(i, w)'
  BY DEF WasSent, LeftAt, HasLine, Line
<1>5. WorksOn'
  <2>1. ASSUME Busy' PROVE /\ server'.line \in Seq(Range(server'.line))
                           /\ WasSent(server.at, server.line)'
    <3>1. Busy /\ server'.at = server.at /\ server'.line = server.line
      BY <2>1 DEF Busy
    <3>2. server.line \in Seq(Range(server.line)) /\ WasSent(server.at, server.line)
      BY <3>1 DEF DeletingInv, WorksOn
    <3>3. PICK i, w : i = server.at /\ w = server.line
      OBVIOUS
    <3>4. WasSent(i, w)'
      BY <1>4, <3>2, <3>3
    <3> QED BY <3>1, <3>2, <3>3, <3>4
  <2>2. ASSUME server'.doing = "unlink"
        PROVE  (Mistakable(server.line) \/ \A e \in server.found : Asked(server.line, e.file, e.age))'
    <3>1. server'.line = server.line
      BY <2>2
    <3> QED BY <2>2, <3>1 DEF Mistakable, NativeCall, Asked
  <2> QED BY <2>1, <2>2 DEF WorksOn
<1>6. ASSUME NEW r \in removed'
      PROVE  /\ r.conn \in Connections /\ WasSent(r.conn, r.line)
             /\ Mistakable(r.line) \/ Asked(r.line, r.file, r.age)
  <2>1. CASE r \in removed
    BY <2>1 DEF DeletingInv, DeletesAsAsked
  <2>2. CASE r \notin removed
    <3>1. /\ r.conn = server.at /\ r.line = server.line /\ Busy
          /\ Mistakable(server.line) \/ Asked(server.line, r.file, r.age)
      BY <1>6, <2>2
    <3>2. WasSent(server.at, server.line) /\ server.at \in Connections
      BY <3>1 DEF DeletingInv, WorksOn, Busy, Shapes
    <3> QED BY <3>1, <3>2
  <2> QED BY <2>1, <2>2
<1>7. DeletesAsAsked'
  <2>1. ASSUME NEW r \in removed'
        PROVE  WasSent(r.conn, r.line)' /\ (Mistakable(r.line) \/ Asked(r.line, r.file, r.age))
    BY <1>4, <1>6, <2>1
  <2> QED BY <2>1 DEF DeletesAsAsked, Mistakable, NativeCall, Asked
<1> QED BY <1>1, <1>2, <1>3, <1>5, <1>6, <1>7 DEF DeletingInv

LEMMA DeletingReply ==
  ASSUME DeletingInv, Busy, NEW answer, NEW then, Replies(answer, then),
         UNCHANGED <<clientVars, wire, queue, removed>>
  PROVE  DeletingInv'
<1>1. /\ DOMAIN server = DOMAIN Idle /\ DOMAIN wire = Connections /\ server.at \in Connections
      /\ queue \in Seq(Connections)
  BY DEF DeletingInv, Shapes, Busy
<1>2. \A i \in Connections : /\ DOMAIN wire'[i] = DOMAIN wire[i]
                             /\ wire'[i].text = wire[i].text /\ wire'[i].eof = wire[i].eof
  OBVIOUS
<1>3. /\ DOMAIN server' = DOMAIN Idle /\ server'.doing = "send"
      /\ server'.at = server.at /\ server'.line = server.line
  BY <1>1 DEF Replies, Sends, Idle
<1> QED BY <1>1, <1>2, <1>3, DeletingStep DEF clientVars

LEMMA DeletingRead ==
  ASSUME Lines, DeletingInv, ReadLine
  PROVE  DeletingInv'
<1>1. /\ DOMAIN server = DOMAIN Idle /\ DOMAIN wire = Connections
      /\ \A i \in Connections : DOMAIN wire[i] = {"text", "eof", "answers", "closed"}
      /\ server.doing = "read" /\ server.at \in Connections /\ LineReady
      /\ UNCHANGED <<script, call, queue, removed>>
      /\ queue' \in Seq(Connections) /\ script \in Scripts
  BY DEF DeletingInv, Shapes, ReadLine, clientVars
<1>2. CASE LineSize = 0
  <2>1. wire' = [wire EXCEPT ![server.at].closed = TRUE] /\ server' = Close
    BY <1>2 DEF ReadLine
  <2>2. /\ DOMAIN wire' = Connections
        /\ \A i \in Connections : /\ DOMAIN wire'[i] = DOMAIN wire[i]
                                  /\ wire'[i].text = wire[i].text /\ wire'[i].eof = wire[i].eof
    BY <1>1, <2>1
  <2>3. DOMAIN server' = DOMAIN Idle /\ server'.doing = "accept"
    BY <2>1 DEF Close, Idle
  <2> QED BY <1>1, <2>2, <2>3, DeletingStep
<1>3. CASE LineSize # 0
  <2>1. /\ wire' = [wire EXCEPT ![server.at].text = SubSeq(@, Consumed + 1, Len(@))]
        /\ server' = [server EXCEPT !.line = SubSeq(Here.text, 1, LineSize), !.doing = "route"]
    BY <1>3 DEF ReadLine
  <2>2. PICK t : t = Here.text
    OBVIOUS
  <2>3. /\ DOMAIN wire' = Connections
        /\ \A i \in Connections : /\ DOMAIN wire'[i] = DOMAIN wire[i]
                                  /\ wire'[i].eof = wire[i].eof
                                  /\ i # server.at => wire'[i] = wire[i]
        /\ wire'[server.at].text = SubSeq(t, Consumed + 1, Len(t))
    BY <1>1, <2>1, <2>2 DEF Here
  <2>9. PICK w : w = SubSeq(Here.text, 1, LineSize)
    OBVIOUS
  <2>4. /\ DOMAIN server' = DOMAIN Idle /\ server'.doing = "route" /\ server'.at = server.at
        /\ server'.line = w
    BY <1>1, <2>1, <2>9 DEF Idle
  <2>5. PICK c, n : c \in Clients /\ n \in 1..Attempts[c] /\ server.at = <<c, n>>
    BY <1>1, ConnectionPairs
  <2>6. TextOf(c, n) /\ t = wire[<<c, n>>].text /\ SentFits(c, call[c]) /\ Here = wire[<<c, n>>]
    BY <2>2, <2>5 DEF DeletingInv, Here
  <2>7. t \in Seq(Range(t)) /\ InLines(t, script[c]) /\ FullLines(t, script[c]) /\ Len(t) \in Nat
    BY <2>6 DEF TextOf
  <2>8. Consumed \in 0..Len(t) /\ (Cut(t, Consumed) \/ (Consumed = Len(t) /\ Here.eof))
    BY <1>1, <2>2, <2>7, LineIsBefore
  <2>13. w \in Seq(Range(w)) /\ WasSent(server.at, w)
    BY <1>1, <1>3, <2>5, <2>9, LineWasSent
  <2>14. Shapes'
    BY <1>1, <2>3, <2>4 DEF DeletingInv, Shapes
  <2>15. ASSUME NEW d \in Clients PROVE SentFits(d, call[d])'
    <3>1. SentFits(d, call[d]) /\ script' = script /\ call' = call
      BY <1>1 DEF DeletingInv
    <3> QED BY <3>1 DEF SentFits
  <2>16. ASSUME NEW d \in Clients, NEW m \in 1..Attempts[d] PROVE TextOf(d, m)'
    <3>1. TextOf(d, m) /\ <<d, m>> \in Connections /\ wire'[<<d, m>>].eof = wire[<<d, m>>].eof
      BY <2>3, <2>16, ConnectionPairs DEF DeletingInv
    <3>2. CASE <<d, m>> # server.at
      <4>1. wire'[<<d, m>>] = wire[<<d, m>>]
        BY <2>3, <3>1, <3>2
      <4> QED BY <1>1, <3>1, <4>1 DEF TextOf, Reaches, Begun
    <3>3. CASE <<d, m>> = server.at
      <4>1. d = c /\ m = n
        BY <2>5, <3>3
      <4>2. PICK u : u = SubSeq(t, Consumed + 1, Len(t))
        OBVIOUS
      <4>3. wire'[<<d, m>>].text = u
        BY <2>3, <3>3, <4>2
      <4>4. u \in Seq(Range(t)) /\ Len(u) = Len(t) - Consumed /\ InLines(u, script[c])
            /\ \A line, sent : EndsWith(t, line, sent) => EndsWith(u, line, sent)
        BY <2>7, <2>8, <4>2, SomeLess
      <4>5. u \in Seq(Range(u))
        BY <4>4 DEF Range
      <4>6. t = <<>> \/ Consumed = Len(t) => u = <<>>
        <5>1. ASSUME t = <<>> \/ Consumed = Len(t) PROVE Len(u) = 0
          BY <2>7, <2>8, <4>4, <5>1
        <5> QED BY <4>5, <5>1
      <4>7. PICK line, b : line = script[c][call[c].at] /\ b = Begun(c, call[c])
        OBVIOUS
      <4>8. b \in Nat /\ (b = 0 \/ (Len(line) \in Nat /\ b <= Len(line)))
        <5>1. call[c].at \in DOMAIN script[c] => Len(line) \in Nat
          BY <1>1, <2>5, <4>7, LinesAre
        <5> QED BY <2>6, <4>7, <5>1 DEF SentFits, Begun
      <4>9. \A l \in DOMAIN script[c] : Len(script[c][l]) \in Nat
        BY <1>1, <2>5, LinesAre
      <4>10. FullLines(u, script[c])
        <5>1. CASE Cut(t, Consumed)
          <6> HIDE <2>2, <4>2
          <6>1. InLines(t, script[c]) /\ FullLines(t, script[c]) =>
                  FullLines(SubSeq(t, Consumed + 1, Len(t)), script[c])
            BY <2>7, <2>8, <4>8, <4>9, <5>1, StillFull
          <6> QED BY <2>7, <4>2, <6>1
        <5>2. CASE Consumed = Len(t)
          BY <4>6, <5>2, NothingSent
        <5> QED BY <2>8, <5>1, <5>2
      <4>11. Reaches(t, c, call[c]) => (u = <<>> /\ Here.eof) \/ Reaches(u, c, call[c])
        <5>1. CASE Cut(t, Consumed)
          <6>1. EndsWith(t, line, b) /\ OpenLine(t, line, b) => OpenLine(u, line, b)
            BY <2>7, <2>8, <4>2, <4>8, <4>9, <5>1, StillFull
          <6> QED BY <4>4, <4>7, <6>1 DEF Reaches
        <5>2. CASE Consumed = Len(t) /\ Here.eof
          BY <4>6, <5>2
        <5> QED BY <2>8, <5>1, <5>2
      <4>12. m = call[d].n =>
               \/ call[d].phase \in {"start", "done"} /\ u = <<>>
               \/ Reaches(u, d, call[d])
        <5>1. ASSUME m = call[d].n, Here.eof PROVE call[d].phase = "done"
          <6>1. call[d].n \in Int /\ ~(call[d].n < call[d].n)
            BY DEF DeletingInv, Shapes
          <6> QED BY <2>6, <4>1, <5>1, <6>1 DEF TextOf
        <5> QED BY <2>6, <4>1, <4>6, <4>11, <5>1 DEF TextOf
      <4>13. /\ m > call[d].n \/ (m = call[d].n /\ call[d].phase = "start") => u = <<>>
             /\ m < call[d].n => EndsWith(u, <<>>, 0)
             /\ wire[<<d, m>>].eof => m < call[d].n \/ (m = call[d].n /\ call[d].phase = "done")
        BY <2>6, <3>1, <4>1, <4>4, <4>6 DEF TextOf
      <4>14. \A v : Reaches(v, d, call[d]) => Reaches(v, d, call[d])'
        BY <1>1 DEF Reaches, Begun
      <4>15. call' = call /\ script' = script
        BY <1>1
      <4> QED BY <3>1, <4>1, <4>3, <4>4, <4>5, <4>10, <4>12, <4>13, <4>14, <4>15 DEF TextOf
    <3> QED BY <3>2, <3>3
  <2>17. WorksOn'
    <3>1. PICK i : i = server.at
      OBVIOUS
    <3>2. WasSent(i, w)'
      BY <1>1, <2>13, <3>1 DEF WasSent, LeftAt, HasLine, Line
    <3>3. WasSent(server.at, server.line)' /\ server'.line \in Seq(Range(server'.line))
      BY <2>4, <2>13, <3>1, <3>2
    <3> QED BY <2>4, <3>3 DEF WorksOn
  <2>18. DeletesAsAsked' /\ \A r \in removed' : r.conn \in Connections
    <3>1. \A i, x : WasSent(i, x) => WasSent(i, x)'
      BY <1>1 DEF WasSent, LeftAt, HasLine, Line
    <3>2. ASSUME NEW r \in removed PROVE WasSent(r.conn, r.line)'
      BY <3>1 DEF DeletingInv, DeletesAsAsked
    <3> QED BY <1>1, <3>2 DEF DeletingInv, DeletesAsAsked, Mistakable, NativeCall, Asked
  <2> QED BY <2>14, <2>15, <2>16, <2>17, <2>18 DEF DeletingInv
<1> QED BY <1>2, <1>3

LEMMA ServerKeepsDeleting ==
  ASSUME Lines, DeletingInv, ServerStep \/ SendBreaksOff
  PROVE  DeletingInv'
<1>1. /\ DOMAIN server = DOMAIN Idle /\ DOMAIN wire = Connections
      /\ \A i \in Connections : DOMAIN wire[i] = {"text", "eof", "answers", "closed"}
      /\ queue \in Seq(Connections)
      /\ server.doing # "accept" => server.at \in Connections
  BY DEF DeletingInv, Shapes
<1>2. \A i \in Connections : /\ DOMAIN wire[i] = DOMAIN wire[i]
                             /\ wire[i].text = wire[i].text /\ wire[i].eof = wire[i].eof
  OBVIOUS
<1>3. CASE Accept
  <2>1. /\ UNCHANGED <<script, call, wire, removed>>
        /\ server' = Session(Head(queue)) /\ queue' = Tail(queue) /\ queue # <<>>
    BY <1>3 DEF Accept, clientVars
  <2>2. Head(queue) \in Connections /\ Tail(queue) \in Seq(Connections)
    BY <1>1, <2>1, HeadTailProperties
  <2>3. DOMAIN server' = DOMAIN Idle /\ server'.doing = "read" /\ server'.at = Head(queue)
    BY <2>1 DEF Session, Idle
  <2> QED BY <1>1, <1>2, <2>1, <2>2, <2>3, DeletingStep
<1>4. CASE ReadLine
  BY <1>4, DeletingRead
\* Answers are handed to send, and nothing is taken from a connection.
<1>5. ASSUME UNCHANGED <<script, call, queue, wire, removed>>, Busy, DOMAIN server' = DOMAIN Idle,
             server'.doing = "send", server'.line = server.line, server'.at = server.at
      PROVE  DeletingInv'
  <2>1. server.at \in Connections
    BY <1>1, <1>5 DEF Busy
  <2> QED BY <1>1, <1>2, <1>5, <2>1, DeletingStep
<1>6. CASE FtpUser
  <2>1. PICK answer, up : server' = [server EXCEPT !.user = up, !.doing = "send", !.then = "read",
                                                   !.reply = answer]
    BY <1>6 DEF FtpUser
  <2>2. UNCHANGED <<script, call, queue, wire, removed>> /\ Busy
    BY <1>6 DEF FtpUser, NotJson, clientVars, Busy
  <2>3. /\ DOMAIN server' = DOMAIN Idle /\ server'.doing = "send"
        /\ server'.at = server.at /\ server'.line = server.line
    BY <1>1, <2>1 DEF Idle
  <2> QED BY <1>5, <2>2, <2>3
<1>7. CASE FtpLine
  <2>1. Busy /\ UNCHANGED <<clientVars, wire, queue, removed>>
    BY <1>7 DEF FtpLine, NotJson, Busy
  <2>2. \E answer, then : Replies(answer, then)
    BY <1>7 DEF FtpLine
  <2> QED BY <2>1, <2>2, DeletingReply
<1>8. CASE Notify
  <2>1. /\ UNCHANGED <<script, call, queue, wire, removed>> /\ Busy
        /\ server' = [server EXCEPT !.doing = "send", !.reply = Notification, !.then = "handle"]
    BY <1>8 DEF Notify, Sends, Busy, clientVars
  <2>2. /\ DOMAIN server' = DOMAIN Idle /\ server'.doing = "send"
        /\ server'.at = server.at /\ server'.line = server.line
    BY <1>1, <2>1 DEF Idle
  <2> QED BY <1>5, <2>1, <2>2
<1>9. CASE SendLine \/ SendFails \/ SendBreaksOff
  <2>1. UNCHANGED <<script, call, queue, removed>> /\ Busy /\ server.doing = "send"
    BY <1>9 DEF SendLine, SendFails, SendBreaksOff, Busy, clientVars
  <2>2. server.at \in Connections
    BY <1>1, <2>1
  <2>3. /\ DOMAIN wire' = Connections
        /\ \A i \in Connections : /\ DOMAIN wire'[i] = DOMAIN wire[i]
                                  /\ wire'[i].text = wire[i].text /\ wire'[i].eof = wire[i].eof
    <3> DEFINE Rest == /\ DOMAIN wire' = Connections
                       /\ \A i \in Connections : /\ DOMAIN wire'[i] = DOMAIN wire[i]
                                                 /\ wire'[i].text = wire[i].text
                                                 /\ wire'[i].eof = wire[i].eof
    <3>1. ASSUME NEW x, NEW y, NEW i \in Connections,
                 \/ wire' = [wire EXCEPT ![i].answers = Append(@, x), ![i].closed = y]
                 \/ wire' = [wire EXCEPT ![i].closed = y]
          PROVE  Rest
      BY <1>1, <3>1
    <3>2. PICK x, y :
            \/ wire' = [wire EXCEPT ![server.at].answers = Append(@, x), ![server.at].closed = y]
            \/ wire' = [wire EXCEPT ![server.at].closed = y]
      BY <1>9 DEF SendLine, SendFails, SendBreaksOff
    <3>3. PICK i \in Connections : i = server.at
      BY <2>2
    <3> HIDE DEF Rest
    <3>4. Rest
      BY <3>1, <3>2, <3>3
    <3> QED BY <3>4 DEF Rest
  <2>4. \/ server' = Close
        \/ server' = [server EXCEPT !.doing = "handle"]
        \/ server' = [Session(server.at) EXCEPT !.user = server.user]
    BY <1>9 DEF SendLine, SendFails, SendBreaksOff
  <2>5. /\ DOMAIN server' = DOMAIN Idle
        /\ \/ server'.doing = "accept"
           \/ server'.doing = "read" /\ server'.at = server.at
           \/ server'.doing = "handle" /\ server'.at = server.at /\ server'.line = server.line
    BY <1>1, <2>4 DEF Session, Close, Idle
  <2> QED BY <1>1, <2>1, <2>2, <2>3, <2>5, DeletingStep
<1>10. Handling => Busy
  BY DEF Handling, Busy
<1>11. CASE HandlePlain
  BY <1>10, <1>11, DeletingReply DEF HandlePlain
<1>12. CASE HandleQuery
  <2>1. \E answer : Replies(answer, "read")
    BY <1>12 DEF HandleQuery
  <2> QED BY <1>10, <1>12, <2>1, DeletingReply DEF HandleQuery
<1>13. CASE HandleProxied
  BY <1>10, <1>13, DeletingReply DEF HandleProxied
\* A scan goes by a plan, and a plan by the members of the request.
<1>14. CASE Scan
  <2>1. CASE \E answer : Replies(answer, "read")
    BY <1>10, <1>14, <2>1, DeletingReply DEF Scan
  <2>2. CASE ~ \E answer : Replies(answer, "read")
    <3>1. PICK plan : plan = PlanOf(server.line)
      OBVIOUS
    <3>2. PICK found \in Scans(ws, plan) :
            /\ plan.code = "OK" /\ ~plan.dry
            /\ server' = [server EXCEPT !.doing = "unlink", !.todo = found,
                            !.found = {[file |-> f, age |-> ws.files[f].age] : f \in found}]
      BY <1>14, <2>2, <3>1 DEF Scan
    <3>3. /\ Busy /\ server.line \in Seq(Range(server.line)) /\ server.at \in Connections
          /\ UNCHANGED <<script, call, wire, queue, removed>>
      BY <1>1, <1>10, <1>14 DEF Scan, DeletingInv, WorksOn, Busy, clientVars
    <3>4. Mistakable(server.line) \/ GoesBy(server.line, plan)
      <4>1. CASE NativeCall(server.line)
        <5>1. ASSUME ~Mistakable(server.line) PROVE GoesBy(server.line, plan)
          <6>1. PICK o \in DOMAIN server.line : Unmistaken(server.line, o)
            BY <4>1, <5>1 DEF Mistakable
          <6>2. plan = NativePlan(server.line, ws)
            BY <3>1, <4>1 DEF PlanOf
          <6> QED BY <3>2, <3>3, <6>1, <6>2, NativeGoesBy
        <5> QED BY <5>1
      <4>2. CASE ~NativeCall(server.line)
        <5>1. plan = LegacyPlan(server.line, ws)
          BY <3>1, <4>2 DEF PlanOf
        <5> QED BY <3>2, <3>3, <5>1, LegacyGoesBy
      <4> QED BY <4>1, <4>2
    <3>5. Mistakable(server.line) \/ \A f \in found : Asked(server.line, f, ws.files[f].age)
      BY <3>4, FoundIsAsked
    <3>6. /\ DOMAIN server' = DOMAIN Idle /\ server'.doing = "unlink"
          /\ server'.at = server.at /\ server'.line = server.line
          /\ server'.found = {[file |-> f, age |-> ws.files[f].age] : f \in found}
      BY <1>1, <3>2 DEF Idle
    <3>7. Mistakable(server.line) \/ \A e \in server'.found : Asked(server.line, e.file, e.age)
      BY <3>5, <3>6
    <3> QED BY <1>1, <1>2, <3>3, <3>6, <3>7, DeletingStep
  <2> QED BY <2>1, <2>2
\* What is unlinked was found; it is noted as it was found.
<1>15. CASE Unlink
  <2>1. PICK f \in server.todo :
          LET there == f \in DOMAIN ws.files IN
          /\ server' = [server EXCEPT !.todo = @ \ {f}, !.gone = @ + IF there THEN 1 ELSE 0]
          /\ removed' = IF ~there THEN removed
                        ELSE removed \cup {[conn |-> server.at, line |-> server.line, file |-> f,
                                             age |-> x.age] : x \in {e \in server.found : e.file = f}}
    BY <1>15 DEF Unlink
  <2>2. UNCHANGED <<script, call, queue, wire>> /\ server.doing = "unlink" /\ Busy
    BY <1>15 DEF Unlink, Busy, clientVars
  <2>3. /\ DOMAIN server' = DOMAIN Idle /\ server'.doing = "unlink" /\ server'.found = server.found
        /\ server'.at = server.at /\ server'.line = server.line
    BY <1>1, <2>1, <2>2 DEF Idle
  <2>4. Mistakable(server.line) \/ \A e \in server.found : Asked(server.line, e.file, e.age)
    BY <2>2 DEF DeletingInv, WorksOn
  <2>5. ASSUME NEW r \in removed', r \notin removed
        PROVE  /\ r.conn = server.at /\ r.line = server.line
               /\ Mistakable(server.line) \/ Asked(server.line, r.file, r.age)
    <3>1. PICK x \in server.found :
            x.file = f /\ r = [conn |-> server.at, line |-> server.line, file |-> f, age |-> x.age]
      BY <2>1, <2>5
    <3> QED BY <2>4, <3>1
  <2> QED BY <1>1, <1>2, <2>2, <2>3, <2>4, <2>5, DeletingStep
<1>16. CASE ReportDeleted
  BY <1>16, DeletingReply DEF ReportDeleted, Busy
<1> QED
  BY <1>3, <1>4, <1>6, <1>7, <1>8, <1>9, <1>11, <1>12, <1>13, <1>14, <1>15, <1>16 DEF ServerStep

\* Whatever is unlinked goes back to a line that was sent on that connection,
\* or to a part of one that overran the buffer or was left unfinished; and
\* unless strstr may mistake the members of that line, the file, its age and
\* dryRun false were asked for by one of its objects.  Lines may be queued,
\* pipelined, cut anywhere and left behind: DeletingInv is inductive.
\* (build_delete_older_than_days, build_legacy_delete_older_than_days, recv_line)
THEOREM DeletionsAreMeant == ASSUME Lines PROVE Spec => []DeletesAsAsked
<1>1. Init => DeletingInv
  BY DeletingStarts
<1>2. DeletingInv /\ [Next]_vars => DeletingInv'
  <2> SUFFICES ASSUME DeletingInv, [Next]_vars PROVE DeletingInv'
    OBVIOUS
  <2>1. ASSUME NEW c \in Clients, ClientStep(c) \/ HangUp(c) PROVE DeletingInv'
    BY <2>1, ClientKeepsDeleting
  <2>2. CASE ServerStep \/ SendBreaksOff
    BY <2>2, ServerKeepsDeleting
  <2>3. CASE UNCHANGED <<script, call, wire, queue, server, removed>>
    <3>1. Shapes'
      BY <2>3 DEF DeletingInv, Shapes
    <3>2. ASSUME NEW c \in Clients PROVE SentFits(c, call[c])'
      BY <2>3, <3>2 DEF DeletingInv, SentFits
    <3>3. ASSUME NEW c \in Clients, NEW m \in 1..Attempts[c] PROVE TextOf(c, m)'
      <4>1. TextOf(c, m)
        BY <3>3 DEF DeletingInv
      <4> QED BY <2>3, <4>1 DEF TextOf, Reaches, Begun
    <3>4. \A c \in Clients : call[c].phase = "done" => call'[c] = call[c]
      BY <2>3
    <3>5. WorksOn' /\ DeletesAsAsked' /\ \A r \in removed' : r.conn \in Connections
      BY <2>3, <3>4, WorkStays
    <3> QED BY <3>1, <3>2, <3>3, <3>5 DEF DeletingInv
  <2> QED BY <2>1, <2>2, <2>3 DEF Next, Edit, vars, clientVars
<1>3. DeletingInv => DeletesAsAsked
  BY DEF DeletingInv
<1> QED BY <1>1, <1>2, <1>3, PTL DEF Spec
=============================================================================
