------------------------------- MODULE MCPHub -------------------------------
(***************************************************************************)
(* The MCP hub (pkg/mcp/hub.go, stdio.go).  It knows a set of tool servers *)
(* under a reader-writer lock and answers JSON-RPC messages that come over *)
(* HTTP, each in a goroutine of its own, or over stdin, one line at a      *)
(* time.  A tool runs with the lock held for reading.  The lock is Go's:   *)
(* a writer that waits lets no new reader in.  A tool is known by the      *)
(* server it belongs to.                                                   *)
(***************************************************************************)
EXTENDS Naturals, Sequences, SequencesExt

CONSTANTS
    ToolServers,    \* servers that are registered and unregistered
    HttpCalls,      \* POST requests to /mcp
    Registrars,     \* goroutines that register and unregister servers
    Stdin,          \* the goroutine of ServeStdio
    NoRegistrar,
    MaxStdinLines   \* bound: lines on stdin

ASSUME HubAssumption ==
    /\ NoRegistrar \notin Registrars /\ Stdin \notin HttpCalls /\ MaxStdinLines \in Nat

VARIABLES
    servers,        \* h.servers
    hubWriter,      \* who holds or awaits h.mu for writing
    messages,       \* per call: where it is, and the server whose tool it wants
    registering,    \* per registrar: none, or what it wants of h.servers
    lines,          \* what came on stdin
    answers,        \* the lines answered on stdout
    hubUp           \* the HTTP server takes requests

hubVars == <<servers, hubWriter, messages, registering, lines, answers, hubUp>>

HubCalls == HttpCalls \cup {Stdin}

\* What a line of stdin can be: blank, no JSON, of another version, a
\* notification, a request that needs no server, a request to list the tools or
\* to run one.
LineKinds == {"blank", "bad", "version", "notification", "ping", "list", "call"}

Waiting == [at |-> "none", server |-> "none"]

NothingWanted == [what |-> "none", server |-> "none"]

HubInit ==
    /\ servers = ToolServers
    /\ hubWriter = NoRegistrar
    /\ messages = [m \in HubCalls |-> Waiting]
    /\ registering = [r \in Registrars |-> NothingWanted]
    /\ lines = <<>> /\ answers = <<>>
    /\ hubUp = TRUE

\* The calls that hold h.mu for reading; a call keeps it while its tool runs.
HubReaders == {m \in HubCalls : messages[m].at \in {"list", "lookup", "runs"}}

CanRead == hubWriter = NoRegistrar

MessageAt(m, where) == messages' = [messages EXCEPT ![m].at = where]

\* Where dispatch sends a message: only a list of the tools and a call of a
\* tool, of server s, need the lock.
Received(kind, s) ==
    CASE kind = "list" -> [at |-> "wantsList", server |-> "none"]
      [] kind = "call" -> [at |-> "wantsTool", server |-> s]
      [] OTHER -> [at |-> "answer", server |-> "none"]

-----------------------------------------------------------------------------
(* Registration                                                            *)

WantServer(r, s, what) ==
    /\ registering[r].what = "none"
    /\ registering' = [registering EXCEPT ![r] = [what |-> what, server |-> s]]
    /\ UNCHANGED <<servers, hubWriter, messages, lines, answers, hubUp>>

AwaitHub(r) ==
    /\ registering[r].what # "none" /\ hubWriter = NoRegistrar
    /\ hubWriter' = r
    /\ UNCHANGED <<servers, messages, registering, lines, answers, hubUp>>

\* RegisterServer and UnregisterServer.
RegisterServer(r) ==
    /\ hubWriter = r /\ HubReaders = {}
    /\ servers' = IF registering[r].what = "register" THEN servers \cup {registering[r].server}
                                                    ELSE servers \ {registering[r].server}
    /\ hubWriter' = NoRegistrar /\ registering' = [registering EXCEPT ![r] = NothingWanted]
    /\ UNCHANGED <<messages, lines, answers, hubUp>>

-----------------------------------------------------------------------------
(* dispatch                                                                *)

\* handleToolsList: every server lists its tools while the lock is held.
handleToolsList(m) ==
    /\ messages[m].at = "wantsList" /\ CanRead
    /\ MessageAt(m, "list")
    /\ UNCHANGED <<servers, hubWriter, registering, lines, answers, hubUp>>

ToolsListed(m) ==
    /\ messages[m].at = "list"
    /\ MessageAt(m, "answer")
    /\ UNCHANGED <<servers, hubWriter, registering, lines, answers, hubUp>>

\* handleToolsCall takes the lock and looks for a server with the tool.
handleToolsCall(m) ==
    /\ messages[m].at = "wantsTool" /\ CanRead
    /\ MessageAt(m, "lookup")
    /\ UNCHANGED <<servers, hubWriter, registering, lines, answers, hubUp>>

ToolNotFound(m) ==
    /\ messages[m].at = "lookup" /\ messages[m].server \notin servers
    /\ MessageAt(m, "answer")
    /\ UNCHANGED <<servers, hubWriter, registering, lines, answers, hubUp>>

\* Mutant: the lock is taken again, as through ListServers, for the call.
CallToolLocked(m) ==
    /\ messages[m].at = "lookup" /\ CanRead
    /\ messages[m].server \in servers /\ MessageAt(m, "runs")
    /\ UNCHANGED <<servers, hubWriter, registering, lines, answers, hubUp>>

CallTool(m) ==
    /\ messages[m].at = "lookup"
    /\ messages[m].server \in servers /\ MessageAt(m, "runs")
    /\ UNCHANGED <<servers, hubWriter, registering, lines, answers, hubUp>>

\* The tool returns, with a result or an error.
ToolReturns(m) ==
    /\ messages[m].at = "runs"
    /\ MessageAt(m, "answer")
    /\ UNCHANGED <<servers, hubWriter, registering, lines, answers, hubUp>>

dispatch(m) ==
    \/ handleToolsList(m) \/ ToolsListed(m) \/ handleToolsCall(m)
    \/ ToolNotFound(m) \/ CallTool(m) \/ ToolReturns(m)

-----------------------------------------------------------------------------
(* The HTTP transport: every message is answered, a notification too       *)

handleMCP(m) ==
    /\ hubUp /\ messages[m].at = "none"
    /\ \E k \in LineKinds, s \in ToolServers : messages' = [messages EXCEPT ![m] = Received(k, s)]
    /\ UNCHANGED <<servers, hubWriter, registering, lines, answers, hubUp>>

HttpAnswer(m) ==
    /\ messages[m].at = "answer"
    /\ messages' = [messages EXCEPT ![m] = Waiting]
    /\ UNCHANGED <<servers, hubWriter, registering, lines, answers, hubUp>>

\* Shutdown lets the requests under way end, for five seconds.
Shutdown ==
    /\ hubUp /\ hubUp' = FALSE
    /\ UNCHANGED <<servers, hubWriter, messages, registering, lines, answers>>

-----------------------------------------------------------------------------
(* The stdio transport                                                     *)

NeedsAnswer(kind) == kind \notin {"blank", "notification"}

\* A line is read.  What is no request is answered, or left alone, at once.
ServeStdio ==
    /\ messages[Stdin].at = "none" /\ Len(lines) < MaxStdinLines
    /\ \E k \in LineKinds, s \in ToolServers :
        /\ lines' = Append(lines, k)
        /\ messages' = IF ~NeedsAnswer(k) THEN messages
                       ELSE [messages EXCEPT ![Stdin] = Received(k, s)]
    /\ UNCHANGED <<servers, hubWriter, registering, answers, hubUp>>

\* The answer is written and flushed before the next line is read.
StdioAnswer ==
    /\ messages[Stdin].at = "answer"
    /\ messages' = [messages EXCEPT ![Stdin] = Waiting]
    /\ answers' = Append(answers, Len(lines))
    /\ UNCHANGED <<servers, hubWriter, registering, lines, hubUp>>

\* stdin ends or the context is cancelled: the loop returns before the next
\* line.  A last line without a newline is not looked at.
StdioEnds ==
    /\ messages[Stdin].at = "none"
    /\ MessageAt(Stdin, "ended")
    /\ UNCHANGED <<servers, hubWriter, registering, lines, answers, hubUp>>

HubNext ==
    \/ \E r \in Registrars :
        \/ \E s \in ToolServers, what \in {"register", "unregister"} : WantServer(r, s, what)
        \/ AwaitHub(r) \/ RegisterServer(r)
    \/ \E m \in HubCalls : dispatch(m)
    \/ \E m \in HttpCalls : handleMCP(m) \/ HttpAnswer(m)
    \/ Shutdown \/ ServeStdio \/ StdioAnswer \/ StdioEnds

HubSpec == HubInit /\ [][HubNext]_hubVars

-----------------------------------------------------------------------------
\* While a tool runs its server stays registered.
ToolHasServer == \A m \in HubCalls : messages[m].at = "runs" => messages[m].server \in servers

\* On stdout there is one answer for every line that asks for one, in the order
\* of the lines, and none for notifications and blank lines: only the last line
\* may still be waiting for its answer.
StdioInOrder ==
    LET asked == {i \in DOMAIN lines : NeedsAnswer(lines[i])} IN
    /\ \A i, j \in DOMAIN answers : i < j => answers[i] < answers[j]
    /\ \/ ToSet(answers) = asked
       \/ /\ messages[Stdin].at \notin {"none", "ended"}
          /\ Len(lines) \in asked /\ ToSet(answers) = asked \ {Len(lines)}

\* What the goroutines do for themselves, with no new message or registration.
HubProgress ==
    \/ \E m \in HubCalls : dispatch(m)
    \/ \E m \in HttpCalls : HttpAnswer(m)
    \/ StdioAnswer
    \/ \E r \in Registrars : AwaitHub(r) \/ RegisterServer(r)

\* However the messages and the registrations wait for one another, one of them
\* can go on: the lock that a call keeps while its tool runs is not asked for again.
HubNotStuck ==
    \/ \E m \in HubCalls : messages[m].at \notin {"none", "ended"}
    \/ \E r \in Registrars : registering[r].what # "none"
    => ENABLED HubProgress

\* Calls, registrations and the lines on stdin neither get in each other's way nor
\* mix their answers up.
HubSafe == ToolHasServer /\ StdioInOrder /\ HubNotStuck
=============================================================================
