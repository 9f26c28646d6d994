--------------------------- MODULE CodeExecution ---------------------------
(***************************************************************************)
(* Requests that run a program and answer with its output: the code        *)
(* service (pkg/gateway/code_service.go), the one-shot commands of the     *)
(* shell service (pkg/gateway/shell_service.go) and the shell and code     *)
(* tools of the MCP hub (pkg/mcp/shell_server.go, code_server.go).         *)
(*                                                                         *)
(* A request is of one of five kinds:                                      *)
(*   "script"    Python and Node.js: a temporary file of its own           *)
(*   "compiled"  Go and Java: a workspace of its own, a build, then a run  *)
(*   "command"   Exec, ExecSync, BashExec: no file, a timeout on request   *)
(*   "tool"      shell_exec, code_run, code_install: as a script, but the  *)
(*               exit status is looked at before the deadline              *)
(*   "javaTool"  code_run of Java: Main.java and Main.class, which all     *)
(*               such calls share, are built and then run                  *)
(*                                                                         *)
(* os/exec is external.  Run waits for the process and for the end of its  *)
(* output, which a descendant of the process can hold open; the context    *)
(* kills the process and not its descendants.                              *)
(***************************************************************************)
EXTENDS Integers, Sequences, FiniteSets

CONSTANTS
    Requests,       \* requests that may be in progress at once
    NoRequest,      \* no request: Main.java or Main.class does not exist
    maxOutputBytes, \* CodeService.maxOutputBytes
    MaxTotal        \* bound on what one process prints

ASSUME CodeAssumption ==
    /\ NoRequest \notin Requests
    /\ maxOutputBytes \in Nat \ {0}
    /\ MaxTotal \in Nat

VARIABLES
    req,      \* per request, how far it is
    mainJava, \* the request whose code Main.java holds
    mainClass \* the request whose code Main.class was compiled from

codeVars == <<req, mainJava, mainClass>>

Kinds == {"script", "compiled", "command", "tool", "javaTool"}
Tools == {"tool", "javaTool"}
Built == {"compiled", "javaTool"}
Limited == {"script", "compiled"}

\* limitedWriter, with the bytes that it keeps
NewWriter == [buf |-> <<>>, written |-> 0, truncated |-> FALSE]

\* limitedWriter.Write
limitedWrite(lw, p) ==
    LET remaining == maxOutputBytes - lw.written
    IN  IF lw.truncated THEN lw
        ELSE IF remaining <= 0 THEN [lw EXCEPT !.truncated = TRUE]
        ELSE IF Len(p) > remaining
        THEN [buf |-> lw.buf \o SubSeq(p, 1, remaining),
              written |-> maxOutputBytes, truncated |-> TRUE]
        ELSE [lw EXCEPT !.buf = @ \o p, !.written = @ + Len(p)]

NoProgram ==
    [kind |-> "command", at |-> "idle", timed |-> FALSE, ctx |-> "open", file |-> FALSE,
     proc |-> "none", code |-> 0, program |-> NoRequest, kid |-> "none", compiled |-> FALSE,
     out |-> NewWriter, total |-> 0, resp |-> [code |-> 0, timedOut |-> FALSE]]

CodeInit ==
    /\ req = [r \in Requests |-> NoProgram]
    /\ mainJava = NoRequest
    /\ mainClass = NoRequest

Answered(q, c, t) == [q EXCEPT !.at = "answered", !.resp = [code |-> c, timedOut |-> t]]

-----------------------------------------------------------------------------
(* The handlers *)

\* A request comes in: Execute, ExecuteCode, Exec, ExecSync, BashExec, and
\* CallTool of the two MCP servers.  Only a command may have no timeout.
\* Requests share nothing but Main.java and Main.class: only calls of the
\* Java tool are taken to overlap.
Execute(r, k, timed) ==
    /\ req[r].at = "idle"
    /\ timed \/ k = "command"
    /\ \A o \in Requests \ {r} :
          req[o].at = "idle" \/ (k = "javaTool" /\ req[o].kind = "javaTool")
    /\ req' = [req EXCEPT ![r].kind = k, ![r].timed = timed,
                          ![r].at = IF k = "command" THEN "run" ELSE "prepare"]
    /\ UNCHANGED <<mainJava, mainClass>>

\* The language is not available, or the file cannot be made or written.
refuse(r) ==
    /\ req[r].at = "prepare"
    /\ req' = [req EXCEPT ![r] = Answered(@, -1, FALSE)]
    /\ UNCHANGED <<mainJava, mainClass>>

\* CreateTemp, prepareGoWorkspace, prepareJavaWorkspace; Main.java is
\* overwritten, whoever uses it.
prepare(r) ==
    /\ req[r].at = "prepare"
    /\ req' = [req EXCEPT ![r].at = IF req[r].kind \in Built THEN "build" ELSE "run",
                          ![r].file = req[r].kind # "javaTool"]
    /\ mainJava' = IF req[r].kind = "javaTool" THEN r ELSE mainJava
    /\ UNCHANGED mainClass

\* cmd.Start: the process reads what it is to compile or run.
startProgram(r) ==
    /\ req[r].at \in {"build", "run"} /\ req[r].proc = "none"
    /\ req' = [req EXCEPT
                  ![r].proc = "running", ![r].out = NewWriter, ![r].total = 0,
                  ![r].program = CASE req[r].kind # "javaTool" -> r
                                   [] req[r].at = "build" -> mainJava
                                   [] OTHER -> mainClass]
    /\ UNCHANGED <<mainJava, mainClass>>

\* The process cannot be started.
startError(r) ==
    /\ req[r].at \in {"build", "run"} /\ req[r].proc = "none"
    /\ req' = [req EXCEPT ![r] = Answered(@, -1, FALSE)]
    /\ UNCHANGED <<mainJava, mainClass>>

\* What Run returns: nothing, an ExitError, or the error of the context for
\* a process that had ended by itself when it was killed.
RunError(q) ==
    IF q.proc = "exited" /\ q.code = 0
    THEN {"nil"} \cup (IF q.ctx = "open" THEN {} ELSE {"ctx"})
    ELSE {"exit"}

ExitCode(q) == IF q.proc = "killed" THEN -1 ELSE q.code

\* Mutant: the exit status is looked at before the deadline, as the tools do.
runAnswerExitFirst(q, err) ==
    CASE err = "nil" -> Answered(q, 0, FALSE)
      [] err = "exit" -> Answered(q, ExitCode(q), FALSE)
      [] OTHER -> Answered(q, -1, q.ctx = "late")

\* The answer to a run, from the error that Run returned.
runAnswer(q, err) ==
    CASE err = "nil" -> Answered(q, 0, FALSE)
      [] err # "nil" /\ q.ctx = "late" /\ (q.kind \in Tools => err # "exit") -> Answered(q, -1, TRUE)
      [] err = "exit" /\ (q.ctx # "late" \/ q.kind \in Tools) -> Answered(q, ExitCode(q), FALSE)
      [] OTHER -> Answered(q, -1, FALSE)

RunOver(r) == req[r].proc \in {"exited", "killed"} /\ req[r].kid # "holding"

\* Main.class after javac, which may have been killed when it was written.
ClassAfter(r, err) ==
    CASE req[r].kind # "javaTool" -> {mainClass}
      [] err = "nil" -> {req[r].program}
      [] req[r].proc = "killed" -> {mainClass, req[r].program}
      [] OTHER -> {mainClass}

\* build.Run and compile.Run have returned.  The run has a context of its
\* own, except for the tool, whose only context goes on.
buildEnds(r) ==
    /\ req[r].at = "build" /\ RunOver(r)
    /\ \E err \in RunError(req[r]) :
          /\ req' = [req EXCEPT ![r] =
                        IF err = "nil"
                        THEN [@ EXCEPT !.at = "run", !.proc = "none",
                                       !.compiled = req[r].kind = "javaTool",
                                       !.ctx = IF req[r].kind = "compiled" THEN "open" ELSE req[r].ctx]
                        ELSE Answered(@, -1, FALSE)]
          /\ mainClass' \in ClassAfter(r, err)
    /\ UNCHANGED mainJava

\* cmd.Run has returned: the response is written.
runEnds(r) ==
    /\ req[r].at = "run" /\ RunOver(r)
    /\ \E err \in RunError(req[r]) : req' = [req EXCEPT ![r] = runAnswer(@, err)]
    /\ UNCHANGED <<mainJava, mainClass>>

\* The deferred removals, and the end of the request: what is left of it is
\* its process and the descendants of that.  Main.class is removed if it was
\* compiled.
cleanup(r) ==
    /\ req[r].at = "answered"
    /\ req' = [req EXCEPT ![r] = [NoProgram EXCEPT !.at = "over", !.proc = req[r].proc, !.kid = req[r].kid]]
    /\ mainJava' = IF req[r].kind = "javaTool" THEN NoRequest ELSE mainJava
    /\ mainClass' = IF req[r].compiled THEN NoRequest ELSE mainClass

-----------------------------------------------------------------------------
(* Processes and time *)

\* context.WithTimeout
deadline(r) ==
    /\ req[r].at \in {"build", "run"} /\ req[r].timed /\ req[r].ctx = "open"
    /\ req' = [req EXCEPT ![r].ctx = "late"]
    /\ UNCHANGED <<mainJava, mainClass>>

\* The client goes away, for the kinds whose context is the request's.
clientGone(r) ==
    /\ req[r].at \in {"build", "run"} /\ req[r].ctx = "open"
    /\ req[r].kind \in Tools \cup {"command"}
    /\ req' = [req EXCEPT ![r].ctx = "gone"]
    /\ UNCHANGED <<mainJava, mainClass>>

\* os/exec kills the process of a context that is done.
killProgram(r) ==
    /\ req[r].proc = "running" /\ req[r].ctx # "open"
    /\ req' = [req EXCEPT ![r].proc = "killed"]
    /\ UNCHANGED <<mainJava, mainClass>>

\* The process prints n bytes, numbered in order.  The other kinds keep all
\* their output.
prints(r, n) ==
    /\ req[r].proc = "running" /\ req[r].total + n <= MaxTotal
    /\ req[r].kind \in Limited
    /\ LET p == [i \in 1..n |-> req[r].total + i]
       IN  req' = [req EXCEPT ![r].total = @ + n, ![r].out = limitedWrite(@, p)]
    /\ UNCHANGED <<mainJava, mainClass>>

\* The process starts another one, which shares its output or not.
fork(r, k) ==
    /\ req[r].proc = "running" /\ req[r].kid = "none"
    /\ req' = [req EXCEPT ![r].kid = k]
    /\ UNCHANGED <<mainJava, mainClass>>

kidEnds(r) ==
    /\ req[r].kid # "none"
    /\ req' = [req EXCEPT ![r].kid = "none"]
    /\ UNCHANGED <<mainJava, mainClass>>

\* The process ends; without its source or its class it fails.
exits(r, c) ==
    /\ req[r].proc = "running"
    /\ req[r].program = NoRequest => c # 0
    /\ req' = [req EXCEPT ![r].proc = "exited", ![r].code = c]
    /\ UNCHANGED <<mainJava, mainClass>>

codeHandler(r) ==
    \/ refuse(r) \/ prepare(r) \/ startProgram(r) \/ startError(r)
    \/ buildEnds(r) \/ runEnds(r) \/ cleanup(r)

codeProcess(r) ==
    \/ \E n \in 1..2 : prints(r, n)
    \/ \E k \in {"quiet", "holding"} : fork(r, k)
    \/ kidEnds(r)
    \/ \E c \in {0, 1} : exits(r, c)

CodeNext ==
    \E r \in Requests :
        \/ \E k \in Kinds, timed \in BOOLEAN : Execute(r, k, timed)
        \/ codeHandler(r)
        \/ deadline(r) \/ clientGone(r) \/ killProgram(r)
        \/ codeProcess(r)

CodeSpec == CodeInit /\ [][CodeNext]_codeVars

\* Handlers, timers and os/exec go on; the processes need not do anything.
CodeFairness ==
    \A r \in Requests :
        WF_codeVars(codeHandler(r)) /\ WF_codeVars(deadline(r)) /\ WF_codeVars(killProgram(r))

-----------------------------------------------------------------------------
(* Properties *)

\* limitedWriter: what is kept is the beginning of what the process printed,
\* up to the limit, however it is cut into writes, and truncation is reported
\* exactly when something is missing.
OutputIsPrefix ==
    \A r \in Requests : req[r].kind \in Limited =>
        LET kept == IF req[r].total <= maxOutputBytes THEN req[r].total ELSE maxOutputBytes
        IN  /\ req[r].out.buf = [i \in 1..kept |-> i]
            /\ req[r].out.truncated <=> req[r].total > maxOutputBytes

\* What a response says of the run: an exit status is the one the process
\* ended with by itself, in the run and not in the build; a timeout is
\* reported only when the deadline has passed; and, except by the tools, a
\* process that was killed at its deadline is reported as timed out.
AnswerTruthful ==
    \A r \in Requests : req[r].at = "answered" =>
        LET q == req[r]
        IN  /\ q.resp.code # -1 => q.proc = "exited" /\ q.code = q.resp.code
            /\ q.resp.timedOut => q.ctx = "late" /\ q.resp.code = -1
            /\ (q.proc = "killed" /\ q.ctx = "late" /\ q.kind \in {"script", "command"}) => q.resp.timedOut

\* A request that is over has left neither its temporary file or workspace
\* nor its process; Main.java is gone when no call of the Java tool goes on.
NothingLeft ==
    /\ \A r \in Requests : req[r].at = "over" => ~ req[r].file /\ req[r].proc # "running"
    /\ (\A r \in Requests : req[r].at \in {"idle", "over"}) => mainJava = NoRequest

\* A request with a timeout is answered, whatever its program does, unless a
\* descendant of the program holds the output open.
RequestAnswered ==
    \A r \in Requests :
        (req[r].at # "idle" /\ req[r].timed) ~> (req[r].at = "over" \/ req[r].kid = "holding")

\* What a code request answers is what happened to its program, and nothing of it is
\* left, whichever of exit, deadline, output limit and failure comes first.
RunsSafe == OutputIsPrefix /\ AnswerTruthful /\ NothingLeft
=============================================================================
