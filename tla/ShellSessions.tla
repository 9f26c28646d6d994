--------------------------- MODULE ShellSessions ---------------------------
(***************************************************************************)
(* The persistent shell sessions of the gateway                            *)
(* (pkg/gateway/shell_service.go).  A request handler tests the session    *)
(* limit under a read lock, starts the shell, starts the goroutine that    *)
(* drains its output, and lists the session under the write lock: three    *)
(* steps between which other requests, the cleanup loop and the shell run. *)
(* A shell is named by the order in which it was started; its session ID,  *)
(* a clock reading in nanoseconds, is taken to be as unique.  Output is    *)
(* counted in lines, and so is the ring buffer.                            *)
(***************************************************************************)
EXTENDS Integers, Sequences, FiniteSets, SequencesExt

CONSTANTS
    Clients,     \* request handlers that may be in CreateSession at once
    maxSessions, \* ShellService.maxSessions
    BufSize,     \* the size given to NewRingBuffer
    MaxWork      \* bound on the shells started, which count twice, and the
                 \* commands written to them

ASSUME SessionAssumption ==
    /\ IsFiniteSet(Clients) /\ Clients # {}
    /\ maxSessions \in Nat \ {0}
    /\ BufSize \in Nat \ {0}
    /\ MaxWork \in Nat

VARIABLES
    creating, \* per client: how far CreateSession is, and with which shell
    shells,   \* the ShellSession objects, in the order of their start
    sessions, \* s.sessions: the shells that are listed
    expired,  \* the shells whose ExpiresAt has passed
    written   \* history: per shell, the lines its ring buffer was given

sessionVars == <<creating, shells, sessions, expired, written>>

Shells == 1..(MaxWork \div 2)
Streams == {"stdout", "stderr"}
Lines == Streams \X (1..MaxWork)

\* NewRingBuffer
NewRingBuffer == [data |-> [i \in 0..(BufSize - 1) |-> <<>>], pos |-> 0]

\* RingBuffer.Write of one line
RingWrite(rb, line) ==
    [data |-> [rb.data EXCEPT ![rb.pos % BufSize] = line], pos |-> rb.pos + 1]

\* Mutant: the buffer is taken to have wrapped only one line later.
RingReadLate(rb) ==
    IF rb.pos <= BufSize + 1
    THEN [i \in 1..(IF rb.pos < BufSize THEN rb.pos ELSE BufSize) |-> rb.data[i - 1]]
    ELSE [i \in 1..BufSize |-> rb.data[(rb.pos + i - 1) % BufSize]]

\* RingBuffer.Read
RingRead(rb) ==
    LET start == rb.pos % BufSize
    IN  IF rb.pos <= BufSize
        THEN [i \in 1..rb.pos |-> rb.data[i - 1]]
        ELSE [i \in 1..BufSize |->
                 IF i <= BufSize - start THEN rb.data[start + i - 1]
                                         ELSE rb.data[i - (BufSize - start) - 1]]

\* A session just after cmd.Start: the shell runs, drainOutput and the
\* goroutine that it starts read.  commands counts the lines written to
\* stdin, printed the lines the shell has put into each pipe, pipe those of
\* them that were not read yet.
NewSession ==
    [running |-> TRUE, cancelled |-> FALSE, commands |-> 0,
     printed |-> [s \in Streams |-> 0], pipe |-> [s \in Streams |-> <<>>],
     reading |-> [s \in Streams |-> TRUE], done |-> FALSE,
     outputBuf |-> NewRingBuffer]

Started == DOMAIN shells

\* What counts against MaxWork.
Work == 2 * Len(shells) + MapThenSumSet(LAMBDA n : shells[n].commands, Started)

Idle == [at |-> "idle", shell |-> 0]
Admitted == [at |-> "admitted", shell |-> 0]

\* IsActive: done is still open.
IsActive(n) == ~ shells[n].done

SessionInit ==
    /\ creating = [c \in Clients |-> Idle]
    /\ shells = <<>>
    /\ sessions = {}
    /\ expired = {}
    /\ written = <<>>

-----------------------------------------------------------------------------
(* Requests *)

\* CreateSession: the limit is tested under the read lock.
Admit(c) ==
    /\ creating[c] = Idle
    /\ Cardinality(sessions) < maxSessions
    /\ creating' = [creating EXCEPT ![c] = Admitted]
    /\ UNCHANGED <<shells, sessions, expired, written>>

\* A pipe cannot be made or the shell does not start: the request ends.
StartFails(c) ==
    /\ creating[c] = Admitted
    /\ creating' = [creating EXCEPT ![c] = Idle]
    /\ UNCHANGED <<shells, sessions, expired, written>>

StartShell(c) ==
    /\ creating[c] = Admitted
    /\ Work + 2 <= MaxWork
    /\ shells' = Append(shells, NewSession)
    /\ written' = Append(written, <<>>)
    /\ creating' = [creating EXCEPT ![c] = [at |-> "started", shell |-> Len(shells) + 1]]
    /\ UNCHANGED <<sessions, expired>>

\* s.sessions[sessionID] = session
List(c) ==
    /\ creating[c].at = "started"
    /\ sessions' = sessions \cup {creating[c].shell}
    /\ creating' = [creating EXCEPT ![c] = Idle]
    /\ UNCHANGED <<shells, expired, written>>

CreateSession(c) == Admit(c) \/ StartFails(c) \/ StartShell(c) \/ List(c)

\* execInSession: the session is looked up, found active, and the command is
\* written to the shell.  A shell that has died gives an error: no change.
execInSession(n) ==
    /\ n \in sessions
    /\ IsActive(n)
    /\ shells[n].running
    /\ Work < MaxWork
    /\ shells' = [shells EXCEPT ![n].commands = @ + 1]
    /\ UNCHANGED <<creating, sessions, expired, written>>

\* BashKill, and KillProcess for the pid of a listed session: cancel().
BashKill(n) ==
    /\ n \in sessions
    /\ shells' = [shells EXCEPT ![n].cancelled = TRUE]
    /\ UNCHANGED <<creating, sessions, expired, written>>

\* cancel() and stdin.Close(), for a session that is no longer listed and
\* whose stdin nobody writes to any more.
Closed(session) == [session EXCEPT !.cancelled = TRUE]

\* KillSession: what follows the unlock acts on the session alone.
KillSession(n) ==
    /\ n \in sessions
    /\ sessions' = sessions \ {n}
    /\ shells' = [shells EXCEPT ![n] = Closed(@)]
    /\ UNCHANGED <<creating, expired, written>>

-----------------------------------------------------------------------------
(* The cleanup loop and the shells *)

\* Mutant: a session that is still in use is spared.
cleanupDeadSessions ==
    LET over == {n \in sessions : ~ IsActive(n)}
    IN  /\ over # {}
        /\ sessions' = sessions \ over
        /\ shells' = [n \in Started |-> IF n \in over THEN Closed(shells[n]) ELSE shells[n]]
        /\ UNCHANGED <<creating, expired, written>>

\* cleanupExpiredSessions: one tick, under the write lock.
cleanupExpiredSessions ==
    LET over == {n \in sessions : n \in expired \/ ~ IsActive(n)}
    IN  /\ over # {}
        /\ sessions' = sessions \ over
        /\ shells' = [n \in Started |-> IF n \in over THEN Closed(shells[n]) ELSE shells[n]]
        /\ UNCHANGED <<creating, expired, written>>

\* The TTL of a listed session passes; nothing prolongs it.
Expire(n) ==
    /\ n \in sessions \ expired
    /\ expired' = expired \cup {n}
    /\ UNCHANGED <<creating, shells, sessions, written>>

\* A running shell prints a line, to either stream, for a command; one that
\* nobody reads any more is of no consequence.
Emit(n, s) ==
    /\ shells[n].running /\ shells[n].reading[s]
    /\ shells[n].printed["stdout"] + shells[n].printed["stderr"] < shells[n].commands
    /\ shells' = [shells EXCEPT ![n].printed[s] = @ + 1,
                                ![n].pipe[s] = Append(@, <<s, shells[n].printed[s] + 1>>)]
    /\ UNCHANGED <<creating, sessions, expired, written>>

\* The shell ends by itself, or os/exec kills it because of the cancel, or
\* KillProcess kills it by its pid.
Exit(n) ==
    /\ shells[n].running
    /\ shells' = [shells EXCEPT ![n].running = FALSE]
    /\ UNCHANGED <<creating, sessions, expired, written>>

\* drainOutput: a scanner passes the next line on to the ring buffer.
Drain(n, s) ==
    /\ shells[n].reading[s]
    /\ shells[n].pipe[s] # <<>>
    /\ LET line == Head(shells[n].pipe[s])
       IN  /\ shells' = [shells EXCEPT ![n].pipe[s] = Tail(@),
                                       ![n].outputBuf = RingWrite(@, line)]
           /\ written' = [written EXCEPT ![n] = Append(@, line)]
    /\ UNCHANGED <<creating, sessions, expired>>

\* A scanner stops at the end of its pipe or at a line beyond 64 KiB; what
\* the pipe holds is lost.
ScanEnds(n, s) ==
    /\ shells[n].reading[s]
    /\ shells[n].pipe[s] # <<>> \/ ~ shells[n].running
    /\ shells' = [shells EXCEPT ![n].reading[s] = FALSE, ![n].pipe[s] = <<>>]
    /\ UNCHANGED <<creating, sessions, expired, written>>

\* cmd.Wait after the stderr scanner: it returns when the shell has ended,
\* closes both pipes, whatever stdout still holds, and then close(done).
WaitEnds(n) ==
    /\ ~ shells[n].done
    /\ ~ shells[n].reading["stderr"] /\ ~ shells[n].running
    /\ shells' = [shells EXCEPT ![n].done = TRUE,
                                ![n].reading = [s \in Streams |-> FALSE],
                                ![n].pipe = [s \in Streams |-> <<>>]]
    /\ UNCHANGED <<creating, sessions, expired, written>>

drainOutput(n) ==
    \/ \E s \in Streams : Drain(n, s)
    \/ \E s \in Streams : ScanEnds(n, s)
    \/ WaitEnds(n)

ShellStep(n) ==
    /\ n \in Started
    /\ \/ Exit(n)
       \/ \E s \in Streams : Emit(n, s)
       \/ drainOutput(n)

SessionNext ==
    \/ \E c \in Clients : CreateSession(c)
    \/ \E n \in Shells : execInSession(n) \/ BashKill(n) \/ KillSession(n)
    \/ cleanupExpiredSessions
    \/ \E n \in Shells : Expire(n) \/ ShellStep(n)

SessionSpec == SessionInit /\ [][SessionNext]_sessionVars

\* The handlers, the cleanup ticker, the draining goroutines and os/exec's
\* watcher of the context go on; clients and shells need not do anything.
SessionFairness ==
    /\ \A c \in Clients : WF_sessionVars(StartFails(c) \/ List(c))
    /\ WF_sessionVars(cleanupExpiredSessions)
    /\ \A n \in Shells :
          /\ WF_sessionVars(Expire(n))
          /\ WF_sessionVars(n \in Started /\ shells[n].cancelled /\ Exit(n))
          /\ \A s \in Streams : WF_sessionVars(n \in Started /\ (Drain(n, s) \/ ScanEnds(n, s)))
          /\ WF_sessionVars(n \in Started /\ WaitEnds(n))

-----------------------------------------------------------------------------
(* Properties *)

RingBuffers == [data : [0..(BufSize - 1) -> Lines \cup {<<>>}], pos : Nat]

SessionObjects ==
    [running : BOOLEAN, cancelled : BOOLEAN, commands : Nat,
     printed : [Streams -> Nat], pipe : [Streams -> Seq(Lines)],
     reading : [Streams -> BOOLEAN], done : BOOLEAN, outputBuf : RingBuffers]

\* Type correctness: what is listed or expired was started, a client waits
\* with a shell that exists.
SessionTypeOK ==
    /\ shells \in Seq(SessionObjects)
    /\ Work <= MaxWork
    /\ creating \in [Clients -> {Idle, Admitted} \cup [at : {"started"}, shell : Started]]
    /\ sessions \subseteq Started
    /\ expired \subseteq Started
    /\ Len(written) = Len(shells)

\* The limit of concurrent sessions is tested by CreateSession in another
\* critical section than the one that lists the session.  It is exceeded by
\* at most the requests that were in flight together, less one: the sessions
\* and those still being made never come to more.
SessionBound ==
    Cardinality(sessions) + Cardinality({c \in Clients : creating[c] # Idle})
        <= maxSessions + Cardinality(Clients) - 1

\* BashOutput and execInSession return the contents of the ring buffer: the
\* most recent lines that were written, and of each stream a run of
\* consecutive lines in the order in which the shell printed them, although
\* two goroutines write to the buffer and it wraps.
OutputFaithful ==
    \A n \in Started :
        LET out == RingRead(shells[n].outputBuf)
            all == written[n]
        IN  /\ out = SubSeq(all, Len(all) - Len(out) + 1, Len(all))
            /\ Len(out) = IF Len(all) < BufSize THEN Len(all) ELSE BufSize
            /\ \A i \in DOMAIN all :
                  all[i][2] = Cardinality({j \in 1..i : all[j][1] = all[i][1]})

\* A shell that was started ends, its drainOutput ends, and its session
\* leaves the table, whatever its clients do: the TTL and the cleanup loop
\* see to it, also when the shell dies before its session is listed.
ShellsEnd ==
    \A n \in Shells :
        (n \in Started) ~> (/\ n \in Started
                            /\ shells[n].done
                            /\ ~ shells[n].running
                            /\ n \notin sessions)

\* What the shell service keeps while requests, the two readers of a shell, its exit
\* and the cleanup loop interleave: the limit, up to the requests that race, and the
\* output in its order.
SessionsSafe == SessionTypeOK /\ SessionBound /\ OutputFaithful
=============================================================================
