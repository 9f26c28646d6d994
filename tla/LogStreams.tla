----------------------------- MODULE LogStreams -----------------------------
(***************************************************************************)
(* The log of one sandbox: LogCollector (pkg/logging/collector.go), which  *)
(* buffers what the writers of a stream write and appends it to a file,    *)
(* and LogIndex (pkg/logging/persistence.go), which is flushed to a file   *)
(* and loaded after a crash.  Lines are numbered as they are written.      *)
(*                                                                         *)
(* Files are numbered as they are created; a writer keeps its file when    *)
(* the name is given to another by RotateLogs.  Flushing does not fail.    *)
(* FlushIndex has the index's read lock all along, so that nothing but     *)
(* another flush can run at the time.  Two flushes of one sandbox share    *)
(* the temporary file, and one could rename what the other has just        *)
(* truncated.  OneFlusher says that they do not overlap, which nothing in  *)
(* the code sees to: DeleteSandbox called twice at once flushes twice.     *)
(***************************************************************************)
EXTENDS Integers, Sequences, FiniteSets, SequencesExt

CONSTANTS
    LogClients,   \* who writes to the stream
    LogBuffer,    \* how many lines the buffer takes
    MaxFile,      \* the maxSize of RotateLogs, in lines
    maxEntries,   \* of the index
    Flushers,     \* callers of FlushIndex
    OneFlusher,   \* BOOLEAN
    MaxLines, MaxFiles   \* bounds

ASSUME LogAssumption ==
    /\ LogBuffer \in Nat \ {0} /\ MaxFile \in Nat /\ maxEntries \in Nat \ {0}
    /\ OneFlusher \in BOOLEAN /\ MaxLines \in Nat /\ MaxFiles \in Nat

VARIABLES
    logs,      \* what is in each file
    current,   \* the file that has the sandbox's name; 0: none
    logWriter,    \* lc.writers: its file and its buffer; file 0: none
    holders,   \* clients with a writeCloser of this writer
    stale,     \* clients with one of a writer that was closed
    accepted,  \* history: the lines that were written, in their order
    lost,      \* history: of those, the ones that never reached a file
    entries,   \* li.entries
    onDisk,    \* the index file: whole or not, and its entries
    tmpFile,   \* the same of the temporary file
    flushing   \* where a caller of FlushIndex is

streamVars == <<logs, current, logWriter, holders, stale, accepted, lost>>
indexVars == <<entries, onDisk, tmpFile, flushing>>
logVars == <<streamVars, indexVars>>

NoWriter == [file |-> 0, buf |-> <<>>]
NoIndex == [whole |-> TRUE, lines |-> <<>>]

LogInit ==
    /\ logs = <<>> /\ current = 0
    /\ logWriter = NoWriter /\ holders = {} /\ stale = {}
    /\ accepted = <<>> /\ lost = {}
    /\ entries = <<>> /\ onDisk = NoIndex /\ tmpFile = NoIndex
    /\ flushing = [f \in Flushers |-> "no"]

-----------------------------------------------------------------------------
(* LogCollector *)

\* Mutant: a stream that is open is opened again.
OpenAgain(c) ==
    /\ c \notin holders
    /\ holders' = holders \cup {c} /\ stale' = stale \ {c}
    /\ IF current # 0
       THEN logWriter' = [file |-> current, buf |-> <<>>] /\ UNCHANGED <<logs, current>>
       ELSE /\ Len(logs) < MaxFiles
            /\ logs' = Append(logs, <<>>)
            /\ current' = Len(logs) + 1
            /\ logWriter' = [file |-> Len(logs) + 1, buf |-> <<>>]
    /\ UNCHANGED <<accepted, lost, indexVars>>

\* There is one writer, however many clients open the stream.
Open(c) ==
    /\ c \notin holders
    /\ holders' = holders \cup {c} /\ stale' = stale \ {c}
    /\ IF logWriter.file # 0 THEN UNCHANGED <<logs, current, logWriter>>
       ELSE IF current # 0
       THEN logWriter' = [file |-> current, buf |-> <<>>] /\ UNCHANGED <<logs, current>>
       ELSE /\ Len(logs) < MaxFiles
            /\ logs' = Append(logs, <<>>)
            /\ current' = Len(logs) + 1
            /\ logWriter' = [file |-> Len(logs) + 1, buf |-> <<>>]
    /\ UNCHANGED <<accepted, lost, indexVars>>

\* writeCloser.Write: the buffer goes to the file when it is full.
WriteLine(c) ==
    LET n == Len(accepted) + 1 IN
    /\ c \in holders /\ n <= MaxLines
    /\ accepted' = Append(accepted, n)
    /\ IF Len(logWriter.buf) < LogBuffer
       THEN logWriter' = [logWriter EXCEPT !.buf = Append(@, n)] /\ UNCHANGED logs
       ELSE /\ logs' = [logs EXCEPT ![logWriter.file] = @ \o logWriter.buf]
            /\ logWriter' = [logWriter EXCEPT !.buf = <<n>>]
    /\ UNCHANGED <<current, holders, stale, lost, indexVars>>

\* writeCloser.Close only flushes.  The client does not write any more.
CloseHandle(c) ==
    /\ c \in holders
    /\ holders' = holders \ {c}
    /\ logs' = [logs EXCEPT ![logWriter.file] = @ \o logWriter.buf]
    /\ logWriter' = [logWriter EXCEPT !.buf = <<>>]
    /\ UNCHANGED <<current, stale, accepted, lost, indexVars>>

\* LogCollector.Close.
CloseStream ==
    /\ logWriter.file # 0
    /\ logs' = [logs EXCEPT ![logWriter.file] = @ \o logWriter.buf]
    /\ logWriter' = NoWriter
    /\ holders' = {} /\ stale' = stale \cup holders
    /\ UNCHANGED <<current, accepted, lost, indexVars>>

\* The buffer of a writer that was closed still takes lines, which nothing flushes.
WriteAfterClose(c) ==
    LET n == Len(accepted) + 1 IN
    /\ c \in stale /\ n <= MaxLines
    /\ accepted' = Append(accepted, n)
    /\ lost' = lost \cup {n}
    /\ UNCHANGED <<logs, current, logWriter, holders, stale, indexVars>>

\* The file gets another name.  The writer goes on writing to it.
RotateLogs ==
    /\ current # 0 /\ Len(logs[current]) > MaxFile
    /\ current' = 0
    /\ UNCHANGED <<logs, logWriter, holders, stale, accepted, lost, indexVars>>

\* CleanupOldLogFiles: a file that was not written to for long is removed.  A
\* writer that has it open goes on writing to it; logs keeps what was in it.
CleanupOldLogFiles ==
    /\ current # 0 /\ logs[current] # <<>>
    /\ current' = 0
    /\ UNCHANGED <<logs, logWriter, holders, stale, accepted, lost, indexVars>>

-----------------------------------------------------------------------------
(* LogIndex *)

Locked == \A f \in Flushers : flushing[f] = "no"

\* The oldest entries go when there are too many.
Index(n) ==
    /\ Locked
    /\ n \in ToSet(accepted) /\ \A m \in ToSet(entries) : m < n
    /\ LET es == Append(entries, n) IN
       entries' = IF Len(es) > maxEntries THEN SubSeq(es, Len(es) - maxEntries + 1, Len(es)) ELSE es
    /\ UNCHANGED <<streamVars, onDisk, tmpFile, flushing>>

\* CleanupOldEntries
CleanupOldEntries ==
    /\ Locked /\ entries # <<>>
    /\ \E k \in 1..Len(entries) : entries' = SubSeq(entries, k + 1, Len(entries))
    /\ UNCHANGED <<streamVars, onDisk, tmpFile, flushing>>

\* FlushIndex: os.WriteFile truncates, writes and closes; then the rename.
FlushIndex(f) ==
    /\ flushing[f] = "no" /\ entries # <<>>
    /\ OneFlusher => Locked
    /\ flushing' = [flushing EXCEPT ![f] = "writes"]
    /\ tmpFile' = [whole |-> FALSE, lines |-> <<>>]
    /\ UNCHANGED <<streamVars, entries, onDisk>>

FlushWritten(f) ==
    /\ flushing[f] = "writes"
    /\ flushing' = [flushing EXCEPT ![f] = "renames"]
    /\ tmpFile' = [whole |-> TRUE, lines |-> entries]
    /\ UNCHANGED <<streamVars, entries, onDisk>>

FlushRename(f) ==
    /\ flushing[f] = "renames"
    /\ flushing' = [flushing EXCEPT ![f] = "no"]
    /\ onDisk' = tmpFile
    /\ UNCHANGED <<streamVars, entries, tmpFile>>

\* The process ends, and the next one loads the index.  LoadIndex refuses an
\* index that is not whole, which leaves no entries.
CrashAndLoadIndex ==
    /\ logWriter' = NoWriter /\ holders' = {} /\ stale' = {}
    /\ lost' = lost \cup ToSet(logWriter.buf)
    /\ flushing' = [f \in Flushers |-> "no"]
    /\ entries' = onDisk.lines
    /\ UNCHANGED <<logs, current, accepted, onDisk, tmpFile>>

-----------------------------------------------------------------------------
LogNext ==
    \/ \E c \in LogClients : Open(c) \/ WriteLine(c) \/ CloseHandle(c) \/ WriteAfterClose(c)
    \/ CloseStream \/ RotateLogs \/ CleanupOldLogFiles
    \/ \E n \in 1..MaxLines : Index(n)
    \/ CleanupOldEntries
    \/ \E f \in Flushers : FlushIndex(f) \/ FlushWritten(f) \/ FlushRename(f)
    \/ CrashAndLoadIndex

LogSpec == LogInit /\ [][LogNext]_logVars

-----------------------------------------------------------------------------
\* What was written, but for the lines that a crash found in the buffer or that
\* came after Close, is in the files, from the first to the last, followed by what
\* is in the buffer: neither taking the name from the file under the writer, nor
\* clients that share the stream, nor closing and opening it again loses, repeats
\* or reorders a line.
LogComplete ==
    LET pieces == Append(logs, logWriter.buf) IN
    /\ \A f, g \in DOMAIN pieces : \A i \in DOMAIN pieces[f], j \in DOMAIN pieces[g] :
          f < g \/ (f = g /\ i < j) => pieces[f][i] < pieces[g][j]
    /\ UNION {ToSet(pieces[f]) : f \in DOMAIN pieces} = ToSet(accepted) \ lost

\* "Atomic write.": after a crash at any moment of a flush there is an index to
\* load, the last one that was flushed whole, if OneFlusher.
IndexWhole == onDisk.whole

\* No line is lost but those that a crash or a Close takes, and the index survives
\* a crash at any moment.
LogsSafe == LogComplete /\ IndexWhole
=============================================================================
