--------------------------- MODULE WorkspaceFiles ---------------------------
(***************************************************************************)
(* Workspaces (pkg/workspace/manager.go) and the operations of the         *)
(* gateway's file service that change files in them                        *)
(* (pkg/gateway/file_service.go).                                          *)
(*                                                                         *)
(* The files are those of a file system with names and inodes: a write     *)
(* fills a temporary file next to its target and renames it. Write and     *)
(* WriteFile use names of their own for it, but the same name for every    *)
(* request. The contents of a file are two cells, written one after the    *)
(* other; a cell no write has reached is a hole. OneWriter says that the   *)
(* clients never let two writes by the same function to the same file      *)
(* overlap, which nothing in the service sees to. The file system is       *)
(* external.                                                               *)
(*                                                                         *)
(* Create of a workspace reserves its entry under the lock, makes the      *)
(* directories without it, and stores the workspace under it again;        *)
(* Release takes the entry away under the lock and removes the directory   *)
(* without it. A session releases a workspace that Create has returned.    *)
(* ResolvePath is computed on paths as sequences of components.            *)
(***************************************************************************)
EXTENDS Integers, Sequences, SequencesExt, FiniteSets

CONSTANTS
    Files,       \* the files, after PathGuard.Resolve
    Values,      \* what is written to them
    Absent,      \* no contents: there is no such file
    Torn,        \* contents that no single write has made
    Hole,        \* a cell that was not written
    Inodes,
    NoInode,
    FileClients, \* requests in progress at once
    OneWriter,   \* BOOLEAN
    MaxFileOps   \* bound on the operations that are begun

ASSUME FileAssumption ==
    /\ NoInode \notin Inodes
    /\ \E f \in [Files -> Inodes] : \A p, q \in Files : f[p] = f[q] => p = q
    /\ Hole \notin Values /\ Absent \notin Values /\ Torn \notin Values /\ Absent # Torn
    /\ OneWriter \in BOOLEAN
    /\ MaxFileOps \in Nat

VARIABLES
    dir,  \* the inode of every name, of the files and of their temporaries
    data, \* the contents of every inode
    fop,  \* per client, the operation it is in
    begun \* the operations that were begun

fileVars == <<dir, data, fop, begun>>

Cells == {1, 2}

\* The two functions that write: Write (".nexusbox-tmp") and WriteFile (".tmp").
Writers == {"Write", "WriteFile"}
Names == Files \X ({"file"} \cup Writers)
Path(p) == <<p, "file">>
Tmp(p, w) == <<p, w>>

Empty == [n \in Cells |-> Hole]
NoOp == [op |-> "none", file |-> Absent, by |-> "Write", value |-> Absent, inode |-> NoInode,
         pos |-> 0, seen |-> Empty]

\* An inode that no name and no open file refers to.
Unused(i) ==
    /\ \A n \in Names : dir[n] # i
    /\ \A c \in FileClients : fop[c].inode # i

\* The workspace as it is found: some of the files are there.
FilesInit ==
    /\ \E found \in SUBSET Files, v \in Values :
          LET old == CHOOSE f \in [Files -> Inodes] : \A p, q \in Files : f[p] = f[q] => p = q
          IN  /\ dir = [n \in Names |-> IF n[2] = "file" /\ n[1] \in found THEN old[n[1]] ELSE NoInode]
              /\ data = [i \in Inodes |-> IF \E p \in found : old[p] = i THEN [n \in Cells |-> v] ELSE Empty]
    /\ fop = [c \in FileClients |-> NoOp]
    /\ begun = 0

-----------------------------------------------------------------------------
(* Write and WriteFile *)

Begin == begun < MaxFileOps /\ begun' = begun + 1

\* OpenFile of the temporary file with O_CREATE and O_TRUNC.
WriteOpen(c, p, w, v) ==
    /\ fop[c].op = "none"
    /\ OneWriter => ~ \E o \in FileClients : fop[o].op = "write" /\ fop[o].file = p /\ fop[o].by = w
    /\ \/ dir[Tmp(p, w)] # NoInode
       \/ \E i \in Inodes : Unused(i)
    /\ LET i == IF dir[Tmp(p, w)] # NoInode THEN dir[Tmp(p, w)]
                ELSE CHOOSE j \in Inodes : Unused(j)
       IN  /\ dir' = [dir EXCEPT ![Tmp(p, w)] = i]
           /\ data' = [data EXCEPT ![i] = Empty]
           /\ fop' = [fop EXCEPT ![c] = [NoOp EXCEPT !.op = "write", !.file = p, !.by = w,
                                                     !.value = v, !.inode = i]]
    /\ Begin

\* file.Write, which may be several writes
WriteCell(c) ==
    /\ fop[c].op = "write" /\ fop[c].pos < 2
    /\ data' = [data EXCEPT ![fop[c].inode][fop[c].pos + 1] = fop[c].value]
    /\ fop' = [fop EXCEPT ![c].pos = @ + 1]
    /\ UNCHANGED <<dir, begun>>

\* The write or the rename fails: Write removes the temporary file, by its
\* name, and WriteFile leaves it.
WriteFails(c) ==
    /\ fop[c].op = "write"
    /\ dir' = IF fop[c].by = "Write" THEN [dir EXCEPT ![Tmp(fop[c].file, "Write")] = NoInode] ELSE dir
    /\ fop' = [fop EXCEPT ![c] = NoOp]
    /\ UNCHANGED <<data, begun>>

\* Mutant: an error of the write goes unnoticed.
CommitAnyway(c) ==
    LET tmp == Tmp(fop[c].file, fop[c].by)
    IN  /\ fop[c].op = "write" /\ dir[tmp] # NoInode
        /\ dir' = [dir EXCEPT ![Path(fop[c].file)] = dir[tmp], ![tmp] = NoInode]
        /\ fop' = [fop EXCEPT ![c] = NoOp]
        /\ UNCHANGED <<data, begun>>

\* os.Rename of the temporary file, whoever has written it by now.
Commit(c) ==
    LET tmp == Tmp(fop[c].file, fop[c].by)
    IN  /\ fop[c].op = "write" /\ fop[c].pos = 2 /\ dir[tmp] # NoInode
        /\ dir' = [dir EXCEPT ![Path(fop[c].file)] = dir[tmp], ![tmp] = NoInode]
        /\ fop' = [fop EXCEPT ![c] = NoOp]
        /\ UNCHANGED <<data, begun>>

-----------------------------------------------------------------------------
(* The other operations *)

\* Delete: RemoveAll of a file that Stat has found.
Delete(p) ==
    /\ dir[Path(p)] # NoInode
    /\ dir' = [dir EXCEPT ![Path(p)] = NoInode]
    /\ Begin
    /\ UNCHANGED <<data, fop>>

\* Move, on one file system.
Move(p, q) ==
    /\ p # q /\ dir[Path(p)] # NoInode
    /\ dir' = [dir EXCEPT ![Path(q)] = dir[Path(p)], ![Path(p)] = NoInode]
    /\ Begin
    /\ UNCHANGED <<data, fop>>

\* Read and ReadFile: open, then read on.
ReadOpen(c, p) ==
    /\ fop[c].op = "none" /\ dir[Path(p)] # NoInode
    /\ fop' = [fop EXCEPT ![c] = [NoOp EXCEPT !.op = "read", !.file = p, !.inode = dir[Path(p)]]]
    /\ Begin
    /\ UNCHANGED <<dir, data>>

ReadCell(c) ==
    /\ fop[c].op = "read" /\ fop[c].pos < 2
    /\ fop' = [fop EXCEPT ![c].pos = @ + 1,
                          ![c].seen[fop[c].pos + 1] = data[fop[c].inode][fop[c].pos + 1]]
    /\ UNCHANGED <<dir, data, begun>>

ReadDone(c) ==
    /\ fop[c].op = "read" /\ fop[c].pos = 2
    /\ fop' = [fop EXCEPT ![c] = NoOp]
    /\ UNCHANGED <<dir, data, begun>>

\* The gateway dies: its requests end where they are.
GatewayCrash ==
    /\ fop' = [c \in FileClients |-> NoOp]
    /\ UNCHANGED <<dir, data, begun>>

FilesNext ==
    \/ \E c \in FileClients :
          \/ \E p \in Files, w \in Writers, v \in Values : WriteOpen(c, p, w, v)
          \/ WriteCell(c) \/ WriteFails(c) \/ Commit(c)
          \/ \E p \in Files : ReadOpen(c, p)
          \/ ReadCell(c) \/ ReadDone(c)
    \/ \E p \in Files : Delete(p)
    \/ \E p, q \in Files : Move(p, q)
    \/ GatewayCrash

FilesSpec == FilesInit /\ [][FilesNext]_fileVars

-----------------------------------------------------------------------------
(* Properties *)

Whole(cells) == cells[1] = cells[2] /\ cells[1] \in Values

\* What a file holds, as a client sees it.
Contents ==
    [p \in Files |-> IF dir[Path(p)] = NoInode THEN Absent
                     ELSE IF Whole(data[dir[Path(p)]]) THEN data[dir[Path(p)]][1] ELSE Torn]

Abstract == INSTANCE AtomicFiles WITH contents <- Contents

\* The file service implements AtomicFiles: opening, filling and renaming the
\* temporary file, failures and crashes between these steps included, amount
\* to one step that replaces the contents, as long as writes of one function
\* to one file do not overlap.
AtomicWrites == Abstract!AtomicSpec

\* Read: what a request reads is what one write has written, although the
\* file is replaced, moved or deleted while it is read.
ReadsWhole ==
    \A c \in FileClients : (fop[c].op = "read" /\ fop[c].pos = 2) => Whole(fop[c].seen)

-----------------------------------------------------------------------------
(* The workspace manager *)

CONSTANTS
    Sessions,       \* sessions that create and release workspaces
    Ids,            \* workspace identifiers
    PathParts       \* components of the paths that are resolved

VARIABLES
    workspaces,     \* m.workspaces: per identifier none, reserved or ready
    dirs,           \* the directories of the workspace: none, some or all
    aiSessions        \* per session: where it is and which identifier it uses

workspaceVars == <<workspaces, dirs, aiSessions>>

Nobody == [at |-> "out", id |-> "none"]

WorkspacesInit ==
    /\ workspaces = [i \in Ids |-> "none"]
    /\ dirs = [i \in Ids |-> "none"]
    /\ aiSessions = [s \in Sessions |-> Nobody]

SessionAt(s, where) == aiSessions' = [aiSessions EXCEPT ![s].at = where]

\* Mutant: the identifier is looked up and the entry made later.
CreateUnreserved(s, i) ==
    /\ aiSessions[s].at = "out" /\ workspaces[i] = "none"
    /\ aiSessions' = [aiSessions EXCEPT ![s] = [at |-> "making", id |-> i]]
    /\ UNCHANGED <<workspaces, dirs>>

Create(s, i) ==
    /\ aiSessions[s].at = "out" /\ workspaces[i] = "none"
    /\ workspaces' = [workspaces EXCEPT ![i] = "reserved"]
    /\ aiSessions' = [aiSessions EXCEPT ![s] = [at |-> "making", id |-> i]]
    /\ UNCHANGED dirs

\* The directories are made one after the other.
MakeDirs(s) ==
    /\ aiSessions[s].at \in {"making", "made some"}
    /\ dirs' = [dirs EXCEPT ![aiSessions[s].id] = IF @ = "all" \/ aiSessions[s].at = "made some" THEN "all" ELSE "some"]
    /\ SessionAt(s, IF aiSessions[s].at = "making" THEN "made some" ELSE "made")
    /\ UNCHANGED workspaces

\* A directory cannot be made: the entry is taken back, the directories stay.
MakeFails(s) ==
    /\ aiSessions[s].at \in {"making", "made some"}
    /\ workspaces' = [workspaces EXCEPT ![aiSessions[s].id] = "none"]
    /\ aiSessions' = [aiSessions EXCEPT ![s] = Nobody]
    /\ UNCHANGED dirs

MakeReturns(s) ==
    /\ aiSessions[s].at = "made"
    /\ workspaces' = [workspaces EXCEPT ![aiSessions[s].id] = "ready"]
    /\ SessionAt(s, "has")
    /\ UNCHANGED dirs

\* A session forgets its workspace, which stays.
Leave(s) ==
    /\ aiSessions[s].at = "has"
    /\ aiSessions' = [aiSessions EXCEPT ![s] = Nobody]
    /\ UNCHANGED <<workspaces, dirs>>

ReleaseWorkspace(s) ==
    /\ aiSessions[s].at = "has" /\ workspaces[aiSessions[s].id] # "none"
    /\ workspaces' = [workspaces EXCEPT ![aiSessions[s].id] = "none"]
    /\ SessionAt(s, "removing")
    /\ UNCHANGED dirs

RemoveAll(s) ==
    /\ aiSessions[s].at = "removing"
    /\ dirs' = [dirs EXCEPT ![aiSessions[s].id] = "none"]
    /\ aiSessions' = [aiSessions EXCEPT ![s] = Nobody]
    /\ UNCHANGED workspaces

WorkspacesNext ==
    \E s \in Sessions :
        \/ \E i \in Ids : Create(s, i)
        \/ MakeDirs(s) \/ MakeFails(s) \/ MakeReturns(s) \/ Leave(s) \/ ReleaseWorkspace(s) \/ RemoveAll(s)

WorkspacesSpec == WorkspacesInit /\ [][WorkspacesNext]_workspaceVars

-----------------------------------------------------------------------------
(* ResolvePath                                                             *)

Root == <<"base", "root">>

\* filepath.Clean: ".." takes the component before it away; at the start of an
\* absolute path it is dropped, at the start of a relative one it stays.
CleanNext(abs, done, c) ==
    IF c # ".." THEN Append(done, c)
    ELSE IF done # <<>> /\ Last(done) # ".." THEN Front(done)
    ELSE IF abs THEN done ELSE Append(done, c)

Clean(abs, p) ==
    LET cleaned[k \in 0..Len(p)] == IF k = 0 THEN <<>> ELSE CleanNext(abs, cleaned[k - 1], p[k])
    IN cleaned[Len(p)]

\* filepath.Join of the root and the cleaned path, which is made relative.
Joined(abs, p) == Clean(TRUE, Root \o Clean(abs, p))

\* filepath.Rel starts with ".." when the path is not below the root; so it does
\* when the first component of a path below the root starts with two dots.
Escapes(q) ==
    \/ ~IsPrefix(Root, q)
    \/ Len(q) > Len(Root) /\ q[Len(Root) + 1] = "..x"

ResolvePath(abs, p) == IF Escapes(Joined(abs, p)) THEN <<>> ELSE Joined(abs, p)

Paths == UNION {[1..n -> PathParts] : n \in 0..3}

-----------------------------------------------------------------------------
\* At most one call at a time makes the directories of a workspace, and the
\* entry is reserved for it.
OneMaker ==
    LET Makers(i) == {s \in Sessions : aiSessions[s].id = i /\ aiSessions[s].at \in {"making", "made some", "made"}} IN
    \A i \in Ids : \A s, t \in Makers(i) : s = t /\ workspaces[i] = "reserved"

\* A path that a workspace accepts is below its root, and a path is
\* accepted if following its components one by one never leaves the root.
PathsConfined ==
    LET Up(p, k) == Cardinality({i \in 1..k : p[i] = ".."})
        Stays(p) == /\ \A k \in 0..Len(p) : Up(p, k) <= k - Up(p, k)
                    /\ "..x" \notin ToSet(p)
    IN (\E i \in Ids : workspaces[i] = "ready") => \A abs \in BOOLEAN : \A p \in Paths :
        /\ ResolvePath(abs, p) # <<>> => IsPrefix(Root, ResolvePath(abs, p)) /\ ".." \notin ToSet(ResolvePath(abs, p))
        /\ Stays(p) => ResolvePath(abs, p) # <<>>

\* One caller makes a workspace, no path leads out of it, and a file of it is read
\* whole, whatever is released, replaced or moved meanwhile.
WorkspacesSafe == OneMaker /\ PathsConfined /\ ReadsWhole
=============================================================================
