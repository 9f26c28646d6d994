----------------------------- MODULE Snapshots -----------------------------
(***************************************************************************)
(* The snapshot manager with its backends (pkg/snapshot/manager.go,        *)
(* vss_windows.go), over a file system with names and inodes.  A creation  *)
(* or a deletion holds sm.mu while it walks a tree file by file; a restore *)
(* releases it after the lookup.  Sandboxes go on writing to their trees,  *)
(* in place or by replacing a file.                                        *)
(*                                                                         *)
(* SharedTrees are the trees on the volume of the snapshots, where a       *)
(* restore can make links.  A checksum is kept with a snapshot and never   *)
(* compared, and is left out.                                              *)
(***************************************************************************)
EXTENDS Integers, FiniteSets

CONSTANTS
    Trees,        \* the paths that are snapshotted and restored to
    TreeFiles,    \* the files of a tree
    SnapInodes, NoFile,
    SharedTrees,
    Snaps,        \* snapshot IDs, each used once
    Restorers,    \* callers of RestoreSnapshot
    MaxVersion    \* bound on the writes to the trees

ASSUME SnapshotAssumption ==
    /\ NoFile \notin SnapInodes
    /\ SharedTrees \subseteq Trees
    /\ MaxVersion \in Nat

VARIABLES
    tree,    \* per tree and file, its inode
    content, \* per inode, the version it holds; 0 is an empty file
    snap,    \* per snapshot: state, data/ and, as history, what was copied
             \* and which files were linked by a restore
    todo,    \* the files the holder of sm.mu still has to copy or remove
    restore, \* per restorer, what it is doing
    version  \* the last version written

snapVars == <<tree, content, snap, todo, restore, version>>

NoData == [f \in TreeFiles |-> NoFile]
NoSnap == [state |-> "new", from |-> NoFile, data |-> NoData, copied |-> [f \in TreeFiles |-> 0],
           shadow |-> [f \in TreeFiles |-> 0], vss |-> FALSE, linked |-> {}]
NoRestore == [snap |-> NoFile, tree |-> NoFile, left |-> {}, put |-> {}, at |-> "idle"]

SnapshotInit ==
    /\ LET own == CHOOSE g \in [Trees \X TreeFiles -> SnapInodes] :
                     \A x, y \in Trees \X TreeFiles : g[x] = g[y] => x = y
       IN  tree = [t \in Trees |-> [f \in TreeFiles |-> own[<<t, f>>]]]
    /\ content = [i \in SnapInodes |-> 1]
    /\ snap = [s \in Snaps |-> NoSnap]
    /\ todo = {}
    /\ restore = [r \in Restorers |-> NoRestore]
    /\ version = 1

UsedInodes == {tree[t][f] : t \in Trees, f \in TreeFiles} \cup {snap[s].data[f] : s \in Snaps, f \in TreeFiles}
NewInode == CHOOSE i \in SnapInodes : i \notin UsedInodes
HaveInode == SnapInodes \ UsedInodes # {}

\* sm.mu is held for writing.
SnapLocked == \E s \in Snaps : snap[s].state \in {"creating", "deleting"}

-----------------------------------------------------------------------------
(* CreateSnapshotFromPath *)

\* The lock is taken and the snapshot directory made.  With VSS a shadow
\* copy of the volume is taken first, if there is one to be had.
CreateSnapshot(s, t, vss) ==
    /\ ~ SnapLocked /\ snap[s].state = "new"
    /\ snap' = [snap EXCEPT ![s] = [NoSnap EXCEPT
                   !.state = "creating", !.from = t, !.vss = vss,
                   !.shadow = [f \in TreeFiles |-> IF tree[t][f] = NoFile THEN 0 ELSE content[tree[t][f]]]]]
    /\ todo' = {f \in TreeFiles : tree[t][f] # NoFile}
    /\ UNCHANGED <<tree, content, restore, version>>

\* Mutant: the files of the source are linked.
CreateFileLinks(s, f) ==
    /\ snap[s].state = "creating" /\ f \in todo
    /\ LET src == tree[snap[s].from][f]
       IN  /\ src # NoFile
           /\ snap' = [snap EXCEPT ![s].data[f] = src, ![s].copied[f] = content[src]]
    /\ todo' = todo \ {f}
    /\ UNCHANGED <<tree, content, restore, version>>

\* copyFile into data/, from the live tree or from the shadow copy.
CreateFile(s, f) ==
    /\ snap[s].state = "creating" /\ f \in todo /\ HaveInode
    /\ snap[s].vss \/ tree[snap[s].from][f] # NoFile
    /\ LET v == IF snap[s].vss THEN snap[s].shadow[f] ELSE content[tree[snap[s].from][f]]
       IN  /\ content' = [content EXCEPT ![NewInode] = v]
           /\ snap' = [snap EXCEPT ![s].data[f] = NewInode, ![s].copied[f] = v]
    /\ todo' = todo \ {f}
    /\ UNCHANGED <<tree, restore, version>>

\* backend.txt is written, the snapshot is listed and the lock released.
CreateEnds(s) ==
    /\ snap[s].state = "creating" /\ todo = {}
    /\ snap' = [snap EXCEPT ![s].state = "listed"]
    /\ UNCHANGED <<tree, content, todo, restore, version>>

\* A file cannot be copied: the directory is removed.
CreateFails(s) ==
    /\ snap[s].state = "creating" /\ todo # {}
    /\ snap' = [snap EXCEPT ![s] = [NoSnap EXCEPT !.state = "gone"]]
    /\ todo' = {}
    /\ UNCHANGED <<tree, content, restore, version>>

-----------------------------------------------------------------------------
(* DeleteSnapshot and PruneSnapshots *)

DeleteSnapshot(s) ==
    /\ ~ SnapLocked /\ snap[s].state \in {"listed", "damaged"}
    /\ snap' = [snap EXCEPT ![s].state = "deleting"]
    /\ todo' = {f \in TreeFiles : snap[s].data[f] # NoFile}
    /\ UNCHANGED <<tree, content, restore, version>>

\* os.RemoveAll
DeleteFile(s, f) ==
    /\ snap[s].state = "deleting" /\ f \in todo
    /\ snap' = [snap EXCEPT ![s].data[f] = NoFile]
    /\ todo' = todo \ {f}
    /\ UNCHANGED <<tree, content, restore, version>>

DeleteEnds(s) ==
    /\ snap[s].state = "deleting" /\ todo = {}
    /\ snap' = [snap EXCEPT ![s] = [NoSnap EXCEPT !.state = "gone"]]
    /\ UNCHANGED <<tree, content, todo, restore, version>>

\* DeleteSnapshot leaves the snapshot in the list, with what is left of it;
\* PruneSnapshots forgets it, and leaves what is left on the disk.
DeleteFails(s) ==
    /\ snap[s].state = "deleting" /\ todo # {}
    /\ \E after \in {"damaged", "gone"} : snap' = [snap EXCEPT ![s].state = after]
    /\ todo' = {}
    /\ UNCHANGED <<tree, content, restore, version>>

-----------------------------------------------------------------------------
(* RestoreSnapshot *)

\* The lookup, under the read lock, then the listing of data/.
RestoreSnapshot(r, s, t) ==
    /\ restore[r].at = "idle" /\ ~ SnapLocked
    /\ snap[s].state \in {"listed", "damaged"}
    /\ restore' = [restore EXCEPT ![r] = [NoRestore EXCEPT !.snap = s, !.tree = t, !.at = "found"]]
    /\ UNCHANGED <<tree, content, snap, todo, version>>

RestoreLists(r) ==
    /\ restore[r].at = "found"
    /\ restore' = [restore EXCEPT ![r].at = "walk",
                                  ![r].left = {f \in TreeFiles : snap[restore[r].snap].data[f] # NoFile}]
    /\ UNCHANGED <<tree, content, snap, todo, version>>

\* A file is linked where the tree has none and the volume allows it, and
\* copied otherwise.  The copy truncates the file of the tree first, which
\* may be the very file it is to copy.
RestoreFile(r, f) ==
    LET t == restore[r].tree
        src == snap[restore[r].snap].data[f]
        dst == tree[t][f]
    IN  /\ restore[r].at = "walk" /\ f \in restore[r].left /\ src # NoFile
        /\ \/ /\ dst = NoFile /\ t \in SharedTrees
              /\ tree' = [tree EXCEPT ![t][f] = src]
              /\ snap' = [snap EXCEPT ![restore[r].snap].linked = @ \cup {f}]
              /\ UNCHANGED content
           \/ /\ dst = NoFile /\ t \notin SharedTrees /\ HaveInode
              /\ tree' = [tree EXCEPT ![t][f] = NewInode]
              /\ content' = [content EXCEPT ![NewInode] = content[src]]
              /\ UNCHANGED snap
           \/ /\ dst # NoFile
              /\ content' = [content EXCEPT ![dst] = IF dst = src THEN 0 ELSE content[src]]
              /\ UNCHANGED <<tree, snap>>
        /\ restore' = [restore EXCEPT ![r].left = @ \ {f},
                                      ![r].put = @ \cup {<<f, IF dst = src THEN 0 ELSE content[src]>>}]
        /\ UNCHANGED <<todo, version>>

\* A file of the listing is gone, or cannot be written.
RestoreFails(r) ==
    /\ restore[r].at = "walk" /\ restore[r].left # {}
    /\ restore' = [restore EXCEPT ![r] = NoRestore]
    /\ UNCHANGED <<tree, content, snap, todo, version>>

RestoreReturns(r) ==
    /\ restore[r].at = "walk" /\ restore[r].left = {}
    /\ restore' = [restore EXCEPT ![r].at = "ok"]
    /\ UNCHANGED <<tree, content, snap, todo, version>>

RestoreOver(r) ==
    /\ restore[r].at = "ok"
    /\ restore' = [restore EXCEPT ![r] = NoRestore]
    /\ UNCHANGED <<tree, content, snap, todo, version>>

-----------------------------------------------------------------------------
(* Sandboxes *)

\* A program writes to a file of its tree, in place.
WriteInPlace(t, f) ==
    /\ tree[t][f] # NoFile /\ version < MaxVersion
    /\ content' = [content EXCEPT ![tree[t][f]] = version + 1]
    /\ version' = version + 1
    /\ UNCHANGED <<tree, snap, todo, restore>>

RemoveFile(t, f) ==
    /\ tree[t][f] # NoFile /\ version < MaxVersion
    /\ tree' = [tree EXCEPT ![t][f] = NoFile]
    /\ version' = version + 1
    /\ UNCHANGED <<content, snap, todo, restore>>

SnapStep(s) ==
    \/ \E t \in Trees, vss \in BOOLEAN : CreateSnapshot(s, t, vss)
    \/ CreateEnds(s) \/ CreateFails(s) \/ DeleteSnapshot(s) \/ DeleteEnds(s) \/ DeleteFails(s)
    \/ \E f \in TreeFiles : CreateFile(s, f) \/ DeleteFile(s, f)

RestoreStep(r) ==
    \/ \E s \in Snaps, t \in Trees : RestoreSnapshot(r, s, t)
    \/ RestoreLists(r) \/ RestoreFails(r) \/ RestoreReturns(r) \/ RestoreOver(r)
    \/ \E f \in TreeFiles : RestoreFile(r, f)

SnapshotNext ==
    \/ \E s \in Snaps : SnapStep(s)
    \/ \E r \in Restorers : RestoreStep(r)
    \/ \E t \in Trees, f \in TreeFiles : WriteInPlace(t, f) \/ RemoveFile(t, f)

SnapshotSpec == SnapshotInit /\ [][SnapshotNext]_snapVars

-----------------------------------------------------------------------------
(* Properties *)

\* filesystemBackend copies the source, so that "subsequent writes to the
\* live source cannot corrupt the snapshot": a file of a snapshot stays as it
\* was copied, whatever is written, restored and deleted, as long as no
\* restore has linked it into a tree.
SnapshotKept ==
    \A s \in Snaps : \A f \in TreeFiles \ snap[s].linked :
        snap[s].data[f] # NoFile => content[snap[s].data[f]] = snap[s].copied[f]

\* "the snapshot dir is read-only after Create, so hardlinks into the target are
\* safe" (filesystemBackend): no file of a snapshot changes once it was copied.
SnapshotReadOnly ==
    \A s \in Snaps : \A f \in TreeFiles :
        snap[s].data[f] # NoFile => content[snap[s].data[f]] = snap[s].copied[f]

\* A restore that returns without an error has put every file of the snapshot
\* into the tree, as it was copied if it was not linked before, unless a
\* deletion has started since it looked the snapshot up.
RestoreExact ==
    \A r \in Restorers :
        LET s == restore[r].snap
        IN  (restore[r].at = "ok" /\ snap[s].state = "listed") =>
                \A f \in TreeFiles : snap[s].data[f] # NoFile =>
                    \E p \in restore[r].put :
                        p[1] = f /\ (f \notin snap[s].linked => p[2] = snap[s].copied[f])

\* A snapshot that is listed was copied to the end, and from one moment of
\* its tree when the volume shadow service was used.
ListedComplete ==
    \A s \in Snaps : (snap[s].state = "listed" /\ snap[s].vss) => snap[s].copied = snap[s].shadow

\* Snapshots are whole, stay as they were taken until a restore links their files,
\* and are restored as they are, although trees are written meanwhile.
SnapshotsSafe == SnapshotKept /\ RestoreExact /\ ListedComplete
=============================================================================
