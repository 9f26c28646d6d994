-------------------------- MODULE ComponentProofs ---------------------------
(***************************************************************************)
(* Proofs for components that share nothing: the atomic writes of          *)
(* workspace files, the making of workspaces and the paths into them,      *)
(* leader election, the node executor, the controllers' queue, hot reload, *)
(* tenant isolation and the event recorder.  Each part strengthens its     *)
(* property to an inductive invariant that says what an operation in       *)
(* flight owns or relies on.                                               *)
(***************************************************************************)
EXTENDS WorkspaceFiles, LeaderElection, NodeExecutor, Controllers, HotReload, TenantIsolation, EventRecorder,
        RecursionTheorems, SequenceTheorems

-----------------------------------------------------------------------------
(* Files of the workspace *)

FileOps ==
    [op : {"none", "write", "read"}, file : Files \cup {Absent}, by : Writers,
     value : Values \cup {Absent}, inode : Inodes \cup {NoInode}, pos : {0, 1, 2},
     seen : [Cells -> Values \cup {Hole}]]

FilesTypeOK ==
    /\ dir \in [Names -> Inodes \cup {NoInode}]
    /\ data \in [Inodes -> [Cells -> Values \cup {Hole}]]
    /\ fop \in [FileClients -> FileOps]

\* No inode has two names.
OneName == \A m, n \in Names : dir[m] = dir[n] /\ dir[m] # NoInode => m = n

\* A write has its temporary file to itself, and has filled it up to pos.
OwnTemporary ==
    \A c \in FileClients : fop[c].op = "write" =>
        /\ fop[c].file \in Files /\ fop[c].value \in Values /\ fop[c].inode \in Inodes
        /\ dir[Tmp(fop[c].file, fop[c].by)] = fop[c].inode
        /\ \A k \in Cells : k <= fop[c].pos => data[fop[c].inode][k] = fop[c].value
        /\ \A d \in FileClients : fop[d].inode = fop[c].inode => d = c

FilesWhole ==
    \A p \in Files : dir[Path(p)] # NoInode => Whole(data[dir[Path(p)]])

\* A read has a file to read that no write touches.
ReadersSafe ==
    \A c \in FileClients : fop[c].op = "read" =>
        /\ fop[c].inode \in Inodes /\ Whole(data[fop[c].inode])
        /\ \A p \in Files, w \in Writers : dir[Tmp(p, w)] # fop[c].inode
        /\ \A k \in Cells : k <= fop[c].pos => fop[c].seen[k] = data[fop[c].inode][k]

IdleHasNone == \A c \in FileClients : fop[c].op = "none" => fop[c].inode = NoInode

FilesInv == FilesTypeOK /\ OneName /\ OwnTemporary /\ FilesWhole /\ ReadersSafe /\ IdleHasNone

\* The names that are final and those that are temporary are apart.
LEMMA NamesFacts ==
    /\ \A p \in Files : Path(p) \in Names
    /\ \A p \in Files, w \in Writers : Tmp(p, w) \in Names
    /\ \A p, q \in Files, w \in Writers : Path(p) # Tmp(q, w)
    /\ \A p, q \in Files : Path(p) = Path(q) => p = q
    /\ \A p, q \in Files, w, x \in Writers : Tmp(p, w) = Tmp(q, x) => p = q /\ w = x
  BY DEF Names, Path, Tmp, Writers

\* A client without an operation has no inode.
LEMMA NoOpType == NoOp \in FileOps /\ NoOp.op = "none" /\ NoOp.inode = NoInode
  BY DEF NoOp, FileOps, Empty, Cells, Writers

\* The files that are there at the start are whole, and none is temporary.
LEMMA FilesInitInv == FilesInit => FilesInv
<1> SUFFICES ASSUME FilesInit PROVE FilesInv
  OBVIOUS
<1> DEFINE old == CHOOSE f \in [Files -> Inodes] : \A p, q \in Files : f[p] = f[q] => p = q
<1>1. old \in [Files -> Inodes] /\ \A p, q \in Files : old[p] = old[q] => p = q
  BY FileAssumption
<1>2. PICK found \in SUBSET Files, v \in Values :
        /\ dir = [n \in Names |-> IF n[2] = "file" /\ n[1] \in found THEN old[n[1]] ELSE NoInode]
        /\ data = [i \in Inodes |-> IF \E p \in found : old[p] = i THEN [n \in Cells |-> v] ELSE Empty]
  BY DEF FilesInit
<1> HIDE DEF old
<1>3. fop = [c \in FileClients |-> NoOp]
  BY DEF FilesInit
<1>4. FilesTypeOK
  <2>1. dir \in [Names -> Inodes \cup {NoInode}]
    BY <1>1, <1>2
  <2>2. data \in [Inodes -> [Cells -> Values \cup {Hole}]]
    BY <1>2 DEF Empty
  <2> QED
    BY <2>1, <2>2, <1>3, NoOpType DEF FilesTypeOK
<1>5. \A n \in Names : dir[n] # NoInode => n[1] \in found /\ n = Path(n[1]) /\ dir[n] = old[n[1]]
  BY <1>2 DEF Names, Path
<1>6. OneName
  <2> SUFFICES ASSUME NEW m \in Names, NEW n \in Names, dir[m] = dir[n], dir[m] # NoInode PROVE m = n
    BY DEF OneName
  <2>1. old[m[1]] = old[n[1]] /\ m[1] \in found /\ n[1] \in found
    BY <1>5
  <2>2. m[1] = n[1]
    BY <2>1, <1>1
  <2> QED
    BY <2>2, <1>5 DEF Path
<1>7. FilesWhole
  <2> SUFFICES ASSUME NEW p \in Files, dir[Path(p)] # NoInode PROVE Whole(data[dir[Path(p)]])
    BY DEF FilesWhole
  <2>1. p \in found /\ dir[Path(p)] = old[p] /\ old[p] \in Inodes
    BY <1>1, <1>5, NamesFacts DEF Path
  <2>2. data[old[p]] = [n \in Cells |-> v]
    BY <2>1, <1>2
  <2> QED
    BY <2>1, <2>2 DEF Whole, Cells
<1>8. OwnTemporary /\ ReadersSafe /\ IdleHasNone
  BY <1>3, NoOpType DEF OwnTemporary, ReadersSafe, IdleHasNone
<1> QED
  BY <1>4, <1>6, <1>7, <1>8 DEF FilesInv

\* The same facts about one client, for the provers.
LEMMA FopFields ==
    ASSUME FilesTypeOK, NEW c \in FileClients
    PROVE  /\ fop[c] \in FileOps
           /\ fop[c].op \in {"none", "write", "read"} /\ fop[c].by \in Writers
           /\ fop[c].inode \in Inodes \cup {NoInode} /\ fop[c].pos \in {0, 1, 2}
           /\ fop[c].seen \in [Cells -> Values \cup {Hole}]
           /\ fop[c].file \in Files \cup {Absent}
           /\ fop[c].value \in Values \cup {Absent}
  BY DEF FilesTypeOK, FileOps

WriteOp(p, w, v, i) ==
    [NoOp EXCEPT !.op = "write", !.file = p, !.by = w, !.value = v, !.inode = i]

\* WriteOpen truncates a temporary file that nobody else has open or reads.
LEMMA OpenFresh ==
    ASSUME FilesInv, OneWriter, NEW c \in FileClients, NEW p \in Files, NEW w \in Writers,
           NEW v \in Values, WriteOpen(c, p, w, v)
    PROVE  \E i \in Inodes :
             /\ \A d \in FileClients : fop[d].inode # i
             /\ \A n \in Names : dir[n] = i => n = Tmp(p, w)
             /\ dir' = [dir EXCEPT ![Tmp(p, w)] = i]
             /\ data' = [data EXCEPT ![i] = Empty]
             /\ fop' = [fop EXCEPT ![c] = WriteOp(p, w, v, i)]
<1> DEFINE t == Tmp(p, w)
           i == IF dir[t] # NoInode THEN dir[t] ELSE CHOOSE j \in Inodes : Unused(j)
<1>t. t \in Names
  BY NamesFacts
<1>1. /\ dir' = [dir EXCEPT ![t] = i] /\ data' = [data EXCEPT ![i] = Empty]
      /\ fop' = [fop EXCEPT ![c] = WriteOp(p, w, v, i)]
  BY DEF WriteOpen, WriteOp
<1>2. /\ \A o \in FileClients : ~ (fop[o].op = "write" /\ fop[o].file = p /\ fop[o].by = w)
      /\ dir[t] # NoInode \/ \E j \in Inodes : Unused(j)
  BY DEF WriteOpen
<1>3. CASE dir[t] # NoInode
  <2>1. i = dir[t] /\ i \in Inodes
    BY <1>3, <1>t DEF FilesInv, FilesTypeOK
  <2> HIDE DEF i, t
  <2>2. \A n \in Names : dir[n] = i => n = t
    BY <2>1, <1>3, <1>t DEF FilesInv, OneName
  <2>3. ASSUME NEW d \in FileClients, fop[d].inode = i PROVE FALSE
    <3>1. fop[d].op \in {"none", "write", "read"} /\ fop[d].by \in Writers
      BY FopFields DEF FilesInv
    <3>2. CASE fop[d].op = "write"
      <4>1. fop[d].file \in Files /\ dir[Tmp(fop[d].file, fop[d].by)] = i
        BY <3>2, <2>3 DEF FilesInv, OwnTemporary
      <4>2. Tmp(fop[d].file, fop[d].by) = t
        BY <4>1, <3>1, <2>2, NamesFacts
      <4>3. fop[d].file = p /\ fop[d].by = w
        BY <4>2, <4>1, <3>1, NamesFacts DEF t
      <4> QED
        BY <4>3, <3>2, <1>2
    <3>3. CASE fop[d].op = "read"
      <4>1. dir[Tmp(p, w)] # fop[d].inode
        BY <3>3 DEF FilesInv, ReadersSafe
      <4> QED
        BY <4>1, <2>1, <2>3 DEF t
    <3>4. CASE fop[d].op = "none"
      <4>1. fop[d].inode = NoInode
        BY <3>4 DEF FilesInv, IdleHasNone
      <4> QED
        BY <4>1, <2>3, <2>1, FileAssumption
    <3> QED
      BY <3>1, <3>2, <3>3, <3>4
  <2> QED
    BY <1>1, <2>1, <2>2, <2>3 DEF t
<1>4. CASE dir[t] = NoInode
  <2>1. i \in Inodes /\ Unused(i)
    BY <1>4, <1>2
  <2> HIDE DEF i, t
  <2> QED
    BY <2>1, <1>1 DEF Unused, t
<1> QED
  BY <1>3, <1>4

\* os.WriteFile opens the temporary file of the write.
LEMMA WriteOpenInv ==
    ASSUME FilesInv, OneWriter, NEW c \in FileClients, NEW p \in Files, NEW w \in Writers,
           NEW v \in Values, WriteOpen(c, p, w, v)
    PROVE  FilesInv' /\ Contents' = Contents
<1>1. PICK i \in Inodes :
        /\ \A d \in FileClients : fop[d].inode # i
        /\ \A n \in Names : dir[n] = i => n = Tmp(p, w)
        /\ dir' = [dir EXCEPT ![Tmp(p, w)] = i]
        /\ data' = [data EXCEPT ![i] = Empty]
        /\ fop' = [fop EXCEPT ![c] = WriteOp(p, w, v, i)]
  BY OpenFresh
<1> DEFINE t == Tmp(p, w)
           new == WriteOp(p, w, v, i)
<1>2. /\ new \in FileOps /\ new.op = "write" /\ new.file = p /\ new.by = w /\ new.value = v
      /\ new.inode = i /\ new.pos = 0
  BY DEF WriteOp, NoOp, FileOps, Empty, Cells, Writers
<1>3. fop' = [fop EXCEPT ![c] = new]
  BY <1>1
<1> HIDE DEF new, t
<1>t. t \in Names /\ t = Tmp(p, w) /\ \A q \in Files : Path(q) \in Names /\ Path(q) # t
  BY NamesFacts DEF t
<1>4. /\ dir \in [Names -> Inodes \cup {NoInode}]
      /\ data \in [Inodes -> [Cells -> Values \cup {Hole}]]
      /\ fop \in [FileClients -> FileOps]
  BY DEF FilesInv, FilesTypeOK
<1>5. /\ dir'[t] = i /\ \A n \in Names : n # t => dir'[n] = dir[n]
      /\ \A n \in Names : n # t => dir[n] # i
      /\ data'[i] = Empty /\ \A j \in Inodes : j # i => data'[j] = data[j]
      /\ fop'[c] = new /\ \A d \in FileClients : d # c => fop'[d] = fop[d]
  BY <1>1, <1>3, <1>4, <1>t
<1>6. FilesTypeOK'
  <2>1. Empty \in [Cells -> Values \cup {Hole}]
    BY DEF Empty
  <2>2. dir' \in [Names -> Inodes \cup {NoInode}]
    BY <1>1, <1>4
  <2>3. data' \in [Inodes -> [Cells -> Values \cup {Hole}]]
    BY <1>1, <1>4, <2>1
  <2>4. fop' \in [FileClients -> FileOps]
    BY <1>2, <1>3, <1>4
  <2> QED
    BY <2>2, <2>3, <2>4 DEF FilesTypeOK
<1>7. OneName'
  <2> SUFFICES ASSUME NEW m \in Names, NEW n \in Names, dir'[m] = dir'[n], dir'[m] # NoInode PROVE m = n
    BY DEF OneName
  <2>1. CASE m # t /\ n # t
    BY <2>1, <1>5 DEF FilesInv, OneName
  <2>2. CASE m = t \/ n = t
    BY <2>2, <1>5
  <2> QED
    BY <2>1, <2>2
<1>8. OwnTemporary'
  <2> SUFFICES ASSUME NEW e \in FileClients, fop'[e].op = "write"
               PROVE  /\ fop'[e].file \in Files /\ fop'[e].value \in Values /\ fop'[e].inode \in Inodes
                      /\ dir'[Tmp(fop'[e].file, fop'[e].by)] = fop'[e].inode
                      /\ \A k \in Cells : k <= fop'[e].pos => data'[fop'[e].inode][k] = fop'[e].value
                      /\ \A d \in FileClients : fop'[d].inode = fop'[e].inode => d = e
    BY DEF OwnTemporary
  <2>1. CASE e = c
    <3>1. \A k \in Cells : ~ (k <= 0)
      BY DEF Cells
    <3>2. \A d \in FileClients : fop'[d].inode = i => d = c
      BY <1>1, <1>5
    <3> QED
      BY <2>1, <1>2, <1>5, <1>t, <3>1, <3>2
  <2>2. CASE e # c
    <3>1. /\ fop'[e] = fop[e] /\ fop[e].op = "write" /\ fop[e].inode # i
      BY <2>2, <1>1, <1>5
    <3>2. /\ fop[e].file \in Files /\ fop[e].value \in Values /\ fop[e].inode \in Inodes
          /\ dir[Tmp(fop[e].file, fop[e].by)] = fop[e].inode
          /\ \A k \in Cells : k <= fop[e].pos => data[fop[e].inode][k] = fop[e].value
          /\ \A d \in FileClients : fop[d].inode = fop[e].inode => d = e
      BY <3>1 DEF FilesInv, OwnTemporary
    <3>3. Tmp(fop[e].file, fop[e].by) \in Names
      BY <3>2, NamesFacts, FopFields DEF FilesInv
    <3>4. dir'[Tmp(fop[e].file, fop[e].by)] = fop[e].inode
      <4>1. CASE Tmp(fop[e].file, fop[e].by) = t
        <5>1. fop[e].file = p /\ fop[e].by = w
          BY <4>1, <1>t, <3>2, NamesFacts, FopFields DEF FilesInv
        <5>2. ~ (fop[e].op = "write" /\ fop[e].file = p /\ fop[e].by = w)
          BY DEF WriteOpen
        <5> QED
          BY <5>1, <5>2, <3>1
      <4>2. CASE Tmp(fop[e].file, fop[e].by) # t
        BY <4>2, <3>2, <3>3, <1>5
      <4> QED
        BY <4>1, <4>2
    <3>5. \A k \in Cells : k <= fop[e].pos => data'[fop[e].inode][k] = fop[e].value
      BY <3>1, <3>2, <1>5
    <3>6. \A d \in FileClients : fop'[d].inode = fop[e].inode => d = e
      BY <3>1, <3>2, <1>5, <1>2
    <3> QED
      BY <3>1, <3>2, <3>4, <3>5, <3>6
  <2> QED
    BY <2>1, <2>2
<1>9. \A q \in Files : dir'[Path(q)] = dir[Path(q)] /\ dir[Path(q)] # i
  BY <1>5, <1>t
<1>10. \A q \in Files : dir[Path(q)] # NoInode => dir[Path(q)] \in Inodes /\ data'[dir[Path(q)]] = data[dir[Path(q)]]
  BY <1>9, <1>5, <1>4, <1>t
<1>11. FilesWhole'
  BY <1>9, <1>10 DEF FilesInv, FilesWhole, Whole
<1>12. ReadersSafe'
  <2> SUFFICES ASSUME NEW e \in FileClients, fop'[e].op = "read"
               PROVE  /\ fop'[e].inode \in Inodes /\ Whole(data'[fop'[e].inode])
                      /\ \A q \in Files, x \in Writers : dir'[Tmp(q, x)] # fop'[e].inode
                      /\ \A k \in Cells : k <= fop'[e].pos => fop'[e].seen[k] = data'[fop'[e].inode][k]
    BY DEF ReadersSafe, Whole
  <2>1. fop'[e] = fop[e] /\ fop[e].inode # i /\ fop[e].op = "read"
    BY <1>1, <1>2, <1>5
  <2>2. /\ fop[e].inode \in Inodes /\ Whole(data[fop[e].inode])
        /\ \A q \in Files, x \in Writers : dir[Tmp(q, x)] # fop[e].inode
        /\ \A k \in Cells : k <= fop[e].pos => fop[e].seen[k] = data[fop[e].inode][k]
    BY <2>1 DEF FilesInv, ReadersSafe
  <2>3. data'[fop[e].inode] = data[fop[e].inode]
    BY <2>1, <2>2, <1>5
  <2>4. \A q \in Files, x \in Writers : dir'[Tmp(q, x)] # fop[e].inode
    BY <2>1, <2>2, <1>5, NamesFacts
  <2> QED
    BY <2>1, <2>2, <2>3, <2>4
<1>13. IdleHasNone'
  BY <1>5, <1>2 DEF FilesInv, IdleHasNone
<1>14. Contents' = Contents
  BY <1>9, <1>10 DEF Contents
<1> QED
  BY <1>6, <1>7, <1>8, <1>11, <1>12, <1>13, <1>14 DEF FilesInv

\* Operations that end and names that go away disturb nothing, as long as the
\* temporary files of the writes that go on stay.
LEMMA ShrinkInv ==
    ASSUME FilesInv, data' = data,
           dir' \in [Names -> Inodes \cup {NoInode}], \A n \in Names : dir'[n] \in {dir[n], NoInode},
           fop' \in [FileClients -> FileOps], \A d \in FileClients : fop'[d] \in {fop[d], NoOp},
           \A d \in FileClients : fop'[d].op = "write" =>
               dir'[Tmp(fop[d].file, fop[d].by)] = dir[Tmp(fop[d].file, fop[d].by)]
    PROVE  FilesInv'
<1>1. \A d \in FileClients : fop'[d].op # "none" => fop'[d] = fop[d]
  BY NoOpType
<1>2. \A d \in FileClients : fop'[d].inode \in {fop[d].inode, NoInode}
  BY NoOpType
<1>3. FilesTypeOK'
  BY DEF FilesInv, FilesTypeOK
<1>4. OneName'
  BY DEF FilesInv, OneName
<1>5. OwnTemporary'
  <2> SUFFICES ASSUME NEW e \in FileClients, fop'[e].op = "write"
               PROVE  /\ fop'[e].file \in Files /\ fop'[e].value \in Values /\ fop'[e].inode \in Inodes
                      /\ dir'[Tmp(fop'[e].file, fop'[e].by)] = fop'[e].inode
                      /\ \A k \in Cells : k <= fop'[e].pos => data'[fop'[e].inode][k] = fop'[e].value
                      /\ \A d \in FileClients : fop'[d].inode = fop'[e].inode => d = e
    BY DEF OwnTemporary
  <2>1. fop'[e] = fop[e] /\ fop[e].op = "write"
    BY <1>1
  <2>2. /\ fop[e].file \in Files /\ fop[e].value \in Values /\ fop[e].inode \in Inodes
        /\ dir[Tmp(fop[e].file, fop[e].by)] = fop[e].inode
        /\ \A k \in Cells : k <= fop[e].pos => data[fop[e].inode][k] = fop[e].value
        /\ \A d \in FileClients : fop[d].inode = fop[e].inode => d = e
    BY <2>1 DEF FilesInv, OwnTemporary
  <2>3. \A d \in FileClients : fop'[d].inode = fop[e].inode => d = e
    BY <1>2, <2>2, FileAssumption
  <2> QED
    BY <2>1, <2>2, <2>3
<1>6. FilesWhole'
  <2>1. \A p \in Files : dir'[Path(p)] # NoInode => dir'[Path(p)] = dir[Path(p)]
    BY NamesFacts
  <2> QED
    BY <2>1 DEF FilesInv, FilesWhole, Whole
<1>7. ReadersSafe'
  <2> SUFFICES ASSUME NEW e \in FileClients, fop'[e].op = "read"
               PROVE  /\ fop'[e].inode \in Inodes /\ Whole(data'[fop'[e].inode])
                      /\ \A q \in Files, x \in Writers : dir'[Tmp(q, x)] # fop'[e].inode
                      /\ \A k \in Cells : k <= fop'[e].pos => fop'[e].seen[k] = data'[fop'[e].inode][k]
    BY DEF ReadersSafe, Whole
  <2>1. fop'[e] = fop[e] /\ fop[e].op = "read"
    BY <1>1
  <2>2. /\ fop[e].inode \in Inodes /\ Whole(data[fop[e].inode])
        /\ \A q \in Files, x \in Writers : dir[Tmp(q, x)] # fop[e].inode
        /\ \A k \in Cells : k <= fop[e].pos => fop[e].seen[k] = data[fop[e].inode][k]
    BY <2>1 DEF FilesInv, ReadersSafe
  <2>3. \A q \in Files, x \in Writers : dir'[Tmp(q, x)] # fop[e].inode
    BY <2>2, NamesFacts, FileAssumption
  <2> QED
    BY <2>1, <2>2, <2>3
<1>8. IdleHasNone'
  <2> SUFFICES ASSUME NEW e \in FileClients, fop'[e].op = "none" PROVE fop'[e].inode = NoInode
    BY DEF IdleHasNone
  <2> QED
    BY NoOpType DEF FilesInv, IdleHasNone
<1> QED
  BY <1>3, <1>4, <1>5, <1>6, <1>7, <1>8 DEF FilesInv

\* os.Rename of a whole file that no write has open any more.
LEMMA RenameInv ==
    ASSUME FilesInv, data' = data, NEW src \in Names, NEW q \in Files, src # Path(q),
           dir[src] # NoInode, Whole(data[dir[src]]),
           dir' = [dir EXCEPT ![Path(q)] = dir[src], ![src] = NoInode],
           fop' \in [FileClients -> FileOps], \A d \in FileClients : fop'[d] \in {fop[d], NoOp},
           \A d \in FileClients : fop'[d].op = "write" => Tmp(fop[d].file, fop[d].by) # src
    PROVE  FilesInv'
<1>1. \A d \in FileClients : fop'[d].op # "none" => fop'[d] = fop[d]
  BY NoOpType
<1>2. \A d \in FileClients : fop'[d].inode \in {fop[d].inode, NoInode}
  BY NoOpType
<1>3. /\ dir \in [Names -> Inodes \cup {NoInode}] /\ Path(q) \in Names /\ dir[src] \in Inodes
  BY NamesFacts DEF FilesInv, FilesTypeOK
<1>4. /\ dir'[src] = NoInode /\ dir'[Path(q)] = dir[src]
      /\ \A n \in Names : n # src /\ n # Path(q) => dir'[n] = dir[n]
  BY <1>3
<1>5. FilesTypeOK'
  <2>1. dir' \in [Names -> Inodes \cup {NoInode}]
    BY <1>3
  <2> QED
    BY <2>1 DEF FilesInv, FilesTypeOK
<1>6. OneName'
  <2> SUFFICES ASSUME NEW m \in Names, NEW n \in Names, dir'[m] = dir'[n], dir'[m] # NoInode PROVE m = n
    BY DEF OneName
  <2>1. m # src /\ n # src
    BY <1>4
  <2>2. \A l \in Names : l # src => dir[l] # dir[src]
    BY DEF FilesInv, OneName
  <2>3. CASE m = Path(q) \/ n = Path(q)
    BY <2>1, <2>2, <2>3, <1>4
  <2>4. CASE m # Path(q) /\ n # Path(q)
    BY <2>1, <2>4, <1>4 DEF FilesInv, OneName
  <2> QED
    BY <2>3, <2>4
<1>7. \A p \in Files, w \in Writers : Tmp(p, w) # src => dir'[Tmp(p, w)] = dir[Tmp(p, w)]
  <2> SUFFICES ASSUME NEW p \in Files, NEW w \in Writers, Tmp(p, w) # src
               PROVE  dir'[Tmp(p, w)] = dir[Tmp(p, w)]
    OBVIOUS
  <2>1. Tmp(p, w) \in Names /\ Path(q) # Tmp(p, w)
    BY NamesFacts
  <2> QED
    BY <2>1, <1>4
<1>8. OwnTemporary'
  <2> SUFFICES ASSUME NEW e \in FileClients, fop'[e].op = "write"
               PROVE  /\ fop'[e].file \in Files /\ fop'[e].value \in Values /\ fop'[e].inode \in Inodes
                      /\ dir'[Tmp(fop'[e].file, fop'[e].by)] = fop'[e].inode
                      /\ \A k \in Cells : k <= fop'[e].pos => data'[fop'[e].inode][k] = fop'[e].value
                      /\ \A d \in FileClients : fop'[d].inode = fop'[e].inode => d = e
    BY DEF OwnTemporary
  <2>1. fop'[e] = fop[e] /\ fop[e].op = "write" /\ fop[e].by \in Writers
    BY <1>1, FopFields DEF FilesInv
  <2>2. /\ fop[e].file \in Files /\ fop[e].value \in Values /\ fop[e].inode \in Inodes
        /\ dir[Tmp(fop[e].file, fop[e].by)] = fop[e].inode
        /\ \A k \in Cells : k <= fop[e].pos => data[fop[e].inode][k] = fop[e].value
        /\ \A d \in FileClients : fop[d].inode = fop[e].inode => d = e
    BY <2>1 DEF FilesInv, OwnTemporary
  <2>3. \A d \in FileClients : fop'[d].inode = fop[e].inode => d = e
    BY <1>2, <2>2, FileAssumption
  <2>4. dir'[Tmp(fop[e].file, fop[e].by)] = fop[e].inode
    BY <2>1, <2>2, <1>7
  <2> QED
    BY <2>1, <2>2, <2>3, <2>4
<1>9. FilesWhole'
  <2> SUFFICES ASSUME NEW p \in Files, dir'[Path(p)] # NoInode PROVE Whole(data[dir'[Path(p)]])
    BY DEF FilesWhole, Whole
  <2>1. CASE p = q
    BY <2>1, <1>4
  <2>2. CASE p # q
    <3>1. Path(p) # Path(q) /\ Path(p) \in Names /\ Path(p) # src
      BY <2>2, <1>4, NamesFacts
    <3>2. dir'[Path(p)] = dir[Path(p)]
      BY <3>1, <1>4
    <3> QED
      BY <3>2 DEF FilesInv, FilesWhole
  <2> QED
    BY <2>1, <2>2
<1>10. ReadersSafe'
  <2> SUFFICES ASSUME NEW e \in FileClients, fop'[e].op = "read"
               PROVE  /\ fop'[e].inode \in Inodes /\ Whole(data'[fop'[e].inode])
                      /\ \A p \in Files, x \in Writers : dir'[Tmp(p, x)] # fop'[e].inode
                      /\ \A k \in Cells : k <= fop'[e].pos => fop'[e].seen[k] = data'[fop'[e].inode][k]
    BY DEF ReadersSafe, Whole
  <2>1. fop'[e] = fop[e] /\ fop[e].op = "read"
    BY <1>1
  <2>2. /\ fop[e].inode \in Inodes /\ Whole(data[fop[e].inode])
        /\ \A p \in Files, x \in Writers : dir[Tmp(p, x)] # fop[e].inode
        /\ \A k \in Cells : k <= fop[e].pos => fop[e].seen[k] = data[fop[e].inode][k]
    BY <2>1 DEF FilesInv, ReadersSafe
  <2>3. \A p \in Files, x \in Writers : dir'[Tmp(p, x)] # fop[e].inode
    <3> SUFFICES ASSUME NEW p \in Files, NEW x \in Writers PROVE dir'[Tmp(p, x)] # fop[e].inode
      OBVIOUS
    <3>1. CASE Tmp(p, x) = src
      BY <3>1, <2>2, <1>4, FileAssumption
    <3>2. CASE Tmp(p, x) # src
      BY <3>2, <2>2, <1>7
    <3> QED
      BY <3>1, <3>2
  <2> QED
    BY <2>1, <2>2, <2>3
<1>11. IdleHasNone'
  <2> SUFFICES ASSUME NEW e \in FileClients, fop'[e].op = "none" PROVE fop'[e].inode = NoInode
    BY DEF IdleHasNone
  <2> QED
    BY NoOpType DEF FilesInv, IdleHasNone
<1> QED
  BY <1>5, <1>6, <1>8, <1>9, <1>10, <1>11 DEF FilesInv

\* The write fills the file that it has open, which no read and no final name sees.
LEMMA WriteCellInv ==
    ASSUME FilesInv, NEW c \in FileClients, WriteCell(c)
    PROVE  FilesInv' /\ Contents' = Contents
<1> DEFINE i == fop[c].inode
           n == fop[c].pos + 1
           new == [fop[c] EXCEPT !.pos = n]
<1>1. /\ fop[c].op = "write" /\ fop[c].pos < 2 /\ dir' = dir
      /\ data' = [data EXCEPT ![i][n] = fop[c].value]
      /\ fop' = [fop EXCEPT ![c] = new]
  BY DEF WriteCell
<1>2. /\ dir \in [Names -> Inodes \cup {NoInode}]
      /\ data \in [Inodes -> [Cells -> Values \cup {Hole}]]
      /\ fop \in [FileClients -> FileOps]
  BY DEF FilesInv, FilesTypeOK
<1>3. /\ fop[c].file \in Files /\ fop[c].value \in Values /\ i \in Inodes
      /\ dir[Tmp(fop[c].file, fop[c].by)] = i
      /\ \A k \in Cells : k <= fop[c].pos => data[i][k] = fop[c].value
      /\ \A d \in FileClients : fop[d].inode = i => d = c
  BY <1>1 DEF FilesInv, OwnTemporary
<1>4. /\ fop[c].pos \in {0, 1} /\ n \in Cells /\ n \in {0, 1, 2} /\ fop[c].by \in Writers
      /\ \A k \in Cells : k <= n => k = n \/ k <= fop[c].pos
  BY <1>1, FopFields DEF FilesInv, Cells
<1>5. /\ new \in FileOps /\ new.op = "write" /\ new.file = fop[c].file /\ new.by = fop[c].by
      /\ new.value = fop[c].value /\ new.inode = i /\ new.pos = n
  <2>1. fop[c] \in FileOps
    BY <1>2
  <2> HIDE DEF n
  <2> QED
    BY <2>1, <1>1, <1>4 DEF FileOps
<1>6. Tmp(fop[c].file, fop[c].by) \in Names
  BY <1>3, <1>4, NamesFacts
<1> HIDE DEF new, i, n
<1>7. /\ fop'[c] = new /\ \A d \in FileClients : d # c => fop'[d] = fop[d]
      /\ data'[i] = [data[i] EXCEPT ![n] = fop[c].value]
      /\ \A j \in Inodes : j # i => data'[j] = data[j]
      /\ data' \in [Inodes -> [Cells -> Values \cup {Hole}]]
  BY <1>1, <1>2, <1>3, <1>4
<1>8. data'[i][n] = fop[c].value /\ \A k \in Cells : k # n => data'[i][k] = data[i][k]
  BY <1>2, <1>3, <1>4, <1>7
<1>9. \A d \in FileClients : fop'[d].inode = fop[d].inode
  BY <1>5, <1>7 DEF i
<1>10. \A q \in Files : dir[Path(q)] # i
  <2> SUFFICES ASSUME NEW q \in Files, dir[Path(q)] = i PROVE FALSE
    OBVIOUS
  <2>1. Path(q) \in Names /\ Path(q) # Tmp(fop[c].file, fop[c].by)
    BY <1>3, <1>4, NamesFacts
  <2> QED
    BY <2>1, <1>3, <1>6, FileAssumption DEF FilesInv, OneName
<1>11. \A q \in Files : dir[Path(q)] # NoInode => data'[dir[Path(q)]] = data[dir[Path(q)]]
  BY <1>10, <1>7, <1>2, NamesFacts
<1>12. FilesTypeOK'
  <2>1. fop' \in [FileClients -> FileOps]
    BY <1>1, <1>2, <1>5
  <2> QED
    BY <1>1, <1>2, <1>7, <2>1 DEF FilesTypeOK
<1>13. OneName'
  BY <1>1 DEF FilesInv, OneName
<1>14. OwnTemporary'
  <2> SUFFICES ASSUME NEW e \in FileClients, fop'[e].op = "write"
               PROVE  /\ fop'[e].file \in Files /\ fop'[e].value \in Values /\ fop'[e].inode \in Inodes
                      /\ dir'[Tmp(fop'[e].file, fop'[e].by)] = fop'[e].inode
                      /\ \A k \in Cells : k <= fop'[e].pos => data'[fop'[e].inode][k] = fop'[e].value
                      /\ \A d \in FileClients : fop'[d].inode = fop'[e].inode => d = e
    BY DEF OwnTemporary
  <2>1. CASE e = c
    <3>1. \A k \in Cells : k <= n => data'[i][k] = fop[c].value
      BY <1>3, <1>4, <1>8
    <3>2. \A d \in FileClients : fop'[d].inode = i => d = c
      BY <1>3, <1>9
    <3> QED
      BY <2>1, <1>1, <1>3, <1>5, <1>7, <3>1, <3>2
  <2>2. CASE e # c
    <3>1. fop'[e] = fop[e] /\ fop[e].op = "write" /\ fop[e].inode # i
      BY <2>2, <1>3, <1>7
    <3>2. /\ fop[e].file \in Files /\ fop[e].value \in Values /\ fop[e].inode \in Inodes
          /\ dir[Tmp(fop[e].file, fop[e].by)] = fop[e].inode
          /\ \A k \in Cells : k <= fop[e].pos => data[fop[e].inode][k] = fop[e].value
          /\ \A d \in FileClients : fop[d].inode = fop[e].inode => d = e
      BY <3>1 DEF FilesInv, OwnTemporary
    <3>3. data'[fop[e].inode] = data[fop[e].inode]
      BY <3>1, <3>2, <1>7
    <3> QED
      BY <3>1, <3>2, <3>3, <1>1, <1>9
  <2> QED
    BY <2>1, <2>2
<1>15. FilesWhole'
  BY <1>1, <1>11 DEF FilesInv, FilesWhole, Whole
<1>16. ReadersSafe'
  <2> SUFFICES ASSUME NEW e \in FileClients, fop'[e].op = "read"
               PROVE  /\ fop'[e].inode \in Inodes /\ Whole(data'[fop'[e].inode])
                      /\ \A q \in Files, x \in Writers : dir'[Tmp(q, x)] # fop'[e].inode
                      /\ \A k \in Cells : k <= fop'[e].pos => fop'[e].seen[k] = data'[fop'[e].inode][k]
    BY DEF ReadersSafe, Whole
  <2>1. e # c /\ fop'[e] = fop[e] /\ fop[e].inode # i /\ fop[e].op = "read"
    BY <1>3, <1>5, <1>7
  <2>2. /\ fop[e].inode \in Inodes /\ Whole(data[fop[e].inode])
        /\ \A q \in Files, x \in Writers : dir[Tmp(q, x)] # fop[e].inode
        /\ \A k \in Cells : k <= fop[e].pos => fop[e].seen[k] = data[fop[e].inode][k]
    BY <2>1 DEF FilesInv, ReadersSafe
  <2>3. data'[fop[e].inode] = data[fop[e].inode]
    BY <2>1, <2>2, <1>7
  <2> QED
    BY <2>1, <2>2, <2>3, <1>1
<1>17. IdleHasNone'
  BY <1>5, <1>7 DEF FilesInv, IdleHasNone
<1>18. Contents' = Contents
  BY <1>1, <1>11 DEF Contents
<1> QED
  BY <1>12, <1>13, <1>14, <1>15, <1>16, <1>17, <1>18 DEF FilesInv

\* A read that begins, or goes on, in a whole file that has no temporary name.
LEMMA ReadingInv ==
    ASSUME FilesInv, NEW c \in FileClients, NEW new \in FileOps, dir' = dir, data' = data,
           fop[c].op # "write", fop' = [fop EXCEPT ![c] = new],
           new.op = "read", new.inode \in Inodes, Whole(data[new.inode]),
           \A q \in Files, w \in Writers : dir[Tmp(q, w)] # new.inode,
           \A k \in Cells : k <= new.pos => new.seen[k] = data[new.inode][k]
    PROVE  FilesInv'
<1>1. fop \in [FileClients -> FileOps]
  BY DEF FilesInv, FilesTypeOK
<1>2. fop'[c] = new /\ \A d \in FileClients : d # c => fop'[d] = fop[d]
  BY <1>1
<1>3. FilesTypeOK'
  <2>1. fop' \in [FileClients -> FileOps]
    BY <1>1
  <2> QED
    BY <2>1 DEF FilesInv, FilesTypeOK
<1>4. OneName' /\ FilesWhole'
  BY DEF FilesInv, OneName, FilesWhole, Whole
<1>5. OwnTemporary'
  <2> SUFFICES ASSUME NEW e \in FileClients, fop'[e].op = "write"
               PROVE  /\ fop'[e].file \in Files /\ fop'[e].value \in Values /\ fop'[e].inode \in Inodes
                      /\ dir'[Tmp(fop'[e].file, fop'[e].by)] = fop'[e].inode
                      /\ \A k \in Cells : k <= fop'[e].pos => data'[fop'[e].inode][k] = fop'[e].value
                      /\ \A d \in FileClients : fop'[d].inode = fop'[e].inode => d = e
    BY DEF OwnTemporary
  <2>1. fop'[e] = fop[e] /\ fop[e].op = "write" /\ fop[e].by \in Writers
    BY <1>2, FopFields DEF FilesInv
  <2>2. /\ fop[e].file \in Files /\ fop[e].value \in Values /\ fop[e].inode \in Inodes
        /\ dir[Tmp(fop[e].file, fop[e].by)] = fop[e].inode
        /\ \A k \in Cells : k <= fop[e].pos => data[fop[e].inode][k] = fop[e].value
        /\ \A d \in FileClients : fop[d].inode = fop[e].inode => d = e
    BY <2>1 DEF FilesInv, OwnTemporary
  <2>3. fop[e].inode # new.inode
    BY <2>1, <2>2
  <2>4. \A d \in FileClients : fop'[d].inode = fop[e].inode => d = e
    BY <2>2, <2>3, <1>2
  <2> QED
    BY <2>1, <2>2, <2>4
<1>6. ReadersSafe'
  <2> SUFFICES ASSUME NEW e \in FileClients, fop'[e].op = "read"
               PROVE  /\ fop'[e].inode \in Inodes /\ Whole(data[fop'[e].inode])
                      /\ \A q \in Files, x \in Writers : dir[Tmp(q, x)] # fop'[e].inode
                      /\ \A k \in Cells : k <= fop'[e].pos => fop'[e].seen[k] = data[fop'[e].inode][k]
    BY DEF ReadersSafe, Whole
  <2>1. CASE e = c
    BY <2>1, <1>2
  <2>2. CASE e # c
    <3>1. fop'[e] = fop[e] /\ fop[e].op = "read"
      BY <2>2, <1>2
    <3> QED
      BY <3>1 DEF FilesInv, ReadersSafe
  <2> QED
    BY <2>1, <2>2
<1>7. IdleHasNone'
  BY <1>2 DEF FilesInv, IdleHasNone
<1> QED
  BY <1>3, <1>4, <1>5, <1>6, <1>7 DEF FilesInv

\* A read opens a final name, behind which the file is whole.
LEMMA ReadOpenInv ==
    ASSUME FilesInv, NEW c \in FileClients, NEW p \in Files, ReadOpen(c, p)
    PROVE  FilesInv' /\ Contents' = Contents
<1> DEFINE i == dir[Path(p)]
           new == [NoOp EXCEPT !.op = "read", !.file = p, !.inode = i]
<1>1. fop[c].op = "none" /\ i # NoInode /\ dir' = dir /\ data' = data /\ fop' = [fop EXCEPT ![c] = new]
  BY DEF ReadOpen
<1>2. i \in Inodes /\ Path(p) \in Names
  BY <1>1, NamesFacts DEF FilesInv, FilesTypeOK
<1>3. Whole(data[i])
  BY <1>1 DEF FilesInv, FilesWhole
<1>4. \A q \in Files, w \in Writers : dir[Tmp(q, w)] # i
  BY <1>1, <1>2, NamesFacts DEF FilesInv, OneName
<1> HIDE DEF i
<1>5. new \in FileOps /\ new.op = "read" /\ new.inode = i /\ new.pos = 0
  BY <1>2 DEF NoOp, FileOps, Empty, Cells, Writers
<1> HIDE DEF new
<1>6. \A k \in Cells : ~ (k <= new.pos)
  BY <1>5 DEF Cells
<1>7. fop[c].op # "write"
  BY <1>1
<1>8. FilesInv'
  BY <1>1, <1>2, <1>3, <1>4, <1>5, <1>6, <1>7, ReadingInv
<1> QED
  BY <1>1, <1>8 DEF Contents, Whole

\* A read goes on in the file that it has open, which nobody writes any more.
LEMMA ReadCellInv ==
    ASSUME FilesInv, NEW c \in FileClients, ReadCell(c)
    PROVE  FilesInv' /\ Contents' = Contents
<1> DEFINE i == fop[c].inode
           n == fop[c].pos + 1
           new == [fop[c] EXCEPT !.pos = n, !.seen[n] = data[i][n]]
<1>1. fop[c].op = "read" /\ fop[c].pos < 2 /\ dir' = dir /\ data' = data
  BY DEF ReadCell
<1>2. fop' = [fop EXCEPT ![c] = new]
  BY DEF ReadCell
<1>3. /\ i \in Inodes /\ Whole(data[i]) /\ \A q \in Files, w \in Writers : dir[Tmp(q, w)] # i
      /\ \A k \in Cells : k <= fop[c].pos => fop[c].seen[k] = data[i][k]
  BY <1>1 DEF FilesInv, ReadersSafe
<1>4. /\ fop[c].pos \in {0, 1} /\ n \in Cells /\ n \in {0, 1, 2}
      /\ \A k \in Cells : k <= n => k = n \/ k <= fop[c].pos
  BY <1>1, FopFields DEF FilesInv, Cells
<1>5. fop[c] \in FileOps /\ data[i][n] \in Values \cup {Hole} /\ fop[c].seen \in [Cells -> Values \cup {Hole}]
  BY <1>3, <1>4, FopFields DEF FilesInv, FilesTypeOK
<1> HIDE DEF n, i
<1>6. new \in FileOps /\ new.op = "read" /\ new.inode = i /\ new.pos = n
      /\ new.seen = [fop[c].seen EXCEPT ![n] = data[i][n]]
  BY <1>1, <1>4, <1>5 DEF FileOps, i
<1> HIDE DEF new
<1>7. \A k \in Cells : k <= new.pos => new.seen[k] = data[new.inode][k]
  BY <1>3, <1>4, <1>5, <1>6
<1>8. /\ fop[c].op # "write" /\ new.inode \in Inodes /\ Whole(data[new.inode])
      /\ \A q \in Files, w \in Writers : dir[Tmp(q, w)] # new.inode
  BY <1>1, <1>3, <1>6
<1>9. new \in FileOps /\ new.op = "read"
  BY <1>6
<1>10. FilesInv'
  BY <1>1, <1>2, <1>7, <1>8, <1>9, ReadingInv
<1> QED
  BY <1>1, <1>10 DEF Contents, Whole

\* The steps that change what a file holds.
LEMMA CommitInv ==
    ASSUME FilesInv, NEW c \in FileClients, Commit(c)
    PROVE  /\ FilesInv' /\ fop[c].file \in Files
           /\ \E v \in Values : Contents' = [Contents EXCEPT ![fop[c].file] = v]
<1> DEFINE p == fop[c].file
           t == Tmp(p, fop[c].by)
<1>1. /\ fop[c].op = "write" /\ fop[c].pos = 2 /\ dir[t] # NoInode /\ data' = data
      /\ dir' = [dir EXCEPT ![Path(p)] = dir[t], ![t] = NoInode]
      /\ fop' = [fop EXCEPT ![c] = NoOp]
  BY DEF Commit
<1>2. /\ p \in Files /\ fop[c].value \in Values /\ fop[c].inode \in Inodes /\ dir[t] = fop[c].inode
      /\ \A k \in Cells : k <= fop[c].pos => data[fop[c].inode][k] = fop[c].value
      /\ \A d \in FileClients : fop[d].inode = fop[c].inode => d = c
  BY <1>1 DEF FilesInv, OwnTemporary
<1>3. fop[c].by \in Writers /\ fop \in [FileClients -> FileOps] /\ dir \in [Names -> Inodes \cup {NoInode}]
  BY FopFields DEF FilesInv, FilesTypeOK
<1>4. t \in Names /\ t # Path(p) /\ Path(p) \in Names
  BY <1>2, <1>3, NamesFacts
<1>5. Whole(data[dir[t]]) /\ data[dir[t]][1] = fop[c].value
  BY <1>1, <1>2 DEF Whole, Cells
<1>6. /\ fop' \in [FileClients -> FileOps] /\ \A d \in FileClients : fop'[d] \in {fop[d], NoOp}
      /\ fop'[c] = NoOp /\ \A d \in FileClients : d # c => fop'[d] = fop[d]
  BY <1>1, <1>3, NoOpType
<1>7. ASSUME NEW d \in FileClients, fop'[d].op = "write" PROVE Tmp(fop[d].file, fop[d].by) # t
  <2>1. d # c /\ fop[d].op = "write"
    BY <1>6, <1>7, NoOpType
  <2>2. dir[Tmp(fop[d].file, fop[d].by)] = fop[d].inode
    BY <2>1 DEF FilesInv, OwnTemporary
  <2>3. fop[d].inode # fop[c].inode
    BY <2>1, <1>2
  <2> QED
    BY <2>2, <2>3, <1>2
<1>8. FilesInv'
  <2> HIDE DEF t, p
  <2> QED
    BY <1>1, <1>2, <1>4, <1>5, <1>6, <1>7, RenameInv
<1>9. /\ dir'[Path(p)] = dir[t]
      /\ \A q \in Files : q # p => dir'[Path(q)] = dir[Path(q)]
  <2> HIDE DEF t, p
  <2>1. dir'[Path(p)] = dir[t] /\ \A n \in Names : n # t /\ n # Path(p) => dir'[n] = dir[n]
    BY <1>1, <1>3, <1>4
  <2>2. \A q \in Files : q # p => Path(q) \in Names /\ Path(q) # Path(p) /\ Path(q) # t
    BY <1>2, <1>3, NamesFacts DEF t
  <2> QED
    BY <2>1, <2>2
<1>10. Contents' = [Contents EXCEPT ![p] = fop[c].value]
  <2> HIDE DEF t, p
  <2>1. Contents'[p] = fop[c].value
    <3>1. dir'[Path(p)] = dir[t] /\ dir[t] # NoInode
      BY <1>1, <1>9
    <3>2. Contents'[p] = IF dir'[Path(p)] = NoInode THEN Absent
                         ELSE IF Whole(data[dir'[Path(p)]]) THEN data[dir'[Path(p)]][1] ELSE Torn
      BY <1>1, <1>2 DEF Contents, Whole
    <3> QED
      BY <3>1, <3>2, <1>5
  <2>2. \A q \in Files : q # p => Contents'[q] = Contents[q]
    <3>1. data' = data /\ \A q \in Files : q # p => dir'[Path(q)] = dir[Path(q)]
      BY <1>1, <1>9
    <3> QED
      BY <3>1 DEF Contents, Whole
  <2>3. Contents' = [q \in Files |-> Contents'[q]] /\ Contents = [q \in Files |-> Contents[q]]
    BY DEF Contents
  <2> QED
    BY <2>1, <2>2, <2>3
<1> QED
  BY <1>2, <1>8, <1>10

\* Deleting a name leaves the files that are open as they are.
LEMMA DeleteInv ==
    ASSUME FilesInv, NEW p \in Files, Delete(p)
    PROVE  FilesInv' /\ Contents' = [Contents EXCEPT ![p] = Absent]
<1>1. data' = data /\ fop' = fop /\ dir' = [dir EXCEPT ![Path(p)] = NoInode]
  BY DEF Delete
<1>2. /\ fop \in [FileClients -> FileOps] /\ dir \in [Names -> Inodes \cup {NoInode}] /\ Path(p) \in Names
  BY NamesFacts DEF FilesInv, FilesTypeOK
<1>3. /\ dir'[Path(p)] = NoInode /\ \A n \in Names : n # Path(p) => dir'[n] = dir[n]
      /\ dir' \in [Names -> Inodes \cup {NoInode}]
  BY <1>1, <1>2
<1>4. \A d \in FileClients : fop[d].op = "write" =>
         dir'[Tmp(fop[d].file, fop[d].by)] = dir[Tmp(fop[d].file, fop[d].by)]
  <2> SUFFICES ASSUME NEW d \in FileClients, fop[d].op = "write"
               PROVE  dir'[Tmp(fop[d].file, fop[d].by)] = dir[Tmp(fop[d].file, fop[d].by)]
    OBVIOUS
  <2>1. fop[d].file \in Files /\ fop[d].by \in Writers
    BY FopFields DEF FilesInv, OwnTemporary
  <2>2. Tmp(fop[d].file, fop[d].by) \in Names /\ Tmp(fop[d].file, fop[d].by) # Path(p)
    BY <2>1, NamesFacts
  <2> QED
    BY <2>2, <1>3
<1>5. FilesInv'
  <2>1. \A n \in Names : dir'[n] \in {dir[n], NoInode}
    BY <1>3
  <2> QED
    BY <1>1, <1>2, <1>3, <1>4, <2>1, ShrinkInv
<1>6. Contents' = [Contents EXCEPT ![p] = Absent]
  <2>1. \A q \in Files : q # p => Path(q) # Path(p) /\ Path(q) \in Names
    BY NamesFacts
  <2>2. \A q \in Files : q # p => dir'[Path(q)] = dir[Path(q)]
    BY <2>1, <1>3
  <2>3. Contents'[p] = Absent
    BY <1>3 DEF Contents
  <2>4. \A q \in Files : q # p => Contents'[q] = Contents[q]
    BY <1>1, <2>2 DEF Contents, Whole
  <2>5. Contents' = [q \in Files |-> Contents'[q]] /\ Contents = [q \in Files |-> Contents[q]]
    BY DEF Contents
  <2> QED
    BY <2>3, <2>4, <2>5
<1> QED
  BY <1>5, <1>6

\* Moving a file takes its content, whole, to another final name.
LEMMA MoveInv ==
    ASSUME FilesInv, NEW p \in Files, NEW q \in Files, Move(p, q)
    PROVE  /\ FilesInv' /\ p # q /\ Contents[p] # Absent
           /\ Contents' = [Contents EXCEPT ![q] = Contents[p], ![p] = Absent]
<1>1. /\ p # q /\ dir[Path(p)] # NoInode /\ data' = data /\ fop' = fop
      /\ dir' = [dir EXCEPT ![Path(q)] = dir[Path(p)], ![Path(p)] = NoInode]
  BY DEF Move
<1>2. fop \in [FileClients -> FileOps] /\ dir \in [Names -> Inodes \cup {NoInode}]
  BY DEF FilesInv, FilesTypeOK
<1>3. Path(p) \in Names /\ Path(q) \in Names /\ Path(p) # Path(q)
  BY <1>1, NamesFacts
<1>4. Whole(data[dir[Path(p)]])
  BY <1>1 DEF FilesInv, FilesWhole
<1>5. \A d \in FileClients : fop[d].op = "write" => Tmp(fop[d].file, fop[d].by) # Path(p)
  <2> SUFFICES ASSUME NEW d \in FileClients, fop[d].op = "write"
               PROVE  Tmp(fop[d].file, fop[d].by) # Path(p)
    OBVIOUS
  <2>1. fop[d].file \in Files /\ fop[d].by \in Writers
    BY FopFields DEF FilesInv, OwnTemporary
  <2> QED
    BY <2>1, NamesFacts
<1>6. FilesInv'
  BY <1>1, <1>2, <1>3, <1>4, <1>5, RenameInv
<1>7. /\ dir'[Path(p)] = NoInode /\ dir'[Path(q)] = dir[Path(p)]
      /\ \A n \in Names : n # Path(p) /\ n # Path(q) => dir'[n] = dir[n]
  BY <1>1, <1>2, <1>3
<1>8. Contents[p] \in Values /\ Contents[p] # Absent
  BY <1>1, <1>4, FileAssumption DEF Contents, Whole
<1>9. Contents' = [Contents EXCEPT ![q] = Contents[p], ![p] = Absent]
  <2>1. \A r \in Files : r # p /\ r # q => Path(r) # Path(p) /\ Path(r) # Path(q) /\ Path(r) \in Names
    BY NamesFacts
  <2>2. \A r \in Files : r # p /\ r # q => dir'[Path(r)] = dir[Path(r)]
    BY <2>1, <1>7
  <2>3. Contents'[p] = Absent
    BY <1>7 DEF Contents
  <2>4. Contents'[q] = Contents[p]
    <3>1. data' = data /\ dir'[Path(q)] = dir[Path(p)]
      BY <1>1, <1>7
    <3> QED
      BY <3>1 DEF Contents, Whole
  <2>5. \A r \in Files : r # p /\ r # q => Contents'[r] = Contents[r]
    <3>1. data' = data
      BY <1>1
    <3> QED
      BY <3>1, <2>2 DEF Contents, Whole
  <2>6. Contents' = [r \in Files |-> Contents'[r]] /\ Contents = [r \in Files |-> Contents[r]]
    BY DEF Contents
  <2> QED
    BY <2>3, <2>4, <2>5, <2>6, <1>1
<1> QED
  BY <1>1, <1>6, <1>8, <1>9

\* Operations that end without a rename.
LEMMA EndInv ==
    ASSUME FilesInv,
           \/ \E c \in FileClients : WriteFails(c) \/ ReadDone(c)
           \/ GatewayCrash
    PROVE  FilesInv' /\ Contents' = Contents
<1>1. fop \in [FileClients -> FileOps] /\ dir \in [Names -> Inodes \cup {NoInode}]
  BY DEF FilesInv, FilesTypeOK
<1>2. ASSUME dir' = dir, data' = data, fop' \in [FileClients -> FileOps],
             \A d \in FileClients : fop'[d] \in {fop[d], NoOp}
      PROVE  FilesInv' /\ Contents' = Contents
  <2>1. FilesInv'
    BY <1>1, <1>2, ShrinkInv
  <2> QED
    BY <1>2, <2>1 DEF Contents, Whole
<1>3. CASE GatewayCrash
  <2>1. fop' \in [FileClients -> FileOps] /\ \A d \in FileClients : fop'[d] \in {fop[d], NoOp}
    BY <1>3, NoOpType DEF GatewayCrash
  <2> QED
    BY <1>2, <1>3, <2>1 DEF GatewayCrash
<1>4. ASSUME NEW c \in FileClients, ReadDone(c) PROVE FilesInv' /\ Contents' = Contents
  <2>1. fop' \in [FileClients -> FileOps] /\ \A d \in FileClients : fop'[d] \in {fop[d], NoOp}
    BY <1>1, <1>4, NoOpType DEF ReadDone
  <2> QED
    BY <1>2, <1>4, <2>1 DEF ReadDone
<1>5. ASSUME NEW c \in FileClients, WriteFails(c) PROVE FilesInv' /\ Contents' = Contents
  <2>1. /\ fop' \in [FileClients -> FileOps] /\ \A d \in FileClients : fop'[d] \in {fop[d], NoOp}
        /\ fop'[c] = NoOp /\ \A d \in FileClients : d # c => fop'[d] = fop[d]
    BY <1>1, <1>5, NoOpType DEF WriteFails
  <2>2. fop[c].op = "write" /\ data' = data
    BY <1>5 DEF WriteFails
  <2>3. CASE fop[c].by # "Write"
    BY <1>2, <1>5, <2>1, <2>3 DEF WriteFails
  <2>4. CASE fop[c].by = "Write"
    <3> DEFINE t == Tmp(fop[c].file, fop[c].by)
    <3>1. /\ fop[c].file \in Files /\ fop[c].by \in Writers /\ dir[t] = fop[c].inode
          /\ \A d \in FileClients : fop[d].inode = fop[c].inode => d = c
      BY <2>2, FopFields DEF FilesInv, OwnTemporary
    <3>2. dir' = [dir EXCEPT ![t] = NoInode]
      BY <1>5, <2>4 DEF WriteFails
    <3>3. t \in Names /\ \A q \in Files : Path(q) # t /\ Path(q) \in Names
      BY <3>1, NamesFacts
    <3>4. ASSUME NEW d \in FileClients, fop'[d].op = "write" PROVE Tmp(fop[d].file, fop[d].by) # t
      <4>1. d # c /\ fop[d].op = "write"
        BY <2>1, <3>4, NoOpType
      <4>2. dir[Tmp(fop[d].file, fop[d].by)] = fop[d].inode
        BY <4>1 DEF FilesInv, OwnTemporary
      <4>3. fop[d].inode # fop[c].inode
        BY <4>1, <3>1
      <4> QED
        BY <4>2, <4>3, <3>1
    <3>5. ASSUME NEW d \in FileClients, fop'[d].op = "write" PROVE Tmp(fop[d].file, fop[d].by) \in Names
      <4>1. fop[d].op = "write"
        BY <2>1, <3>5, NoOpType
      <4>2. fop[d].file \in Files /\ fop[d].by \in Writers
        BY <4>1, FopFields DEF FilesInv, OwnTemporary
      <4> QED
        BY <4>2, NamesFacts
    <3> HIDE DEF t
    <3>6. /\ dir' \in [Names -> Inodes \cup {NoInode}] /\ \A n \in Names : dir'[n] \in {dir[n], NoInode}
          /\ \A n \in Names : n # t => dir'[n] = dir[n]
      BY <3>2, <3>3, <1>1
    <3>7. FilesInv'
      BY <2>1, <2>2, <3>4, <3>5, <3>6, ShrinkInv
    <3>8. data' = data /\ \A q \in Files : dir'[Path(q)] = dir[Path(q)]
      BY <2>2, <3>3, <3>6
    <3> QED
      BY <3>7, <3>8 DEF Contents, Whole
  <2> QED
    BY <2>3, <2>4
<1> QED
  BY <1>3, <1>4, <1>5

\* Every step of the file service keeps the invariant.
LEMMA FilesStep ==
    ASSUME FilesInv, OneWriter, [FilesNext]_fileVars
    PROVE  FilesInv' /\ [Abstract!AtomicNext]_Contents
<1>1. CASE UNCHANGED fileVars
  <2>1. dir' = dir /\ data' = data /\ fop' = fop
    BY <1>1 DEF fileVars
  <2>2. FilesTypeOK' /\ OneName' /\ IdleHasNone'
    BY <2>1 DEF FilesInv, FilesTypeOK, OneName, IdleHasNone
  <2>3. OwnTemporary'
    BY <2>1 DEF FilesInv, OwnTemporary
  <2>4. FilesWhole' /\ ReadersSafe'
    BY <2>1 DEF FilesInv, FilesWhole, ReadersSafe, Whole
  <2>5. Contents' = Contents
    BY <2>1 DEF Contents, Whole
  <2> QED
    BY <2>2, <2>3, <2>4, <2>5 DEF FilesInv
<1>2. ASSUME NEW c \in FileClients, NEW p \in Files, NEW w \in Writers, NEW v \in Values,
             WriteOpen(c, p, w, v)
      PROVE  FilesInv' /\ Contents' = Contents
  BY <1>2, WriteOpenInv
<1>3. ASSUME NEW c \in FileClients, WriteCell(c) \/ WriteFails(c) \/ ReadCell(c) \/ ReadDone(c)
      PROVE  FilesInv' /\ Contents' = Contents
  BY <1>3, WriteCellInv, EndInv, ReadCellInv
<1>4. ASSUME NEW c \in FileClients, NEW p \in Files, ReadOpen(c, p)
      PROVE  FilesInv' /\ Contents' = Contents
  BY <1>4, ReadOpenInv
<1>5. ASSUME NEW c \in FileClients, Commit(c) PROVE FilesInv' /\ Abstract!AtomicNext
  <2>1. FilesInv' /\ fop[c].file \in Files
    BY <1>5, CommitInv
  <2>2. PICK v \in Values : Contents' = [Contents EXCEPT ![fop[c].file] = v]
    BY <1>5, CommitInv
  <2>3. Abstract!Put(fop[c].file)
    BY <2>2 DEF Abstract!Put
  <2> QED
    BY <2>1, <2>3 DEF Abstract!AtomicNext
<1>6. ASSUME NEW p \in Files, Delete(p) PROVE FilesInv' /\ Abstract!AtomicNext
  BY <1>6, DeleteInv DEF Abstract!AtomicNext, Abstract!Take
<1>7. ASSUME NEW p \in Files, NEW q \in Files, Move(p, q) PROVE FilesInv' /\ Abstract!AtomicNext
  BY <1>7, MoveInv DEF Abstract!AtomicNext, Abstract!MoveTo
<1>8. CASE GatewayCrash
  BY <1>8, EndInv
<1> QED
  BY <1>1, <1>2, <1>3, <1>4, <1>5, <1>6, <1>7, <1>8 DEF FilesNext

\* The file service implements AtomicFiles, for any files, contents, clients and
\* crashes, if writes of one function to one file do not overlap.
THEOREM FilesAtomic ==
    ASSUME OneWriter
    PROVE  FilesSpec => AtomicWrites
<1>1. FilesInv => Contents \in [Files -> Values \cup {Absent}]
  BY DEF FilesInv, FilesWhole, Contents, Whole
<1>2. FilesInit => FilesInv /\ Abstract!AtomicInit
  BY <1>1, FilesInitInv DEF Abstract!AtomicInit
<1>3. FilesInv /\ [FilesNext]_fileVars => FilesInv' /\ [Abstract!AtomicNext]_Contents
  BY FilesStep
<1> QED
  BY <1>2, <1>3, PTL DEF FilesSpec, AtomicWrites, Abstract!AtomicSpec

\* What a request reads is what one write has written.
THEOREM FilesReadWhole ==
    ASSUME OneWriter
    PROVE  FilesSpec => []ReadsWhole
<1>1. FilesInv => ReadsWhole
  BY DEF FilesInv, ReadersSafe, ReadsWhole, Whole, Cells
<1>2. FilesInv /\ [FilesNext]_fileVars => FilesInv'
  BY FilesStep
<1> QED
  BY <1>1, <1>2, FilesInitInv, PTL DEF FilesSpec

-----------------------------------------------------------------------------
(* Paths and workspaces *)

\* The components that are left after each component of a path.
IsCleaned(f, abs, p) == f[0] = <<>> /\ \A k \in 1..Len(p) : f[k] = CleanNext(abs, f[k - 1], p[k])

LEMMA CleanNextType ==
    ASSUME NEW V, NEW abs \in BOOLEAN, NEW cs \in Seq(V), NEW c \in V
    PROVE  CleanNext(abs, cs, c) \in Seq(V)
<1>1. Append(cs, c) \in Seq(V)
  OBVIOUS
<1>2. cs # <<>> => Front(cs) \in Seq(V)
  BY DEF Front
<1> QED
  BY <1>1, <1>2 DEF CleanNext

LEMMA CleanRuns ==
    ASSUME NEW V, NEW abs \in BOOLEAN, NEW p \in Seq(V)
    PROVE  \E f \in [0..Len(p) -> Seq(V)] : IsCleaned(f, abs, p) /\ Clean(abs, p) = f[Len(p)]
<1>1. PICK n \in Nat : n = Len(p)
  OBVIOUS
<1> DEFINE st == [z \in (1..n) \X Seq(V) |-> CleanNext(abs, z[2], p[z[1]])]
           G(f) == [k \in 0..n |-> IF k = 0 THEN <<>> ELSE CleanNext(abs, f[k - 1], p[k])]
           F == CHOOSE f : f = G(f)
<1>2. st \in [(1..n) \X Seq(V) -> Seq(V)]
  <2>1. ASSUME NEW z \in (1..n) \X Seq(V) PROVE CleanNext(abs, z[2], p[z[1]]) \in Seq(V)
    <3>1. z[2] \in Seq(V) /\ p[z[1]] \in V
      BY <1>1
    <3> QED
      BY <3>1, CleanNextType
  <2> QED
    BY <2>1
<1>3. \A k \in 1..n : \A d \in Seq(V) : st[<<k, d>>] = CleanNext(abs, d, p[k])
  OBVIOUS
<1> HIDE DEF st
<1>4. <<>> \in Seq(V)
  OBVIOUS
<1>5. PICK g \in [0..n -> Seq(V)] : Recurs(g, <<>>, st, n)
  BY <1>2, <1>4, RecursionExists
<1>6. \A k \in 1..n : g[k] = CleanNext(abs, g[k - 1], p[k])
  <2> SUFFICES ASSUME NEW k \in 1..n PROVE g[k] = CleanNext(abs, g[k - 1], p[k])
    OBVIOUS
  <2>1. g[k - 1] \in Seq(V) /\ g[k] = st[<<k, g[k - 1]>>]
    BY <1>5 DEF Recurs
  <2> QED
    BY <2>1, <1>3
<1>7. g = G(g)
  <2>1. g[0] = <<>>
    BY <1>5 DEF Recurs
  <2>2. \A k \in 0..n : g[k] = IF k = 0 THEN <<>> ELSE CleanNext(abs, g[k - 1], p[k])
    <3> SUFFICES ASSUME NEW k \in 0..n PROVE g[k] = IF k = 0 THEN <<>> ELSE CleanNext(abs, g[k - 1], p[k])
      OBVIOUS
    <3>1. k = 0 \/ k \in 1..n
      OBVIOUS
    <3> QED
      BY <2>1, <1>6, <3>1
  <2> QED
    BY <1>5, <2>2
<1>8. F = G(F)
  BY <1>7
<1>9. Clean(abs, p) = F[n]
  BY <1>1 DEF Clean
<1>10. F[0] = <<>> /\ \A k \in 1..n : F[k] = CleanNext(abs, F[k - 1], p[k])
  <2> HIDE DEF F
  <2>1. F[0] = <<>>
    BY <1>8
  <2>2. ASSUME NEW k \in 1..n PROVE F[k] = CleanNext(abs, F[k - 1], p[k])
    <3>1. k \in 0..n /\ k # 0
      OBVIOUS
    <3> QED
      BY <1>8, <3>1
  <2> QED
    BY <2>1, <2>2
<1>11. F \in [0..n -> Seq(V)]
  <2> DEFINE S == {k \in 0..n : F[k] \in Seq(V)}
  <2> HIDE DEF F, G
  <2>1. 0 \in S
    <3>1. F[0] \in Seq(V)
      BY <1>4, <1>10
    <3>2. 0 \in 0..n
      OBVIOUS
    <3> QED
      BY <3>1, <3>2
  <2>2. ASSUME NEW i \in Nat, i < n, i \in S PROVE i + 1 \in S
    <3>1. i + 1 \in 1..n /\ (i + 1) - 1 = i /\ F[i] \in Seq(V)
      BY <2>2
    <3>2. F[i + 1] = CleanNext(abs, F[i], p[i + 1]) /\ p[i + 1] \in V
      BY <3>1, <1>10, <1>1
    <3>3. F[i + 1] \in Seq(V)
      BY <3>1, <3>2, CleanNextType
    <3> QED
      BY <3>1, <3>3
  <2>3. \A i \in 0..n : i \in S
    <3> HIDE DEF S
    <3> QED
      BY <2>1, <2>2, UpTo
  <2>4. DOMAIN F = 0..n /\ F = [k \in DOMAIN F |-> F[k]]
    <3>1. F = [k \in 0..n |-> IF k = 0 THEN <<>> ELSE CleanNext(abs, F[k - 1], p[k])]
      BY <1>8 DEF G
    <3> QED
      BY <3>1
  <2> QED
    BY <2>3, <2>4
<1> QED
  BY <1>1, <1>9, <1>10, <1>11 DEF IsCleaned

\* A path without ".." is clean.
LEMMA CleanIsClean ==
    ASSUME NEW V, NEW p \in Seq(V), \A k \in 1..Len(p) : p[k] # ".."
    PROVE  Clean(TRUE, p) = p
<1>1. PICK f \in [0..Len(p) -> Seq(V)] : IsCleaned(f, TRUE, p) /\ Clean(TRUE, p) = f[Len(p)]
  BY CleanRuns
<1>2. PICK n \in Nat : n = Len(p)
  OBVIOUS
<1> DEFINE S == {k \in 0..n : f[k] = SubSeq(p, 1, k)}
<1>3. 0 \in S
  <2>1. SubSeq(p, 1, 0) = <<>>
    OBVIOUS
  <2> QED
    BY <2>1, <1>1 DEF IsCleaned
<1>4. ASSUME NEW i \in Nat, i < n, i \in S PROVE i + 1 \in S
  <2>1. i + 1 \in 1..n /\ (i + 1) - 1 = i /\ f[i] = SubSeq(p, 1, i)
    BY <1>4
  <2>2. f[i + 1] = CleanNext(TRUE, f[i], p[i + 1])
    BY <1>1, <1>2, <2>1 DEF IsCleaned
  <2>3. f[i + 1] = Append(SubSeq(p, 1, i), p[i + 1])
    BY <1>2, <2>1, <2>2 DEF CleanNext
  <2>4. Append(SubSeq(p, 1, i), p[i + 1]) = SubSeq(p, 1, i + 1)
    BY <1>2, <2>1
  <2>5. i + 1 \in 0..n /\ f[i + 1] = SubSeq(p, 1, i + 1)
    BY <2>1, <2>3, <2>4
  <2> QED
    BY <2>5
<1>5. n \in S
  <2> HIDE DEF S
  <2>1. \A i \in 0..n : i \in S
    BY <1>3, <1>4, UpTo
  <2> QED
    BY <2>1
<1>6. SubSeq(p, 1, n) = p
  BY <1>2
<1> QED
  BY <1>1, <1>2, <1>5, <1>6

\* No component of s satisfies ".." and so on.
Without(s, x) == \A k \in 1..Len(s) : s[k] # x

LEMMA WithoutAppend ==
    ASSUME NEW V, NEW s \in Seq(V), NEW c \in V, NEW x, Without(s, x), c # x
    PROVE  Without(Append(s, c), x)
<1>1. Len(Append(s, c)) = Len(s) + 1 /\ Len(s) \in Nat
  OBVIOUS
<1>2. \A k \in 1..(Len(s) + 1) : Append(s, c)[k] = IF k = Len(s) + 1 THEN c ELSE s[k]
  OBVIOUS
<1> QED
  BY <1>1, <1>2 DEF Without

LEMMA WithoutFront ==
    ASSUME NEW V, NEW s \in Seq(V), s # <<>>
    PROVE  /\ Len(Front(s)) = Len(s) - 1 /\ Len(s) > 0
           /\ \A x : Without(s, x) => Without(Front(s), x)
<1>1. Front(s) = SubSeq(s, 1, Len(s) - 1) /\ Len(s) \in Nat /\ Len(s) > 0
  BY DEF Front
<1>0. PICK n \in Nat : n = Len(s) - 1
  BY <1>1
<1>2. Len(Front(s)) = Len(s) - 1
  <2>1. Len(SubSeq(s, 1, n)) = n
    BY <1>0
  <2> QED
    BY <1>0, <1>1, <2>1
<1>3. \A k \in 1..(Len(s) - 1) : Front(s)[k] = s[k]
  <2>1. \A k \in 1..n : SubSeq(s, 1, n)[k] = s[k]
    BY <1>0
  <2> QED
    BY <1>0, <1>1, <2>1
<1> QED
  BY <1>1, <1>2, <1>3 DEF Without

\* An absolute path that is clean has no "..".
LEMMA CleanHasNone ==
    ASSUME NEW V, NEW p \in Seq(V)
    PROVE  Clean(TRUE, p) \in Seq(V) /\ Without(Clean(TRUE, p), "..")
<1>1. PICK f \in [0..Len(p) -> Seq(V)] : IsCleaned(f, TRUE, p) /\ Clean(TRUE, p) = f[Len(p)]
  BY CleanRuns
<1>2. PICK n \in Nat : n = Len(p)
  OBVIOUS
<1> DEFINE S == {k \in 0..n : Without(f[k], "..")}
<1>3. 0 \in S
  BY <1>1 DEF IsCleaned, Without
<1>4. ASSUME NEW i \in Nat, i < n, i \in S PROVE i + 1 \in S
  <2>1. i + 1 \in 1..n /\ (i + 1) - 1 = i /\ Without(f[i], "..") /\ i \in 0..n
    BY <1>4
  <2>2. f[i + 1] = CleanNext(TRUE, f[i], p[i + 1])
    BY <1>1, <1>2, <2>1 DEF IsCleaned
  <2>3. PICK d \in Seq(V), c \in V : d = f[i] /\ c = p[i + 1]
    <3>1. f[i] \in Seq(V) /\ p[i + 1] \in V
      BY <1>2, <2>1
    <3> QED
      BY <3>1
  <2>4. CASE c # ".."
    <3>1. f[i + 1] = Append(d, c)
      BY <2>2, <2>3, <2>4 DEF CleanNext
    <3>2. Without(f[i + 1], "..")
      BY <2>1, <2>3, <2>4, <3>1, WithoutAppend
    <3> QED
      BY <2>1, <3>2
  <2>5. CASE c = ".." /\ d # <<>> /\ Last(d) # ".."
    <3>1. f[i + 1] = Front(d)
      BY <2>2, <2>3, <2>5 DEF CleanNext
    <3>2. Without(f[i + 1], "..")
      BY <2>1, <2>3, <2>5, <3>1, WithoutFront
    <3> QED
      BY <2>1, <3>2
  <2>6. CASE c = ".." /\ ~(d # <<>> /\ Last(d) # "..")
    <3>1. f[i + 1] = d
      BY <2>2, <2>3, <2>6 DEF CleanNext
    <3> QED
      BY <2>1, <2>3, <3>1
  <2> QED
    BY <2>4, <2>5, <2>6
<1>5. n \in S
  <2> HIDE DEF S
  <2>1. \A i \in 0..n : i \in S
    BY <1>3, <1>4, UpTo
  <2> QED
    BY <2>1
<1> QED
  BY <1>1, <1>2, <1>5

\* How often the first k components lead up.
Ups(p, k) == Cardinality({i \in 1..k : p[i] = ".."})

LEMMA UpsNext ==
    ASSUME NEW p, NEW k \in Nat
    PROVE  Ups(p, 0) = 0 /\ Ups(p, k) \in Nat /\ Ups(p, k + 1) = Ups(p, k) + (IF p[k + 1] = ".." THEN 1 ELSE 0)
<1> DEFINE U(j) == {i \in 1..j : p[i] = ".."}
<1>1. IsFiniteSet(U(k)) /\ k + 1 \notin U(k)
  <2>1. IsFiniteSet(1..k) /\ U(k) \subseteq 1..k
    BY FS_Interval
  <2>2. k + 1 \notin 1..k
    OBVIOUS
  <2> HIDE DEF U
  <2> QED
    BY <2>1, <2>2, FS_Subset
<1>2. U(0) = {} /\ U(k + 1) = IF p[k + 1] = ".." THEN U(k) \cup {k + 1} ELSE U(k)
  OBVIOUS
<1>3. Cardinality(U(0)) = 0 /\ Cardinality(U(k)) \in Nat /\ Cardinality(U(k) \cup {k + 1}) = Cardinality(U(k)) + 1
  <2> HIDE DEF U
  <2> QED
    BY <1>1, <1>2, FS_EmptySet, FS_CardinalityType, FS_AddElement
<1>4. \A j : Ups(p, j) = Cardinality(U(j))
  BY DEF Ups
<1> HIDE DEF U
<1> QED
  BY <1>2, <1>3, <1>4

\* A path that never leads above where it begins is cleaned without that.
LEMMA CleanStays ==
    ASSUME NEW V, NEW abs \in BOOLEAN, NEW p \in Seq(V), \A k \in 0..Len(p) : Ups(p, k) <= k - Ups(p, k)
    PROVE  /\ Clean(abs, p) \in Seq(V) /\ Without(Clean(abs, p), "..")
           /\ \A x : Without(p, x) => Without(Clean(abs, p), x)
<1>1. PICK f \in [0..Len(p) -> Seq(V)] : IsCleaned(f, abs, p) /\ Clean(abs, p) = f[Len(p)]
  BY CleanRuns
<1>2. PICK n \in Nat : n = Len(p)
  OBVIOUS
<1> DEFINE Fine(d) == Without(d, "..") /\ \A x : Without(p, x) => Without(d, x)
           S == {k \in 0..n : Fine(f[k]) /\ Len(f[k]) = k - 2 * Ups(p, k)}
<1>3. 0 \in S
  <2>1. f[0] = <<>> /\ Ups(p, 0) = 0
    BY <1>1, UpsNext DEF IsCleaned
  <2>2. Fine(<<>>) /\ Len(<<>>) = 0
    BY DEF Without
  <2> HIDE DEF Fine
  <2> QED
    BY <2>1, <2>2
<1>4. ASSUME NEW i \in Nat, i < n, i \in S PROVE i + 1 \in S
  <2>1. i + 1 \in 1..n /\ (i + 1) - 1 = i /\ Fine(f[i]) /\ Len(f[i]) = i - 2 * Ups(p, i) /\ i \in 0..n /\ i + 1 \in 0..n
    BY <1>4
  <2>2. f[i + 1] = CleanNext(abs, f[i], p[i + 1])
    BY <1>1, <1>2, <2>1 DEF IsCleaned
  <2>3. PICK d \in Seq(V), c \in V : d = f[i] /\ c = p[i + 1]
    <3>1. f[i] \in Seq(V) /\ p[i + 1] \in V
      BY <1>2, <2>1
    <3> QED
      BY <3>1
  <2>4. PICK u \in Nat : u = Ups(p, i)
    BY UpsNext
  <2>5. Ups(p, i + 1) = u + (IF c = ".." THEN 1 ELSE 0) /\ Ups(p, i + 1) <= (i + 1) - Ups(p, i + 1)
    BY <1>2, <2>1, <2>3, <2>4, UpsNext
  <2>6. Len(d) = i - 2 * u
    BY <2>1, <2>3, <2>4
  <2>7. CASE c # ".."
    <3>1. f[i + 1] = Append(d, c)
      BY <2>2, <2>3, <2>7 DEF CleanNext
    <3>2. Len(Append(d, c)) = (i + 1) - 2 * Ups(p, i + 1)
      BY <2>5, <2>6, <2>7
    <3>3. Fine(Append(d, c))
      <4>1. Without(Append(d, c), "..")
        BY <2>1, <2>3, <2>7, WithoutAppend
      <4>2. ASSUME NEW x, Without(p, x) PROVE Without(Append(d, c), x)
        <5>1. c # x /\ Without(d, x)
          BY <1>2, <2>1, <2>3, <4>2 DEF Without
        <5> QED
          BY <5>1, WithoutAppend
      <4> QED
        BY <4>1, <4>2
    <3> HIDE DEF Fine
    <3> QED
      BY <2>1, <3>1, <3>2, <3>3
  <2>8. CASE c = ".."
    <3>1. Ups(p, i + 1) = u + 1 /\ Len(d) > 0
      BY <2>5, <2>6, <2>8
    <3>2. d # <<>> /\ Last(d) # ".."
      BY <2>1, <2>3, <3>1 DEF Without, Last
    <3>3. f[i + 1] = Front(d)
      BY <2>2, <2>3, <2>8, <3>2 DEF CleanNext
    <3>4. Len(Front(d)) = (i + 1) - 2 * Ups(p, i + 1)
      BY <2>6, <3>1, <3>2, WithoutFront
    <3>5. Fine(Front(d))
      BY <2>1, <2>3, <3>2, WithoutFront
    <3> HIDE DEF Fine
    <3> QED
      BY <2>1, <3>3, <3>4, <3>5
  <2> QED
    BY <2>7, <2>8
<1>5. n \in S
  <2> HIDE DEF S
  <2>1. \A i \in 0..n : i \in S
    BY <1>3, <1>4, UpTo
  <2> QED
    BY <2>1
<1>6. f[n] \in Seq(V) /\ Fine(f[n])
  BY <1>2, <1>5
<1> QED
  BY <1>1, <1>2, <1>6

\* The directories below the root that a path without ".." leads to.
LEMMA BelowRoot ==
    ASSUME NEW V, NEW r \in Seq(V), Without(r, "..")
    PROVE  /\ Root \o r \in Seq(V \cup {"base", "root"}) /\ Without(Root \o r, "..")
           /\ IsPrefix(Root, Root \o r) /\ Root \o r # <<>>
           /\ Without(r, "..x") => ~ Escapes(Root \o r)
<1>1. PICK n \in Nat : n = Len(r)
  OBVIOUS
<1>2. PICK W : W = V \cup {"base", "root"}
  OBVIOUS
<1>3. Root \in Seq(W) /\ r \in Seq(W) /\ Len(Root) = 2 /\ Root[1] = "base" /\ Root[2] = "root"
  <2>1. "base" \in W /\ "root" \in W /\ V \subseteq W
    BY <1>2
  <2>2. \A k \in 1..n : r[k] \in W
    BY <1>1, <2>1
  <2>3. r \in Seq(W)
    BY <1>1, <2>2, SeqDef
  <2> QED
    BY <2>1, <2>3 DEF Root
<1>4. PICK q : q = Root \o r
  OBVIOUS
<1>5. q \in Seq(W) /\ Len(q) = n + 2 /\ \A k \in 1..(n + 2) : q[k] = IF k <= 2 THEN Root[k] ELSE r[k - 2]
  <2>1. /\ q \in Seq(W) /\ Len(q) = 2 + n
        /\ \A k \in 1..(2 + n) : q[k] = IF k <= 2 THEN Root[k] ELSE r[k - 2]
    <3>1. PICK t \in Seq(W) : t = Root /\ Len(t) = 2
      BY <1>3
    <3>2. /\ t \o r \in Seq(W) /\ Len(t \o r) = Len(t) + Len(r)
          /\ \A k \in 1..(Len(t) + Len(r)) : (t \o r)[k] = IF k <= Len(t) THEN t[k] ELSE r[k - Len(t)]
      BY <1>3, ConcatProperties
    <3> QED
      BY <1>1, <1>4, <3>1, <3>2
  <2>2. 2 + n = n + 2
    BY <1>1
  <2> QED
    BY <2>1, <2>2
<1>6. Without(q, "..")
  <2> SUFFICES ASSUME NEW k \in 1..(n + 2) PROVE q[k] # ".."
    BY <1>5 DEF Without
  <2>1. CASE k <= 2
    BY <1>3, <1>5, <2>1
  <2>2. CASE k > 2
    <3>1. k - 2 \in 1..n /\ q[k] = r[k - 2]
      BY <1>5, <2>2
    <3> QED
      BY <1>1, <3>1 DEF Without
  <2> QED
    BY <2>1, <2>2
<1>7. IsPrefix(Root, q)
  <2>1. q[1] = Root[1] /\ q[2] = Root[2]
    BY <1>5
  <2>2. PICK a, b : a = SubSeq(Root, 1, 2) /\ b = SubSeq(q, 1, 2)
    OBVIOUS
  <2>3. a \in Seq(W) /\ b \in Seq(W) /\ Len(a) = 2 /\ Len(b) = 2 /\ \A k \in 1..2 : a[k] = Root[k] /\ b[k] = q[k]
    BY <1>3, <1>5, <2>2
  <2>4. \A k \in 1..2 : a[k] = b[k]
    <3>1. \A k \in 1..2 : k = 1 \/ k = 2
      OBVIOUS
    <3> QED
      BY <2>1, <2>3, <3>1
  <2>5. a = b
    BY <2>3, <2>4, SeqEqual
  <2> QED
    BY <1>3, <1>5, <2>2, <2>5 DEF IsPrefix
<1>8. Without(r, "..x") => ~ Escapes(q)
  <2> SUFFICES ASSUME Without(r, "..x"), n > 0 PROVE q[3] # "..x"
    BY <1>3, <1>5, <1>7 DEF Escapes
  <2>1. q[3] = r[1] /\ 1 \in 1..n
    BY <1>5
  <2> QED
    BY <1>1, <2>1 DEF Without
<1> QED
  BY <1>2, <1>4, <1>5, <1>6, <1>7, <1>8

LEMMA PathIsSequence == ASSUME NEW p \in Paths PROVE p \in Seq(PathParts)
<1>1. PICK n \in 0..3 : p \in [1..n -> PathParts]
  BY DEF Paths
<1> QED
  BY <1>1, SeqDef

\* Paths are resolved below the root, and those that stay there are accepted.
LEMMA PathsResolve ==
    ASSUME NEW abs \in BOOLEAN, NEW p \in Paths
    PROVE  /\ ResolvePath(abs, p) # <<>> => IsPrefix(Root, ResolvePath(abs, p)) /\ ".." \notin ToSet(ResolvePath(abs, p))
           /\ (\A k \in 0..Len(p) : Ups(p, k) <= k - Ups(p, k)) /\ "..x" \notin ToSet(p) => ResolvePath(abs, p) # <<>>
<1>1. p \in Seq(PathParts)
  BY PathIsSequence
<1>2. PICK r \in Seq(PathParts) : r = Clean(abs, p)
  BY <1>1, CleanRuns
<1>3. PICK W : W = PathParts \cup {"base", "root"}
  OBVIOUS
<1>4. Root \o r \in Seq(W)
  <2>1. Root \in Seq(W) /\ r \in Seq(W)
    <3>1. "base" \in W /\ "root" \in W /\ PathParts \subseteq W
      BY <1>3
    <3>2. \A k \in 1..Len(r) : r[k] \in W
      BY <3>1
    <3>3. r \in Seq(W)
      BY <3>2, SeqDef
    <3> QED
      BY <3>1, <3>3 DEF Root
  <2> QED
    BY <2>1
<1>5. PICK q \in Seq(W) : q = Joined(abs, p) /\ q = Clean(TRUE, Root \o r) /\ Without(q, "..")
  BY <1>2, <1>4, CleanHasNone DEF Joined
<1>6. ResolvePath(abs, p) = IF Escapes(q) THEN <<>> ELSE q
  BY <1>5 DEF ResolvePath
<1>7. ResolvePath(abs, p) # <<>> => IsPrefix(Root, ResolvePath(abs, p)) /\ ".." \notin ToSet(ResolvePath(abs, p))
  <2>1. ".." \notin ToSet(q)
    <3>1. DOMAIN q = 1..Len(q)
      OBVIOUS
    <3> QED
      BY <1>5, <3>1 DEF Without, ToSet
  <2> QED
    BY <1>6, <2>1 DEF Escapes
<1>8. ASSUME \A k \in 0..Len(p) : Ups(p, k) <= k - Ups(p, k), "..x" \notin ToSet(p)
      PROVE  ResolvePath(abs, p) # <<>>
  <2>1. Without(p, "..x")
    BY <1>1, <1>8 DEF Without, ToSet
  <2>2. Without(r, "..") /\ Without(r, "..x")
    BY <1>1, <1>2, <1>8, <2>1, CleanStays
  <2>3. Without(Root \o r, "..") /\ Root \o r # <<>> /\ ~ Escapes(Root \o r)
    BY <2>2, BelowRoot
  <2>4. q = Root \o r
    BY <1>4, <1>5, <2>3, CleanIsClean DEF Without
  <2> QED
    BY <1>6, <2>3, <2>4
<1> QED
  BY <1>7, <1>8

LEMMA PathsAlwaysConfined == PathsConfined
<1> SUFFICES ASSUME NEW abs \in BOOLEAN, NEW p \in Paths
             PROVE  /\ ResolvePath(abs, p) # <<>> => IsPrefix(Root, ResolvePath(abs, p)) /\ ".." \notin ToSet(ResolvePath(abs, p))
                    /\ (\A k \in 0..Len(p) : Ups(p, k) <= k - Ups(p, k)) /\ "..x" \notin ToSet(p) => ResolvePath(abs, p) # <<>>
  BY DEF PathsConfined, Ups
<1> QED
  BY PathsResolve

Maker == {"making", "made some", "made"}

AISessions == [at : Maker \cup {"has", "removing", "out"}, id : Ids \cup {"none"}]

\* A session that makes a workspace has it reserved, one that has it finds it
\* ready, and there is at most one of these.
WorkspaceInv ==
    /\ workspaces \in [Ids -> {"none", "reserved", "ready"}]
    /\ aiSessions \in [Sessions -> AISessions]
    /\ \A s \in Sessions :
          /\ aiSessions[s].at \in Maker => aiSessions[s].id \in Ids /\ workspaces[aiSessions[s].id] = "reserved"
          /\ aiSessions[s].at = "has" => aiSessions[s].id \in Ids /\ workspaces[aiSessions[s].id] = "ready"
    /\ \A s, t \in Sessions :
          /\ aiSessions[s].at \in Maker \cup {"has"} /\ aiSessions[t].at \in Maker \cup {"has"}
          /\ aiSessions[s].id = aiSessions[t].id
          => s = t

\* One session goes on, with an identifier that no other session uses.
GoesOn(s, a, i, w) ==
    /\ s \in Sessions /\ a \in AISessions /\ i \in Ids /\ w \in {"none", "reserved", "ready"}
    /\ aiSessions' = [aiSessions EXCEPT ![s] = a]
    /\ workspaces' = [workspaces EXCEPT ![i] = w]
    /\ a.at \in Maker \cup {"has"} => a.id = i
    /\ a.at \in Maker => w = "reserved"
    /\ a.at = "has" => w = "ready"
    /\ \A t \in Sessions \ {s} : aiSessions[t].at \in Maker \cup {"has"} => aiSessions[t].id # i

LEMMA SessionGoesOn ==
    ASSUME WorkspaceInv, NEW s, NEW a, NEW i, NEW w, GoesOn(s, a, i, w)
    PROVE  WorkspaceInv'
<1>1. /\ workspaces' \in [Ids -> {"none", "reserved", "ready"}]
      /\ workspaces'[i] = w
      /\ \A j \in Ids \ {i} : workspaces'[j] = workspaces[j]
      /\ aiSessions' \in [Sessions -> AISessions] /\ aiSessions'[s] = a
      /\ \A t \in Sessions \ {s} : aiSessions'[t] = aiSessions[t]
  BY DEF WorkspaceInv, GoesOn
<1>2. ASSUME NEW t \in Sessions
      PROVE  /\ aiSessions'[t].at \in Maker => aiSessions'[t].id \in Ids /\ workspaces'[aiSessions'[t].id] = "reserved"
             /\ aiSessions'[t].at = "has" => aiSessions'[t].id \in Ids /\ workspaces'[aiSessions'[t].id] = "ready"
  <2>1. CASE t = s
    BY <1>1, <2>1 DEF GoesOn
  <2>2. CASE t # s
    BY <1>1, <2>2 DEF WorkspaceInv, GoesOn
  <2> QED
    BY <2>1, <2>2
<1>3. ASSUME NEW t \in Sessions, NEW u \in Sessions,
             aiSessions'[t].at \in Maker \cup {"has"}, aiSessions'[u].at \in Maker \cup {"has"},
             aiSessions'[t].id = aiSessions'[u].id
      PROVE  t = u
  BY <1>1, <1>3 DEF WorkspaceInv, GoesOn
<1> QED
  BY <1>1, <1>2, <1>3 DEF WorkspaceInv

\* One session ends, or goes on to remove the directories.
LEMMA SessionEnds ==
    ASSUME WorkspaceInv, NEW s \in Sessions, NEW a \in AISessions, aiSessions' = [aiSessions EXCEPT ![s] = a],
           a.at \notin Maker \cup {"has"}, workspaces' = workspaces
    PROVE  WorkspaceInv'
BY DEF WorkspaceInv, Maker

LEMMA WorkspaceStep ==
    ASSUME WorkspaceInv, [WorkspacesNext]_workspaceVars
    PROVE  WorkspaceInv'
<1>1. CASE UNCHANGED workspaceVars
  BY <1>1 DEF WorkspaceInv, workspaceVars
<1>2. ASSUME NEW s \in Sessions, NEW i \in Ids, Create(s, i) PROVE WorkspaceInv'
  <2> DEFINE a == [at |-> "making", id |-> i]
  <2>1. \A t \in Sessions : aiSessions[t].at \in Maker \cup {"has"} => aiSessions[t].id # i
    BY <1>2 DEF Create, WorkspaceInv
  <2>2. aiSessions' = [aiSessions EXCEPT ![s] = a] /\ workspaces' = [workspaces EXCEPT ![i] = "reserved"]
    BY <1>2 DEF Create
  <2>4. a \in AISessions
    <3>1. "making" \in Maker \cup {"has", "removing", "out"} /\ i \in Ids \cup {"none"}
      BY DEF Maker
    <3> QED
      BY <3>1 DEF AISessions
  <2>3. a.at = "making" /\ a.id = i /\ "making" \in Maker /\ "making" # "has"
    BY DEF Maker
  <2>5. PICK b \in AISessions : b = a
    BY <2>4
  <2>6. b.id = i /\ b.at \in Maker /\ b.at # "has"
    BY <2>3, <2>5
  <2>7. aiSessions' = [aiSessions EXCEPT ![s] = b]
    BY <2>2, <2>5
  <2>8. PICK w \in {"none", "reserved", "ready"} : w = "reserved"
    OBVIOUS
  <2>9. workspaces' = [workspaces EXCEPT ![i] = w]
    BY <2>2, <2>8
  <2>10. \A t \in Sessions \ {s} : aiSessions[t].at \in Maker \cup {"has"} => aiSessions[t].id # i
    BY <2>1
  <2>11. (b.at \in Maker \cup {"has"} => b.id = i) /\ (b.at \in Maker => w = "reserved") /\ (b.at = "has" => w = "ready")
    BY <2>6, <2>8
  <2> HIDE DEF a
  <2>20. GoesOn(s, b, i, w)
    BY <2>7, <2>9, <2>10, <2>11 DEF GoesOn, WorkspaceInv
  <2> QED
    BY <2>20, SessionGoesOn
<1>3. ASSUME NEW s \in Sessions, MakeDirs(s) PROVE WorkspaceInv'
  <2>0. PICK x : x = IF aiSessions[s].at = "making" THEN "made some" ELSE "made"
    OBVIOUS
  <2>1. PICK a : a = [aiSessions[s] EXCEPT !.at = x]
    OBVIOUS
  <2>2. aiSessions[s].at \in Maker /\ x \in Maker /\ x # "has" /\ aiSessions' = [aiSessions EXCEPT ![s] = a] /\ workspaces' = workspaces
    BY <1>3, <2>0, <2>1 DEF MakeDirs, SessionAt, Maker
  <2>3. PICK i \in Ids : i = aiSessions[s].id
    BY <2>2 DEF WorkspaceInv
  <2>4. workspaces[i] = "reserved" /\ workspaces' = [workspaces EXCEPT ![i] = "reserved"]
    BY <2>2, <2>3 DEF WorkspaceInv
  <2>6. aiSessions[s] \in AISessions
    BY DEF WorkspaceInv
  <2>5. a.at = x /\ a.id = i
    BY <2>1, <2>3, <2>6 DEF AISessions
  <2>7. a \in AISessions
    BY <2>1, <2>2, <2>6 DEF AISessions, Maker
  <2>20. GoesOn(s, a, i, "reserved")
    BY <2>2, <2>3, <2>4, <2>5, <2>7 DEF GoesOn, WorkspaceInv
  <2> QED
    BY <2>20, SessionGoesOn
<1>4. ASSUME NEW s \in Sessions, MakeFails(s) PROVE WorkspaceInv'
  <2>1. /\ aiSessions[s].at \in Maker /\ aiSessions' = [aiSessions EXCEPT ![s] = Nobody]
        /\ workspaces' = [workspaces EXCEPT ![aiSessions[s].id] = "none"]
    BY <1>4 DEF MakeFails, Maker
  <2>2. PICK i \in Ids : i = aiSessions[s].id
    BY <2>1 DEF WorkspaceInv
  <2>3. Nobody \in AISessions /\ Nobody.at \notin Maker \cup {"has"}
    BY DEF Nobody, AISessions, Maker
  <2>20. GoesOn(s, Nobody, i, "none")
    BY <2>1, <2>2, <2>3 DEF GoesOn, WorkspaceInv
  <2> QED
    BY <2>20, SessionGoesOn
<1>5. ASSUME NEW s \in Sessions, MakeReturns(s) PROVE WorkspaceInv'
  <2>1. PICK a : a = [aiSessions[s] EXCEPT !.at = "has"]
    OBVIOUS
  <2>2. aiSessions[s].at \in Maker /\ aiSessions' = [aiSessions EXCEPT ![s] = a] /\ workspaces' = [workspaces EXCEPT ![aiSessions[s].id] = "ready"]
    BY <1>5, <2>1 DEF MakeReturns, SessionAt, Maker
  <2>3. PICK i \in Ids : i = aiSessions[s].id
    BY <2>2 DEF WorkspaceInv
  <2>4. aiSessions[s] \in AISessions
    BY DEF WorkspaceInv
  <2>5. a \in AISessions /\ a.at = "has" /\ a.id = i /\ "has" \notin Maker
    BY <2>1, <2>3, <2>4 DEF AISessions, Maker
  <2>20. GoesOn(s, a, i, "ready")
    BY <2>2, <2>3, <2>5 DEF GoesOn, WorkspaceInv
  <2> QED
    BY <2>20, SessionGoesOn
<1>6. ASSUME NEW s \in Sessions, Leave(s) PROVE WorkspaceInv'
  <2>1. Nobody \in AISessions /\ Nobody.at \notin Maker \cup {"has"}
    BY DEF Nobody, AISessions, Maker
  <2>2. aiSessions' = [aiSessions EXCEPT ![s] = Nobody] /\ workspaces' = workspaces
    BY <1>6 DEF Leave
  <2> QED
    BY <2>1, <2>2, SessionEnds
<1>7. ASSUME NEW s \in Sessions, ReleaseWorkspace(s) PROVE WorkspaceInv'
  <2>1. PICK a : a = [aiSessions[s] EXCEPT !.at = "removing"]
    OBVIOUS
  <2>2. aiSessions[s].at = "has" /\ aiSessions' = [aiSessions EXCEPT ![s] = a] /\ workspaces' = [workspaces EXCEPT ![aiSessions[s].id] = "none"]
    BY <1>7, <2>1 DEF ReleaseWorkspace, SessionAt
  <2>3. PICK i \in Ids : i = aiSessions[s].id
    BY <2>2 DEF WorkspaceInv
  <2>4. aiSessions[s] \in AISessions
    BY DEF WorkspaceInv
  <2>5. a \in AISessions /\ a.at = "removing" /\ "removing" \notin Maker \cup {"has"}
    BY <2>1, <2>3, <2>4 DEF AISessions, Maker
  <2>20. GoesOn(s, a, i, "none")
    BY <2>2, <2>3, <2>5 DEF GoesOn, WorkspaceInv
  <2> QED
    BY <2>20, SessionGoesOn
<1>8. ASSUME NEW s \in Sessions, RemoveAll(s) PROVE WorkspaceInv'
  <2>1. Nobody \in AISessions /\ Nobody.at \notin Maker \cup {"has"}
    BY DEF Nobody, AISessions, Maker
  <2>2. aiSessions' = [aiSessions EXCEPT ![s] = Nobody] /\ workspaces' = workspaces
    BY <1>8 DEF RemoveAll
  <2> QED
    BY <2>1, <2>2, SessionEnds
<1> QED
  BY <1>1, <1>2, <1>3, <1>4, <1>5, <1>6, <1>7, <1>8 DEF WorkspacesNext

LEMMA WorkspaceStart == WorkspacesInit => WorkspaceInv
<1> SUFFICES ASSUME WorkspacesInit PROVE WorkspaceInv
  OBVIOUS
<1>1. Nobody \in AISessions /\ Nobody.at \notin Maker \cup {"has"}
  BY DEF Nobody, AISessions, Maker
<1>2. workspaces \in [Ids -> {"none", "reserved", "ready"}] /\ aiSessions \in [Sessions -> AISessions]
  BY <1>1 DEF WorkspacesInit
<1>3. \A s \in Sessions : aiSessions[s].at \notin Maker \cup {"has"}
  BY <1>1 DEF WorkspacesInit
<1> QED
  BY <1>2, <1>3 DEF WorkspaceInv

LEMMA WorkspaceMakers == WorkspaceInv => OneMaker
<1> SUFFICES ASSUME WorkspaceInv, NEW i \in Ids, NEW s \in Sessions, NEW t \in Sessions,
                    aiSessions[s].id = i, aiSessions[t].id = i, aiSessions[s].at \in Maker, aiSessions[t].at \in Maker
             PROVE  s = t /\ workspaces[i] = "reserved"
  BY DEF OneMaker, Maker
<1> QED
  BY DEF WorkspaceInv

\* Create, Release and ResolvePath (manager.go), and the reads of file_service.go:
\* one caller makes a workspace, no path leads out of it, and files are read whole.
THEOREM WorkspacesAlwaysSafe == ASSUME OneWriter PROVE FilesSpec /\ WorkspacesSpec => []WorkspacesSafe
<1>1. WorkspacesSpec => []WorkspaceInv
  BY WorkspaceStart, WorkspaceStep, PTL DEF WorkspacesSpec
<1>2. WorkspaceInv /\ ReadsWhole => WorkspacesSafe
  BY WorkspaceMakers, PathsAlwaysConfined DEF WorkspacesSafe
<1> QED
  BY <1>1, <1>2, FilesReadWhole, PTL

-----------------------------------------------------------------------------
(* Leader election *)

\* Instances whose lease is live and that nobody has told to stop.
Live(i) == lease[i] /\ stop[i] = "no"

ElectionTypes ==
    /\ at \in [Instances -> {"loop", "campaign", "elected", "leading", "renew", "over"}]
    /\ leading \in [Instances -> BOOLEAN] /\ leaderCh \in [Instances -> BOOLEAN]
    /\ lease \in [Instances -> BOOLEAN] /\ done \in [Instances -> BOOLEAN]
    /\ keyRev \in [Instances -> Nat] /\ myRev \in [Instances -> Nat]
    /\ stop \in [Instances -> {"no", "asked", "resigned", "closed"}]
    /\ revision \in Nat

KeysOrdered ==
    /\ \A i \in Instances : keyRev[i] <= revision
    /\ \A i, j \in Instances : keyRev[i] = keyRev[j] /\ keyRev[i] # 0 => i = j

\* Between Campaign and the end of its term a live instance has the key that it
\* campaigns with, and once it has won no key is older.
WinnerHasKey ==
    \A i \in Instances :
        /\ leading[i] => at[i] = "leading"
        /\ Live(i) /\ at[i] \in {"campaign", "elected", "leading"} =>
              keyRev[i] = myRev[i] /\ keyRev[i] # 0
        /\ Live(i) /\ at[i] \in {"elected", "leading"} =>
              \A j \in Instances : keyRev[j] # 0 => keyRev[j] >= keyRev[i]

ElectionInv == ElectionTypes /\ KeysOrdered /\ WinnerHasKey

\* No key is put, and nobody comes to lead or to have a lease again.
LEMMA ElectionShrinks ==
    ASSUME ElectionInv, ElectionTypes', revision' = revision, myRev' = myRev,
           \A i \in Instances : keyRev'[i] \in {keyRev[i], 0},
           \A i \in Instances : Live(i)' /\ at'[i] \in {"campaign", "elected", "leading"} =>
               /\ Live(i) /\ keyRev'[i] = keyRev[i]
               /\ at[i] \in {"campaign", "elected", "leading"}
               /\ at'[i] \in {"elected", "leading"} => at[i] \in {"elected", "leading"} \/ Oldest(myRev[i]),
           \A i \in Instances : leading'[i] => at'[i] = "leading"
    PROVE  ElectionInv'
<1>1. KeysOrdered'
  BY DEF ElectionInv, KeysOrdered, ElectionTypes
<1>2. ASSUME NEW i \in Instances, Live(i)', at'[i] \in {"campaign", "elected", "leading"}
      PROVE  keyRev'[i] = myRev'[i] /\ keyRev'[i] # 0
  BY <1>2 DEF ElectionInv, WinnerHasKey
<1>3. ASSUME NEW i \in Instances, Live(i)', at'[i] \in {"elected", "leading"},
             NEW j \in Instances, keyRev'[j] # 0
      PROVE  keyRev'[j] >= keyRev'[i]
  <2>1. /\ Live(i) /\ keyRev'[i] = keyRev[i] /\ keyRev'[j] = keyRev[j] /\ keyRev[j] # 0
        /\ at[i] \in {"elected", "leading"} \/ Oldest(myRev[i])
        /\ at[i] \in {"campaign", "elected", "leading"}
    BY <1>3
  <2>2. CASE at[i] \in {"elected", "leading"}
    BY <2>1, <2>2 DEF ElectionInv, WinnerHasKey
  <2>3. CASE Oldest(myRev[i])
    BY <2>1, <2>3 DEF ElectionInv, WinnerHasKey, Oldest, Keys
  <2> QED
    BY <2>1, <2>2, <2>3
<1>4. WinnerHasKey'
  BY <1>2, <1>3 DEF WinnerHasKey
<1> QED
  BY <1>1, <1>4 DEF ElectionInv

\* A new key is younger than all others, so no leader loses its place to it.
LEMMA CampaignInv ==
    ASSUME ElectionInv, NEW i \in Instances, Campaign(i)
    PROVE  ElectionInv'
<1>1. /\ at[i] = "loop" /\ stop[i] = "no" /\ lease[i] /\ at' = [at EXCEPT ![i] = "campaign"]
      /\ leading' = leading /\ lease' = lease /\ stop' = stop
  BY DEF Campaign
<1>2. ElectionTypes'
  BY DEF Campaign, ElectionInv, ElectionTypes
<1>3. /\ at'[i] = "campaign" /\ \A j \in Instances : j # i => at'[j] = at[j]
      /\ \A j \in Instances : Live(j)' = Live(j)
  BY <1>1 DEF Live, ElectionInv, ElectionTypes
<1>4. /\ keyRev'[i] = myRev'[i] /\ keyRev'[i] # 0 /\ revision' >= revision
      /\ keyRev'[i] = keyRev[i] \/ (keyRev'[i] = revision + 1 /\ revision' = revision + 1)
      /\ \A j \in Instances : j # i => keyRev'[j] = keyRev[j] /\ myRev'[j] = myRev[j]
  <2>1. CASE keyRev[i] = 0
    BY <2>1 DEF Campaign, ElectionInv, ElectionTypes
  <2>2. CASE keyRev[i] # 0
    BY <2>2 DEF Campaign, ElectionInv, ElectionTypes
  <2> QED
    BY <2>1, <2>2
<1>5. KeysOrdered'
  <2>1. ASSUME NEW j \in Instances PROVE keyRev'[j] <= revision'
    BY <1>2, <1>4, <2>1 DEF ElectionInv, KeysOrdered, ElectionTypes
  <2>2. ASSUME NEW j \in Instances, NEW k \in Instances, keyRev'[j] = keyRev'[k], keyRev'[j] # 0
        PROVE  j = k
    BY <1>2, <1>4, <2>2 DEF ElectionInv, KeysOrdered, ElectionTypes
  <2> QED
    BY <2>1, <2>2 DEF KeysOrdered
<1>6. ASSUME NEW j \in Instances PROVE leading'[j] => at'[j] = "leading"
  BY <1>1, <1>3 DEF ElectionInv, WinnerHasKey
<1>7. ASSUME NEW j \in Instances, Live(j)', at'[j] \in {"campaign", "elected", "leading"}
      PROVE  keyRev'[j] = myRev'[j] /\ keyRev'[j] # 0
  BY <1>3, <1>4, <1>7 DEF ElectionInv, WinnerHasKey
<1>8. ASSUME NEW j \in Instances, Live(j)', at'[j] \in {"elected", "leading"},
             NEW k \in Instances, keyRev'[k] # 0
      PROVE  keyRev'[k] >= keyRev'[j]
  <2>1. j # i /\ Live(j) /\ at[j] \in {"elected", "leading"} /\ keyRev'[j] = keyRev[j]
    BY <1>3, <1>4, <1>8
  <2>2. keyRev[j] <= revision /\ \A l \in Instances : keyRev[l] # 0 => keyRev[l] >= keyRev[j]
    BY <2>1 DEF ElectionInv, WinnerHasKey, KeysOrdered
  <2> QED
    BY <2>1, <2>2, <1>4, <1>8 DEF ElectionInv, ElectionTypes
<1>9. WinnerHasKey'
  BY <1>6, <1>7, <1>8 DEF WinnerHasKey
<1> QED
  BY <1>2, <1>5, <1>9 DEF ElectionInv

\* Every step of Run, Stop and etcd keeps the invariant.
LEMMA ElectionStep ==
    ASSUME ElectionInv, [ElectionNext]_electionVars
    PROVE  ElectionInv'
<1> USE DEF ElectionInv, ElectionTypes
<1>1. CASE UNCHANGED electionVars
  BY <1>1 DEF electionVars, KeysOrdered, WinnerHasKey, Live
<1>2. ASSUME NEW i \in Instances, Campaign(i) PROVE ElectionInv'
  BY <1>2, CampaignInv
<1>3. ASSUME NEW i \in Instances,
             \/ RunStops(i) \/ Wins(i) \/ CampaignFails(i) \/ Lead(i) \/ SessionLost(i) \/ Renew(i)
             \/ StopStep(i) \/ ReadLeaderCh(i) \/ LeaseExpires(i) \/ SessionDone(i)
      PROVE  ElectionInv'
  <2> DEFINE Shrinks ==
               /\ ElectionTypes' /\ revision' = revision /\ myRev' = myRev
               /\ \A j \in Instances : keyRev'[j] \in {keyRev[j], 0}
               /\ \A j \in Instances : leading'[j] => at'[j] = "leading"
               /\ \A j \in Instances : Live(j)' /\ at'[j] \in {"campaign", "elected", "leading"} =>
                     /\ Live(j) /\ keyRev'[j] = keyRev[j]
                     /\ at[j] \in {"campaign", "elected", "leading"}
                     /\ at'[j] \in {"elected", "leading"} =>
                           at[j] \in {"elected", "leading"} \/ Oldest(myRev[j])
  <2> USE DEF WinnerHasKey, Live
  <2>1. ASSUME RunStops(i) PROVE Shrinks
    BY <2>1 DEF RunStops
  <2>2. ASSUME Wins(i) PROVE Shrinks
    BY <2>2 DEF Wins
  <2>3. ASSUME CampaignFails(i) PROVE Shrinks
    BY <2>3 DEF CampaignFails
  <2>4. ASSUME Lead(i) PROVE Shrinks
    BY <2>4 DEF Lead
  <2>5. ASSUME SessionLost(i) PROVE Shrinks
    BY <2>5 DEF SessionLost
  <2>6. ASSUME Renew(i) PROVE Shrinks
    BY <2>6 DEF Renew
  <2>7. ASSUME StopAsked(i) PROVE Shrinks
    BY <2>7 DEF StopAsked
  <2>8. ASSUME Resign(i) PROVE Shrinks
    BY <2>8 DEF Resign
  <2>9. ASSUME CloseSession(i) PROVE Shrinks
    BY <2>9 DEF CloseSession
  <2>10. ASSUME ReadLeaderCh(i) PROVE Shrinks
    BY <2>10 DEF ReadLeaderCh
  <2>11. ASSUME LeaseExpires(i) PROVE Shrinks
    BY <2>11 DEF LeaseExpires
  <2>12. ASSUME SessionDone(i) PROVE Shrinks
    BY <2>12 DEF SessionDone
  <2> HIDE DEF ElectionInv, ElectionTypes, WinnerHasKey, Live
  <2>13. Shrinks
    BY <1>3, <2>1, <2>2, <2>3, <2>4, <2>5, <2>6, <2>7, <2>8, <2>9, <2>10, <2>11, <2>12 DEF StopStep
  <2> QED
    BY <2>13, ElectionShrinks
<1> QED
  BY <1>1, <1>2, <1>3 DEF ElectionNext, Run

\* There is one leader at most among the instances that have their lease and were
\* not told to stop, and it owns the oldest key.
THEOREM ElectionOneLeader == ElectionSpec => []OneLeader
<1>1. ElectionInit => ElectionInv
  BY DEF ElectionInit, ElectionInv, ElectionTypes, KeysOrdered, WinnerHasKey
<1>2. ElectionInv => OneLeader
  <2> SUFFICES ASSUME ElectionInv, NEW i \in Instances, leading[i] /\ lease[i] /\ stop[i] = "no"
               PROVE  /\ keyRev[i] # 0 /\ Oldest(keyRev[i])
                      /\ \A j \in Instances \ {i} : ~ (leading[j] /\ lease[j] /\ stop[j] = "no")
    BY DEF OneLeader
  <2>1. ASSUME NEW j \in Instances, leading[j] /\ lease[j] /\ stop[j] = "no"
        PROVE  keyRev[j] # 0 /\ \A k \in Instances : keyRev[k] # 0 => keyRev[k] >= keyRev[j]
    BY <2>1 DEF ElectionInv, WinnerHasKey, Live
  <2>2. keyRev[i] # 0 /\ Oldest(keyRev[i])
    BY <2>1 DEF Oldest, Keys
  <2>3. ASSUME NEW j \in Instances, leading[j] /\ lease[j] /\ stop[j] = "no" PROVE j = i
    <3>1. keyRev[i] = keyRev[j] /\ keyRev[i] # 0
      BY <2>1, <2>3 DEF ElectionInv, ElectionTypes
    <3> QED
      BY <3>1 DEF ElectionInv, KeysOrdered
  <2> QED
    BY <2>2, <2>3
<1> QED
  BY <1>1, <1>2, ElectionStep, PTL DEF ElectionSpec

-----------------------------------------------------------------------------
(* The node executor *)

ExecutorTypes ==
    /\ creations \in [CreateCalls -> [at : {"out", "admitted", "bundle", "spec", "success", "failure"},
                                      id : Containers \cup {NoCreator}]]
    /\ stops \in [Stoppers -> [at : {"out", "term", "kill", "delete"}, id : Containers \cup {NoCreator}]]
    /\ bundle \in [Containers -> {"none", "empty", "config"}]
    /\ specOf \in [Containers -> CreateCalls \cup {NoCreator}]
    /\ container \in [Containers -> {"none", "created", "running", "paused", "stopped"}]
    /\ madeFrom \in [Containers -> CreateCalls \cup {NoCreator}]
    /\ \A c \in CreateCalls : creations[c].at # "out" => creations[c].id \in Containers
    /\ \A s \in Stoppers : stops[s].at # "out" => stops[s].id \in Containers

\* A call past "runc spec" owns the config.json of its bundle, and the container that
\* was made of it.
OwnsSpec ==
    \A c \in CreateCalls :
        /\ creations[c].at \in {"spec", "success"} =>
              bundle[creations[c].id] = "config" /\ specOf[creations[c].id] = c
        /\ creations[c].at = "success" /\ container[creations[c].id] # "none"
              => madeFrom[creations[c].id] = c

ExecutorInv == ExecutorTypes /\ OwnsSpec /\ OpsExact /\ IsFiniteSet(activeOps)

\* A step that neither admits nor ends a call leaves the table exact.
LEMMA OpsKept ==
    ASSUME ExecutorInv, activeOps' = activeOps,
           \A c \in CreateCalls : creations'[c].at = "out" <=> creations[c].at = "out"
    PROVE  OpsExact' /\ IsFiniteSet(activeOps')
BY DEF ExecutorInv, OpsExact

\* So does one that makes no container, moves no call and changes no bundle.
LEMMA ContainerTurns ==
    ASSUME ExecutorInv, ExecutorTypes', creations' = creations, activeOps' = activeOps,
           bundle' = bundle, specOf' = specOf, madeFrom' = madeFrom,
           \A i \in Containers : container'[i] # "none" => container[i] # "none"
    PROVE  ExecutorInv'
<1>1. OpsExact' /\ IsFiniteSet(activeOps')
  BY OpsKept
<1>2. OwnsSpec'
  BY DEF ExecutorInv, OwnsSpec, ExecutorTypes
<1> QED
  BY <1>1, <1>2 DEF ExecutorInv

\* The steps of CreateSandbox once it has its place.
LEMMA CreateStep ==
    ASSUME ExecutorAssumption, ExecutorInv, NEW c \in CreateCalls, Creates(c)
    PROVE  ExecutorInv'
<1>1. CASE MakeBundle(c)
  <2>1. ExecutorTypes'
    BY <1>1 DEF MakeBundle, CreatorAt, ExecutorInv, ExecutorTypes
  <2>2. OwnsSpec'
    BY <1>1 DEF MakeBundle, CreatorAt, ExecutorInv, ExecutorTypes, OwnsSpec
  <2>3. OpsExact' /\ IsFiniteSet(activeOps')
    <3>1. \A d \in CreateCalls : creations'[d].at = "out" <=> creations[d].at = "out"
      BY <1>1 DEF MakeBundle, CreatorAt, ExecutorInv, ExecutorTypes
    <3> QED
      BY <1>1, <3>1, OpsKept DEF MakeBundle
  <2> QED
    BY <2>1, <2>2, <2>3 DEF ExecutorInv
<1>2. CASE generateOCISpec(c)
  <2>1. ExecutorTypes'
    BY <1>2 DEF generateOCISpec, CreatorAt, ExecutorInv, ExecutorTypes
  <2>2. OwnsSpec'
    BY <1>2 DEF generateOCISpec, CreatorAt, ExecutorInv, ExecutorTypes, OwnsSpec
  <2>3. OpsExact' /\ IsFiniteSet(activeOps')
    <3>1. \A d \in CreateCalls : creations'[d].at = "out" <=> creations[d].at = "out"
      BY <1>2 DEF generateOCISpec, CreatorAt, ExecutorInv, ExecutorTypes
    <3> QED
      BY <1>2, <3>1, OpsKept DEF generateOCISpec
  <2> QED
    BY <2>1, <2>2, <2>3 DEF ExecutorInv
<1>3. CASE RuntimeCreates(c)
  <2>1. ExecutorTypes'
    BY <1>3 DEF RuntimeCreates, CreatorAt, ExecutorInv, ExecutorTypes
  <2>2. OwnsSpec'
    BY <1>3 DEF RuntimeCreates, CreatorAt, ExecutorInv, ExecutorTypes, OwnsSpec
  <2>3. OpsExact' /\ IsFiniteSet(activeOps')
    <3>1. \A d \in CreateCalls : creations'[d].at = "out" <=> creations[d].at = "out"
      BY <1>3 DEF RuntimeCreates, CreatorAt, ExecutorInv, ExecutorTypes
    <3> QED
      BY <1>3, <3>1, OpsKept DEF RuntimeCreates
  <2> QED
    BY <2>1, <2>2, <2>3 DEF ExecutorInv
<1>4. CASE CreationFails(c)
  <2>1. ExecutorTypes'
    BY <1>4 DEF CreationFails, CreatorAt, ExecutorInv, ExecutorTypes
  <2>2. OwnsSpec'
    BY <1>4 DEF CreationFails, CreatorAt, ExecutorInv, ExecutorTypes, OwnsSpec
  <2>3. OpsExact' /\ IsFiniteSet(activeOps')
    <3>1. \A d \in CreateCalls : creations'[d].at = "out" <=> creations[d].at = "out"
      BY <1>4 DEF CreationFails, CreatorAt, ExecutorInv, ExecutorTypes
    <3> QED
      BY <1>4, <3>1, OpsKept DEF CreationFails
  <2> QED
    BY <2>1, <2>2, <2>3 DEF ExecutorInv
<1>5. CASE CreateReturns(c)
  <2>1. ExecutorTypes'
    BY <1>5 DEF CreateReturns, NoCall, ExecutorInv, ExecutorTypes
  <2>2. OwnsSpec'
    BY <1>5 DEF CreateReturns, NoCall, ExecutorInv, ExecutorTypes, OwnsSpec
  <2>3. activeOps' = {d \in CreateCalls : creations'[d].at # "out"}
    BY <1>5 DEF CreateReturns, NoCall, ExecutorInv, ExecutorTypes, OpsExact
  <2>4. IsFiniteSet(activeOps') /\ Cardinality(activeOps') <= Cardinality(activeOps)
    BY <1>5, FS_Subset DEF CreateReturns, ExecutorInv
  <2>5. Cardinality(activeOps') <= maxConcurrentOps
    BY <2>4, FS_CardinalityType DEF ExecutorInv, OpsExact, ExecutorAssumption
  <2> QED
    BY <2>1, <2>2, <2>3, <2>4, <2>5 DEF ExecutorInv, OpsExact
<1> QED
  BY <1>1, <1>2, <1>3, <1>4, <1>5 DEF Creates

\* A call that is admitted takes a free place in the table.
LEMMA AdmitStep ==
    ASSUME ExecutorAssumption, ExecutorInv, NEW c \in CreateCalls, NEW i \in Containers, CreateAdmitted(c, i)
    PROVE  ExecutorInv'
<1>1. ExecutorTypes'
  BY DEF CreateAdmitted, ExecutorInv, ExecutorTypes
<1>2. OwnsSpec'
  BY DEF CreateAdmitted, ExecutorInv, ExecutorTypes, OwnsSpec
<1>3. activeOps' = {d \in CreateCalls : creations'[d].at # "out"} /\ c \notin activeOps
  BY DEF CreateAdmitted, ExecutorInv, ExecutorTypes, OpsExact
<1>4. IsFiniteSet(activeOps') /\ Cardinality(activeOps') = Cardinality(activeOps) + 1
  BY <1>3, FS_AddElement DEF CreateAdmitted, ExecutorInv
<1>5. Cardinality(activeOps') <= maxConcurrentOps
  BY <1>4, FS_CardinalityType DEF CreateAdmitted, ExecutorInv, ExecutorAssumption
<1> QED
  BY <1>1, <1>2, <1>3, <1>4, <1>5 DEF ExecutorInv, OpsExact

\* Every step of the executor keeps the invariant.
LEMMA ExecutorStep ==
    ASSUME ExecutorAssumption, ExecutorInv, [ExecutorNext]_executorVars
    PROVE  ExecutorInv'
<1>1. ASSUME NEW i \in Containers, StartSandbox(i) \/ PauseSandbox(i) \/ ResumeSandbox(i) \/ Exits(i)
      PROVE  ExecutorInv'
  <2>1. ExecutorTypes' /\ \A j \in Containers : container'[j] # "none" => container[j] # "none"
    BY <1>1 DEF StartSandbox, PauseSandbox, ResumeSandbox, Exits, Turns, ExecutorInv, ExecutorTypes
  <2>2. /\ creations' = creations /\ activeOps' = activeOps
        /\ bundle' = bundle /\ specOf' = specOf /\ madeFrom' = madeFrom
    BY <1>1 DEF StartSandbox, PauseSandbox, ResumeSandbox, Exits, Turns
  <2> QED
    BY <2>1, <2>2, ContainerTurns
<1>2. ASSUME NEW s \in Stoppers, (\E i \in Containers : StopSandbox(s, i)) \/ Signal(s) \/ DeleteContainer(s)
      PROVE  ExecutorInv'
  <2>1. ExecutorTypes'
    <3>1. CASE \E i \in Containers : StopSandbox(s, i)
      BY <3>1 DEF StopSandbox, ExecutorInv, ExecutorTypes
    <3>2. CASE Signal(s)
      BY <3>2 DEF Signal, ExecutorInv, ExecutorTypes
    <3>3. CASE DeleteContainer(s)
      BY <3>3 DEF DeleteContainer, NoCall, ExecutorInv, ExecutorTypes
    <3> QED
      BY <1>2, <3>1, <3>2, <3>3
  <2>2. /\ creations' = creations /\ activeOps' = activeOps
        /\ bundle' = bundle /\ specOf' = specOf /\ madeFrom' = madeFrom
    BY <1>2 DEF StopSandbox, Signal, DeleteContainer
  <2>3. \A j \in Containers : container'[j] # "none" => container[j] # "none"
    BY <1>2 DEF StopSandbox, Signal, DeleteContainer, ExecutorInv, ExecutorTypes
  <2> QED
    BY <2>1, <2>2, <2>3, ContainerTurns
<1>3. ASSUME NEW i \in Containers, collect(i) PROVE ExecutorInv'
  <2>1. ExecutorTypes' /\ OwnsSpec'
    BY <1>3 DEF collect, ExecutorInv, ExecutorTypes, OwnsSpec
  <2>2. OpsExact' /\ IsFiniteSet(activeOps')
    BY <1>3, OpsKept DEF collect
  <2> QED
    BY <2>1, <2>2 DEF ExecutorInv
<1>4. CASE UNCHANGED executorVars
  BY <1>4 DEF executorVars, ExecutorInv, ExecutorTypes, OwnsSpec, OpsExact
<1> QED
  BY <1>1, <1>2, <1>3, <1>4, CreateStep, AdmitStep DEF ExecutorNext

\* A creation that succeeds has its container made from its own config.json, and the
\* table of operations is exact and within its limit, for any number of calls,
\* containers and stops.
THEOREM ExecutorAlwaysSafe == ExecutorSpec => []ExecutorSafe
<1>1. ExecutorInit => ExecutorInv
  <2> SUFFICES ASSUME ExecutorInit PROVE ExecutorInv
    OBVIOUS
  <2>1. ExecutorTypes /\ OwnsSpec
    BY DEF ExecutorInit, NoCall, ExecutorTypes, OwnsSpec
  <2>2. OpsExact /\ IsFiniteSet(activeOps)
    BY FS_EmptySet, ExecutorAssumption DEF ExecutorInit, NoCall, OpsExact, ExecutorAssumption
  <2> QED
    BY <2>1, <2>2 DEF ExecutorInv
<1>2. ExecutorInv => ExecutorSafe
  BY DEF ExecutorInv, OwnsSpec, ExecutorSafe, CreateExclusive
<1>3. ExecutorInv /\ [ExecutorNext]_executorVars => ExecutorInv'
  BY ExecutorStep, ExecutorAssumption
<1> QED
  BY <1>1, <1>2, <1>3, PTL DEF ExecutorSpec

-----------------------------------------------------------------------------
(* The controllers *)

\* A worker that holds no key.
Resting == {"idle", "ended"}

\* A worker that is past the cache.
Later == {"reconcile", "register", "start", "mark"}

\* The shape of a worker, whatever it is at.
IsWorker(x) == x \in [at : {x.at}, key : {x.key}, obj : {x.obj}, handle : {x.handle}]

\* A key in the queue is there once, is dirty and is with no worker.
QueueApart ==
    /\ queue \in Seq(EventKeys)
    /\ \A i, j \in 1 .. Len(queue) : queue[i] = queue[j] => i = j
    /\ \A i \in 1 .. Len(queue) : queue[i] \in dirty /\ queue[i] \notin processing

\* What holds of a worker: it has a key that is processed, and is beyond the cache with
\* the cache's own key only.
WorkerFor(x, p, hs) ==
    /\ IsWorker(x) /\ x.at \in Resting \cup Later \cup {"sync"}
    /\ x.at \notin Resting => x.key \in EventKeys /\ x.key \in p
    /\ x.at \in Later => x.key = CacheKey(x.key.of)
    /\ x.at \in {"start", "mark"} => hs[x.key.of] = x.handle

\* No two workers have the same key.
WorkersApart ==
    /\ worker = [w \in Workers |-> worker[w]] /\ handle = [o \in Objects |-> handle[o]]
    /\ \A w \in Workers : WorkerFor(worker[w], processing, handle)
    /\ \A w, x \in Workers : worker[w].at \notin Resting /\ worker[x].at \notin Resting
                                /\ worker[w].key = worker[x].key => w = x

\* The inductive invariant: a key is in the queue once, and with one worker.
ControllersInv == QueueApart /\ WorkersApart

\* A key of the queue is that of an object.
LEMMA KeyFacts == ASSUME NEW k \in EventKeys PROVE k.of \in Objects
  BY DEF EventKeys, EventKey, CacheKey

\* A worker that starts holds nothing.
LEMMA IdleWorker == IsWorker(Idle) /\ Idle.at = "idle"
  BY DEF IsWorker, Idle

\* A key that is added is not in the queue yet.
LEMMA AddInv ==
    ASSUME ControllersInv, NEW k \in EventKeys, Add(k), processing' = processing, worker' = worker, handle' = handle
    PROVE  ControllersInv'
<1>1. CASE queue' = queue /\ dirty \subseteq dirty'
  BY <1>1 DEF ControllersInv, QueueApart, WorkersApart
<1>2. CASE queue' = Append(queue, k) /\ dirty' = dirty \cup {k} /\ k \notin dirty /\ k \notin processing
  <2>1. /\ queue' \in Seq(EventKeys) /\ Len(queue') = Len(queue) + 1 /\ Len(queue) \in Nat
        /\ queue'[Len(queue) + 1] = k /\ \A i \in 1 .. Len(queue) : queue'[i] = queue[i]
    BY <1>2 DEF ControllersInv, QueueApart
  <2>2. QueueApart'
    BY <1>2, <2>1 DEF ControllersInv, QueueApart
  <2> QED
    BY <2>2 DEF ControllersInv, WorkersApart
<1> QED
  BY <1>1, <1>2 DEF Add

\* A step of a worker that ends with y, and leaves the runtimes of others alone.
LEMMA WorkerInv ==
    ASSUME WorkersApart, NEW w \in Workers, NEW y, WorkerFor(y, processing', handle'),
           worker' = [worker EXCEPT ![w] = y],
           y.at \in Resting \/ (worker[w].at \notin Resting /\ y.key = worker[w].key),
           \A x \in Workers \ {w} : worker[x].at \notin Resting => worker[x].key \in processing',
           handle' = handle \/ (worker[w].at \in Later /\ \E v : handle' = [handle EXCEPT ![worker[w].key.of] = v])
    PROVE  WorkersApart'
<1>1. worker' = [x \in Workers |-> worker'[x]] /\ worker'[w] = y /\ \A x \in Workers : x # w => worker'[x] = worker[x]
  BY DEF WorkersApart
<1>2. handle' = [o \in Objects |-> handle'[o]]
  BY DEF WorkersApart
<1>3. ASSUME NEW x \in Workers, x # w PROVE WorkerFor(worker[x], processing', handle')
  <2>1. WorkerFor(worker[x], processing, handle)
    BY DEF WorkersApart
  <2>2. ASSUME worker[x].at \in {"start", "mark"} PROVE handle'[worker[x].key.of] = handle[worker[x].key.of]
    <3>1. CASE handle' = handle
      BY <3>1
    <3>2. CASE worker[w].at \in Later /\ \E v : handle' = [handle EXCEPT ![worker[w].key.of] = v]
      <4>1. worker[w].key = CacheKey(worker[w].key.of) /\ worker[w].at \notin Resting
        BY <3>2 DEF WorkersApart, WorkerFor, Later, Resting
      <4>2. worker[x].key = CacheKey(worker[x].key.of) /\ worker[x].at \notin Resting /\ worker[x].key \in EventKeys
        BY <2>1, <2>2 DEF WorkerFor, Later, Resting
      <4>3. worker[x].key.of # worker[w].key.of
        BY <1>3, <4>1, <4>2 DEF WorkersApart
      <4>4. worker[x].key.of \in Objects
        BY <4>2, KeyFacts
      <4> QED
        BY <3>2, <4>3, <4>4 DEF WorkersApart
    <3> QED
      BY <3>1, <3>2
  <2> QED
    BY <1>3, <2>1, <2>2 DEF WorkerFor
<1>4. \A x \in Workers : WorkerFor(worker'[x], processing', handle')
  BY <1>1, <1>3
<1>5. ASSUME NEW x \in Workers, NEW z \in Workers, worker'[x].at \notin Resting, worker'[z].at \notin Resting,
             worker'[x].key = worker'[z].key
      PROVE  x = z
  <2>1. CASE x # w /\ z # w
    BY <1>1, <1>5, <2>1 DEF WorkersApart
  <2>2. CASE x = w \/ z = w
    <3>1. worker[w].at \notin Resting /\ y.key = worker[w].key
      BY <1>1, <1>5, <2>2
    <3> QED
      BY <1>1, <1>5, <2>2, <3>1 DEF WorkersApart
  <2> QED
    BY <2>1, <2>2
<1> QED
  BY <1>1, <1>2, <1>4, <1>5 DEF WorkersApart

\* A worker is done with its key, which goes back to the queue if it was added since.
LEMMA DoneInv ==
    ASSUME ControllersInv, NEW w \in Workers, worker[w].at \notin Resting, Done(w), dirty' = dirty,
           handle' = handle \/ (worker[w].at \in Later /\ \E v : handle' = [handle EXCEPT ![worker[w].key.of] = v])
    PROVE  ControllersInv'
<1> DEFINE k == worker[w].key
<1>1. k \in EventKeys /\ k \in processing
  BY DEF ControllersInv, WorkersApart, WorkerFor
<1>2. processing' = processing \ {k} /\ worker' = [worker EXCEPT ![w] = Idle]
  BY DEF Done
<1>3. QueueApart'
  <2>1. CASE k \notin dirty
    <3>1. queue' = queue
      BY <2>1 DEF Done
    <3> QED
      BY <1>2, <3>1 DEF ControllersInv, QueueApart
  <2>2. CASE k \in dirty
    <3> HIDE DEF k
    <3>1. queue' = Append(queue, k)
      BY <2>2 DEF Done, k
    <3>2. /\ queue' \in Seq(EventKeys) /\ Len(queue') = Len(queue) + 1 /\ Len(queue) \in Nat
          /\ queue'[Len(queue) + 1] = k /\ \A i \in 1 .. Len(queue) : queue'[i] = queue[i]
      BY <1>1, <3>1 DEF ControllersInv, QueueApart
    <3>3. \A i \in 1 .. Len(queue) : queue[i] # k
      BY <1>1 DEF ControllersInv, QueueApart
    <3>4. \A i, j \in 1 .. Len(queue') : queue'[i] = queue'[j] => i = j
      BY <3>2, <3>3 DEF ControllersInv, QueueApart
    <3>5. \A i \in 1 .. Len(queue') : queue'[i] \in dirty' /\ queue'[i] \notin processing'
      BY <1>2, <2>2, <3>2 DEF ControllersInv, QueueApart
    <3> QED
      BY <3>2, <3>4, <3>5 DEF QueueApart
  <2> QED
    BY <2>1, <2>2
<1>4. WorkerFor(Idle, processing', handle')
  BY IdleWorker DEF WorkerFor, Resting, Later
<1>5. \A x \in Workers \ {w} : worker[x].at \notin Resting => worker[x].key \in processing'
  BY <1>2 DEF ControllersInv, WorkersApart, WorkerFor
<1>6. WorkersApart'
  BY <1>2, <1>4, <1>5, IdleWorker, WorkerInv DEF ControllersInv, Resting
<1> QED
  BY <1>3, <1>6 DEF ControllersInv

\* A worker goes on with the key it has.
LEMMA GoInv ==
    ASSUME ControllersInv, NEW w \in Workers, worker[w].at \notin Resting, NEW y, WorkerFor(y, processing, handle'),
           worker' = [worker EXCEPT ![w] = y], y.key = worker[w].key,
           queue' = queue, dirty' = dirty, processing' = processing,
           handle' = handle \/ (worker[w].at \in Later /\ \E v : handle' = [handle EXCEPT ![worker[w].key.of] = v])
    PROVE  ControllersInv'
<1>1. QueueApart'
  BY DEF ControllersInv, QueueApart
<1>2. \A x \in Workers \ {w} : worker[x].at \notin Resting => worker[x].key \in processing'
  BY DEF ControllersInv, WorkersApart, WorkerFor
<1>3. WorkersApart'
  BY <1>2, WorkerInv DEF ControllersInv
<1> QED
  BY <1>1, <1>3 DEF ControllersInv

\* Get hands out a key that no worker has.
LEMMA GetInv ==
    ASSUME ControllersInv, NEW w \in Workers, Get(w)
    PROVE  ControllersInv'
<1> DEFINE k == Head(queue)
           y == [Idle EXCEPT !.at = "sync", !.key = k]
<1>1. /\ queue \in Seq(EventKeys) /\ queue # <<>> /\ queue' = Tail(queue) /\ dirty' = dirty \ {k}
      /\ processing' = processing \cup {k} /\ worker' = [worker EXCEPT ![w] = y] /\ handle' = handle
      /\ worker[w].at = "idle"
  BY DEF Get, ControllersInv, QueueApart, resultVars
<1>2. /\ Len(queue) \in Nat \ {0} /\ k = queue[1] /\ k \in EventKeys
      /\ Tail(queue) \in Seq(EventKeys) /\ Len(Tail(queue)) = Len(queue) - 1
      /\ \A i \in 1 .. Len(Tail(queue)) : Tail(queue)[i] = queue[i + 1]
  BY <1>1, HeadTailProperties, EmptySeq
<1>3. IsWorker(y) /\ y.at = "sync" /\ y.key = k
  BY DEF Idle, IsWorker
<1> HIDE DEF k, y
<1>4. QueueApart'
  <2>1. /\ queue' \in Seq(EventKeys) /\ Len(queue') = Len(queue) - 1
        /\ \A i \in 1 .. Len(queue') : queue'[i] = queue[i + 1]
    BY <1>1, <1>2
  <2>2. ASSUME NEW i \in 1 .. Len(queue') PROVE queue'[i] \in dirty' /\ queue'[i] \notin processing'
    <3>1. i + 1 \in 1 .. Len(queue) /\ 1 \in 1 .. Len(queue) /\ i + 1 # 1
      BY <1>2, <2>1
    <3> QED
      BY <1>1, <1>2, <2>1, <3>1 DEF ControllersInv, QueueApart
  <2>3. ASSUME NEW i \in 1 .. Len(queue'), NEW j \in 1 .. Len(queue'), queue'[i] = queue'[j] PROVE i = j
    <3>1. i + 1 \in 1 .. Len(queue) /\ j + 1 \in 1 .. Len(queue) /\ i \in Nat /\ j \in Nat
      BY <1>2, <2>1
    <3>2. i + 1 = j + 1
      BY <2>1, <2>3, <3>1 DEF ControllersInv, QueueApart
    <3> QED
      BY <3>1, <3>2
  <2> QED
    BY <2>1, <2>2, <2>3 DEF QueueApart
<1>5. k \notin processing
  BY <1>2 DEF ControllersInv, QueueApart
<1>6. worker' = [x \in Workers |-> worker'[x]] /\ worker'[w] = y /\ \A x \in Workers : x # w => worker'[x] = worker[x]
  BY <1>1 DEF ControllersInv, WorkersApart
<1>7. WorkerFor(y, processing', handle')
  BY <1>1, <1>2, <1>3 DEF WorkerFor, Resting, Later
<1>8. ASSUME NEW x \in Workers, x # w PROVE WorkerFor(worker[x], processing', handle')
  BY <1>1, <1>8 DEF ControllersInv, WorkersApart, WorkerFor
<1>9. \A x \in Workers : worker[x].at \notin Resting => worker[x].key # k
  BY <1>5 DEF ControllersInv, WorkersApart, WorkerFor
<1>10. WorkersApart'
  <2>1. \A x \in Workers : WorkerFor(worker'[x], processing', handle')
    BY <1>6, <1>7, <1>8
  <2>2. \A x, z \in Workers : worker'[x].at \notin Resting /\ worker'[z].at \notin Resting
                                /\ worker'[x].key = worker'[z].key => x = z
    BY <1>3, <1>6, <1>9 DEF ControllersInv, WorkersApart
  <2> QED
    BY <1>1, <1>6, <2>1, <2>2 DEF ControllersInv, WorkersApart
<1> QED
  BY <1>4, <1>10 DEF ControllersInv

\* A worker that goes on to reconcile or beyond with the cache's key.
LEMMA GoesInv ==
    ASSUME ControllersInv, NEW w \in Workers, worker[w].at \notin Resting, NEW p \in Later, NEW o, Goes(w, p, o),
           handle' = handle, worker[w].key = CacheKey(worker[w].key.of),
           p \in {"start", "mark"} => handle[worker[w].key.of] = worker[w].handle
    PROVE  ControllersInv'
<1> DEFINE y == [worker[w] EXCEPT !.at = p, !.obj = o]
<1>1. WorkerFor(worker[w], processing, handle) /\ IsWorker(worker[w])
  BY DEF ControllersInv, WorkersApart, WorkerFor
<1>2. IsWorker(y) /\ y.at = p /\ y.key = worker[w].key /\ y.handle = worker[w].handle
  BY <1>1 DEF IsWorker
<1>3. worker' = [worker EXCEPT ![w] = y]
  BY DEF Goes
<1>4. queue' = queue /\ dirty' = dirty /\ processing' = processing
  BY DEF Goes, wqVars
<1> HIDE DEF y
<1>5. WorkerFor(y, processing, handle')
  BY <1>1, <1>2 DEF WorkerFor, Later
<1> QED
  BY <1>2, <1>3, <1>4, <1>5, GoInv

\* The steps of a worker.
LEMMA WorkInv ==
    ASSUME ControllersInv, NEW w \in Workers, Work(w)
    PROVE  ControllersInv'
<1>1. WorkerFor(worker[w], processing, handle) /\ IsWorker(worker[w])
  BY DEF ControllersInv, WorkersApart, WorkerFor
<1>2. ASSUME worker[w].at \in Later PROVE worker[w].at \notin Resting /\ worker[w].key = CacheKey(worker[w].key.of)
  BY <1>1, <1>2 DEF WorkerFor, Later, Resting
<1>3. ASSUME worker[w].at \in Later \cup {"sync"}, Succeeds(w) \/ Fails(w),
             handle' = handle \/ (worker[w].at \in Later /\ \E v : handle' = [handle EXCEPT ![worker[w].key.of] = v])
      PROVE  ControllersInv'
  BY <1>3, DoneInv DEF Succeeds, Fails, Later, Resting
<1>4. CASE Get(w)
  BY <1>4, GetInv
<1>5. CASE Quit(w)
  <2> DEFINE y == [worker[w] EXCEPT !.at = "ended"]
  <2>1. IsWorker(y) /\ y.at = "ended"
    BY <1>1 DEF IsWorker
  <2>2. /\ worker' = [worker EXCEPT ![w] = y] /\ handle' = handle
        /\ queue' = queue /\ dirty' = dirty /\ processing' = processing
    BY <1>5 DEF Quit, wqVars, resultVars
  <2> HIDE DEF y
  <2>3. WorkerFor(y, processing', handle')
    BY <2>1 DEF WorkerFor, Resting, Later
  <2>4. \A x \in Workers \ {w} : worker[x].at \notin Resting => worker[x].key \in processing'
    BY <2>2 DEF ControllersInv, WorkersApart, WorkerFor
  <2>5. WorkersApart'
    BY <2>1, <2>2, <2>3, <2>4, WorkerInv DEF ControllersInv, Resting
  <2> QED
    BY <2>2, <2>5 DEF ControllersInv, QueueApart
<1>6. CASE sync(w)
  <2>1. worker[w].at = "sync" /\ handle' = handle
    BY <1>6 DEF sync
  <2>2. CASE Succeeds(w)
    BY <1>3, <2>1, <2>2
  <2>3. CASE worker[w].key = CacheKey(worker[w].key.of) /\ \E o : Goes(w, "reconcile", o)
    <3>1. PICK o : Goes(w, "reconcile", o)
      BY <2>3
    <3> QED
      BY <2>1, <2>3, <3>1, GoesInv DEF Later, Resting
  <2> QED
    BY <1>6, <2>2, <2>3 DEF sync
<1>7. CASE reconcileQuota(w)
  BY <1>3, <1>7 DEF reconcileQuota, Later
<1>8. CASE reconcileTenant(w)
  <2>1. worker[w].at = "reconcile" /\ handle' = handle
    BY <1>8 DEF reconcileTenant
  <2>2. Succeeds(w) \/ Fails(w) \/ Goes(w, "register", worker[w].obj)
    BY <1>8 DEF reconcileTenant
  <2>3. CASE Goes(w, "register", worker[w].obj)
    BY <1>2, <2>1, <2>3, GoesInv DEF Later
  <2> QED
    BY <1>3, <2>1, <2>2, <2>3 DEF Later
<1>9. CASE RegisterTenant(w)
  BY <1>3, <1>9 DEF RegisterTenant, Later
<1>10. CASE reconcileSandbox(w)
  <2>1. worker[w].at = "reconcile" /\ (Succeeds(w) \/ Fails(w))
        /\ (handle' = handle \/ handle' = [handle EXCEPT ![worker[w].key.of] = 0])
    BY <1>10 DEF reconcileSandbox
  <2> QED
    BY <1>3, <2>1 DEF Later
<1>11. CASE reconcileCreatingSandbox(w)
  <2> DEFINE s == worker[w].key.of
             y == [worker[w] EXCEPT !.at = "start", !.handle = FreshHandle]
  <2>1. CASE /\ worker[w].at = "reconcile" /\ handle' = [handle EXCEPT ![s] = FreshHandle]
             /\ worker' = [worker EXCEPT ![w] = y]
             /\ queue' = queue /\ dirty' = dirty /\ processing' = processing
    <3>1. IsWorker(y) /\ y.at = "start" /\ y.key = worker[w].key /\ y.handle = FreshHandle
      BY <1>1 DEF IsWorker
    <3>2. worker[w].at \in Later /\ worker[w].at \notin Resting /\ worker[w].key = CacheKey(s) /\ worker[w].key \in EventKeys
      BY <1>1, <2>1 DEF WorkerFor, Later, Resting
    <3>3. s \in Objects
      BY <3>2, KeyFacts
    <3>4. handle'[s] = FreshHandle
      BY <2>1, <3>3 DEF ControllersInv, WorkersApart
    <3> HIDE DEF y
    <3>5. WorkerFor(y, processing, handle')
      BY <1>1, <3>1, <3>2, <3>4 DEF WorkerFor, Resting, Later
    <3> QED
      BY <2>1, <3>1, <3>2, <3>5, GoInv
  <2>2. CASE /\ worker[w].at \in {"start", "mark", "reconcile"} /\ handle' = handle
             /\ Succeeds(w) \/ Fails(w)
    BY <1>3, <2>2 DEF Later
  <2>3. CASE worker[w].at = "start" /\ Goes(w, "mark", worker[w].obj) /\ handle' = handle
    <3>1. handle[s] = worker[w].handle
      BY <1>1, <2>3 DEF WorkerFor
    <3> QED
      BY <1>2, <2>3, <3>1, GoesInv DEF Later
  <2> QED
    BY <1>11, <2>1, <2>2, <2>3 DEF reconcileCreatingSandbox, wqVars
<1> QED
  BY <1>4, <1>5, <1>6, <1>7, <1>8, <1>9, <1>10, <1>11 DEF Work

\* For any objects, workers and limits: the handle with which a sandbox is marked running
\* is the one the runtime manager has for it.
THEOREM MarkedAlwaysCurrent == ControllersSpec => []MarkedIsCurrent
<1>1. ControllersInit => ControllersInv
  <2> SUFFICES ASSUME ControllersInit PROVE ControllersInv
    OBVIOUS
  <2>1. QueueApart
    BY DEF ControllersInit, QueueApart
  <2>2. /\ worker = [w \in Workers |-> Idle] /\ handle = [o \in Objects |-> 0]
    BY DEF ControllersInit
  <2>3. WorkerFor(Idle, processing, handle)
    BY IdleWorker DEF WorkerFor, Resting, Later
  <2>4. WorkersApart
    BY <2>2, <2>3, IdleWorker DEF WorkersApart, Resting
  <2> QED
    BY <2>1, <2>4 DEF ControllersInv
<1>2. ControllersInv => MarkedIsCurrent
  BY DEF ControllersInv, WorkersApart, WorkerFor, MarkedIsCurrent
<1>3. ControllersInv /\ [ControllersNext]_controllerVars => ControllersInv'
  <2> SUFFICES ASSUME ControllersInv, [ControllersNext]_controllerVars PROVE ControllersInv'
    OBVIOUS
  <2>1. ASSUME queue' = queue, dirty' = dirty, processing' = processing, worker' = worker, handle' = handle
        PROVE  ControllersInv'
    BY <2>1 DEF ControllersInv, QueueApart, WorkersApart
  <2>2. CASE UNCHANGED controllerVars
    BY <2>1, <2>2 DEF controllerVars, wqVars, resultVars
  <2>3. CASE StopQueue
    BY <2>1, <2>3 DEF StopQueue, resultVars
  <2>4. ASSUME NEW o \in Objects, ObjectChanges(o) \/ ObjectDeleted(o) PROVE ControllersInv'
    BY <2>1, <2>4 DEF ObjectChanges, ObjectDeleted, wqVars
  <2>5. ASSUME NEW k \in EventKeys, onEvent(k) \/ DelayEnds(k) PROVE ControllersInv'
    BY <2>5, AddInv DEF onEvent, DelayEnds, resultVars
  <2> QED
    BY <2>2, <2>3, <2>4, <2>5, WorkInv DEF ControllersNext
<1> QED
  BY <1>1, <1>2, <1>3, PTL DEF ControllersSpec

-----------------------------------------------------------------------------
(* Hot reload *)

\* Configurations are numbered by the save that wrote them; the file holds the
\* last one, or there is none.
ReloadTypes ==
    /\ saved \in Nat /\ disk \in {0, saved} /\ cfg \in Nat
    /\ applied \in [Reloaders -> Nat] /\ refused \in [Reloaders -> Nat]
    /\ poll \in {"none", "select", "read", "reload", "over"}
    /\ starting \in {"no", "locked", "returned"} /\ stopping \in {"no", "waiting", "returned"}

\* A goroutine polls only after Start has returned, and ends only after Stop was called.
PollStarted ==
    /\ starting # "returned" => poll = "none"
    /\ poll = "over" => stopping # "no"
    /\ stopping # "no" /\ inTime => starting # "locked"

\* What a tick is about to apply parses, is no newer than the last version that was
\* saved, and no older than what any reloader has.
ReadsForward ==
    /\ \A r \in Reloaders : applied[r] <= saved
    /\ poll = "reload" => cfg <= saved /\ cfg \notin BadConfigs /\ \A r \in Reloaders : applied[r] <= cfg

\* The inductive invariant: nothing polls before Start or after Stop has
\* waited, and what a tick is about to apply is not older than what was applied.
ReloadInv == ReloadTypes /\ PollStarted /\ ReadsForward /\ StoppedQuiet

\* A step of the reloader applies no older configuration and none that does not validate.
NotBackwards ==
    \A r \in Reloaders : applied'[r] >= applied[r] /\ (applied'[r] # applied[r] => applied'[r] \notin BadConfigs)

\* Every step of the loops and of the editor keeps the invariant and moves forward.
LEMMA ReloadStep ==
    ASSUME ReloadInv, [ReloadNext]_reloadVars
    PROVE  ReloadInv' /\ (UNCHANGED reloadVars \/ NotBackwards)
<1> USE DEF ReloadInv, ReloadTypes, PollStarted, ReadsForward, StoppedQuiet, NotBackwards
<1>1. CASE StartLocked
  BY <1>1 DEF StartLocked
<1>2. CASE StartReturns
  BY <1>2 DEF StartReturns
<1>3. CASE StopWatcher
  <2>1. inTime' => starting # "locked"
    BY <1>3 DEF StopWatcher
  <2> QED
    BY <1>3, <2>1 DEF StopWatcher
<1>4. CASE WaitReturns
  BY <1>4 DEF WaitReturns
<1>5. CASE PollEnds
  BY <1>5 DEF PollEnds
<1>6. CASE Tick
  BY <1>6 DEF Tick
<1>7. CASE ReadConfig
  BY <1>7 DEF ReadConfig
<1>8. CASE ReadFails
  BY <1>8 DEF ReadFails
<1>9. CASE TickEnds
  BY <1>9 DEF TickEnds
<1>10. ASSUME NEW r \in Reloaders, NEW ok \in BOOLEAN, Reload(r, ok)
       PROVE  ReloadInv' /\ NotBackwards
  <2>1. CASE ok
    BY <1>10, <2>1 DEF Reload
  <2>2. CASE ~ ok
    BY <1>10, <2>2 DEF Reload
  <2> QED
    BY <2>1, <2>2
<1>11. CASE SaveJSON
  BY <1>11 DEF SaveJSON
<1>12. CASE RemoveConfig
  BY <1>12 DEF RemoveConfig
<1>13. CASE UNCHANGED reloadVars
  BY <1>13 DEF reloadVars
<1> QED
  BY <1>1, <1>2, <1>3, <1>4, <1>5, <1>6, <1>7, <1>8, <1>9, <1>10, <1>11, <1>12, <1>13 DEF ReloadNext, Poll

\* Nothing is read or applied before Start.
LEMMA ReloadStart == ReloadInit => ReloadInv
  BY DEF ReloadInit, ReloadInv, ReloadTypes, PollStarted, ReadsForward, StoppedQuiet

\* Stop waits for a goroutine that was started: none of them calls a reloader after it.
THEOREM ReloadStopsQuiet == ReloadSpec => []StoppedQuiet
<1>1. ReloadInv => StoppedQuiet
  BY DEF ReloadInv
<1>2. ReloadInv /\ [ReloadNext]_reloadVars => ReloadInv'
  BY ReloadStep
<1> QED
  BY <1>1, <1>2, ReloadStart, PTL DEF ReloadSpec

\* No reloader ever goes back to an older configuration or takes one that does not parse.
THEOREM ReloadNeverOlder == ReloadSpec => NeverOlder
<1>1. ReloadInv /\ [ReloadNext]_reloadVars => ReloadInv' /\ [NotBackwards]_reloadVars
  BY ReloadStep
<1> QED
  BY <1>1, ReloadStart, PTL DEF ReloadSpec, NeverOlder, NotBackwards

-----------------------------------------------------------------------------
(* Tenant isolation *)

\* The sections of the calls that assign or release a node.
NodeSections == {"assign", "assignPolicy", "release", "releasePolicy"}

\* The sections reached with the lock of the node enforcer.
HoldsNode == {"assignPolicy", "releasePolicy"}

\* The sections reached with the lock of the isolation enforcer.
HoldsIe == {"registerNet", "unregisterNet", "unregisterNodes"}

\* The sections of an unregistration after the policy is gone.
Unregisters == {"unregisterNet", "unregisterNodes"}

\* A call under way has a tenant, and a node if it is about one.
IsCall(x) ==
    /\ "at" \in DOMAIN x
    /\ x.at # "out" => "t" \in DOMAIN x /\ x.t \in Tenants
    /\ x.at \in NodeSections => "n" \in DOMAIN x /\ x.n \in IsolationNodes

\* What a caller in the middle of a call relies on: it has the lock of the
\* section before, so nobody has changed what it saw or did there.
CallHolds(x, c, w, no, iso) ==
    /\ IsCall(x)
    /\ x.at \in HoldsNode => w["node"] = c
    /\ x.at \in HoldsIe => w["ie"] = c
    /\ x.at = "assignPolicy" => no[x.n] = x.t
    /\ x.at \in Unregisters => iso[x.t].dedicated = {}

\* Every call has the locks and the argument of its section.
CallsHold == \A c \in Callers : CallHolds(enforcing[c], c, writer, nodeOf, isolation)

\* The shape of a tenant's policy.
IsPolicy(p) == p \in [level : {p.level}, network : {p.network}, inter : {p.inter}, dedicated : SUBSET IsolationNodes]

\* A node more leaves a policy a policy.
LEMMA PolicyNames ==
    ASSUME NEW p, IsPolicy(p), NEW n \in IsolationNodes
    PROVE  /\ IsPolicy([p EXCEPT !.dedicated = @ \cup {n}])
           /\ [p EXCEPT !.dedicated = @ \cup {n}].dedicated = p.dedicated \cup {n}
BY DEF IsPolicy

\* The policies, the two maps of nodes and the locks.
EnforcerTypes ==
    /\ isolation = [t \in Tenants |-> isolation[t]] /\ \A t \in Tenants : IsPolicy(isolation[t])
    /\ nodeOf \in [IsolationNodes -> Tenants \cup {NoTenant}]
    /\ nodesOf = [t \in Tenants |-> nodesOf[t]]
    /\ writer \in [Locks -> Callers \cup {NoCaller}]
    /\ enforcing = [c \in Callers |-> enforcing[c]]

\* The list of a tenant's nodes is the inverse of the map from nodes.
NodesListed == \A t \in Tenants : nodesOf[t] = {n \in IsolationNodes : nodeOf[n] = t}

\* A policy names the nodes of the tenant, but for one that is just being released.
DedicatedHeld ==
    \A t \in Tenants : \A n \in isolation[t].dedicated :
        \/ nodeOf[n] = t
        \/ nodeOf[n] = NoTenant /\ \E c \in Callers : enforcing[c].at = "releasePolicy" /\ enforcing[c].t = t /\ enforcing[c].n = n

\* A node that t's policy names is t's, or is just being released by the call y.
NamedNode(n, t, no, y) == no[n] = t \/ (no[n] = NoTenant /\ y.at = "releasePolicy" /\ y.t = t /\ y.n = n)

\* The inductive invariant: it says which caller may stand between two
\* assignments of one change.
EnforcerInv == EnforcerTypes /\ CallsHold /\ NodesListed /\ DedicatedHeld

\* A call that goes on to its next section keeps its shape.
LEMMA CallMoves ==
    ASSUME NEW x, IsCall(x), x.at # "out", NEW s, s # "out", s \in NodeSections => x.at \in NodeSections
    PROVE  LET y == [x EXCEPT !.at = s] IN IsCall(y) /\ y.at = s /\ y.t = x.t /\ (x.at \in NodeSections => y.n = x.n)
  BY DEF IsCall

\* A call that has returned holds no lock and no argument.
LEMMA ReturnedCall == ASSUME NEW c, NEW w, NEW no, NEW iso PROVE CallHolds(Returned, c, w, no, iso) /\ Returned.at = "out"
  BY DEF CallHolds, Returned, IsCall, HoldsNode, HoldsIe, Unregisters, NodeSections

\* Unlocking gives up the locks named and no other.
LEMMA UnlockedFacts ==
    ASSUME writer \in [Locks -> Callers \cup {NoCaller}], NEW ls
    PROVE  /\ Unlocked(ls) \in [Locks -> Callers \cup {NoCaller}]
           /\ \A l \in Locks : Unlocked(ls)[l] = IF l \in ls THEN NoCaller ELSE writer[l]
  BY DEF Unlocked

\* One caller goes on to y; the others still have what they rely on.
LEMMA CallerGoesOn ==
    ASSUME EnforcerInv, NEW c \in Callers, NEW y, enforcing' = [enforcing EXCEPT ![c] = y],
           CallHolds(y, c, writer', nodeOf', isolation'),
           isolation' = [t \in Tenants |-> isolation'[t]], \A t \in Tenants : IsPolicy(isolation'[t]),
           nodeOf' \in [IsolationNodes -> Tenants \cup {NoTenant}],
           nodesOf' = [t \in Tenants |-> nodesOf'[t]],
           writer' \in [Locks -> Callers \cup {NoCaller}],
           \A l \in Locks : writer[l] \in Callers /\ writer[l] # c => writer'[l] = writer[l],
           nodeOf' = nodeOf \/ writer["node"] = c,
           writer["ie"] = c \/ \A t \in Tenants : isolation'[t].dedicated = isolation[t].dedicated,
           NodesListed',
           \A t \in Tenants : \A n \in isolation'[t].dedicated :
              \/ NamedNode(n, t, nodeOf', y)
              \/ /\ n \in isolation[t].dedicated /\ nodeOf'[n] = nodeOf[n] /\ enforcing[c].at # "releasePolicy"
    PROVE  EnforcerInv'
<1>1. /\ enforcing' = [d \in Callers |-> enforcing'[d]] /\ enforcing'[c] = y
      /\ \A d \in Callers : d # c => enforcing'[d] = enforcing[d]
  BY DEF EnforcerInv, EnforcerTypes
<1>2. EnforcerTypes'
  BY <1>1 DEF EnforcerTypes
<1>3. CallsHold'
  <2>1. ASSUME NEW d \in Callers, d # c PROVE CallHolds(enforcing[d], d, writer', nodeOf', isolation')
    <3>1. CallHolds(enforcing[d], d, writer, nodeOf, isolation)
      BY DEF EnforcerInv, CallsHold
    <3>2. "node" \in Locks /\ "ie" \in Locks
      BY DEF Locks
    <3>3. PICK x : x = enforcing[d]
      OBVIOUS
    <3>4. IsCall(x) /\ (x.at \in HoldsNode => writer["node"] = d) /\ (x.at \in HoldsIe => writer["ie"] = d)
      BY <3>1, <3>3 DEF CallHolds
    <3>5. (x.at \in HoldsNode => writer'["node"] = d) /\ (x.at \in HoldsIe => writer'["ie"] = d)
      BY <2>1, <3>2, <3>4
    <3>6. x.at = "assignPolicy" => nodeOf'[x.n] = x.t
      BY <2>1, <3>1, <3>3, <3>4 DEF CallHolds, HoldsNode
    <3>7. x.at \in Unregisters => isolation'[x.t].dedicated = {}
      <4>1. x.at \in Unregisters => x.t \in Tenants /\ isolation[x.t].dedicated = {}
        BY <3>1, <3>3, <3>4 DEF CallHolds, IsCall, Unregisters
      <4>2. x.at \in Unregisters => writer["ie"] # c
        BY <2>1, <3>4 DEF HoldsIe, Unregisters
      <4> QED
        BY <4>1, <4>2
    <3> QED
      BY <3>3, <3>4, <3>5, <3>6, <3>7 DEF CallHolds
  <2> QED
    BY <1>1, <2>1 DEF CallsHold
<1>4. DedicatedHeld'
  BY <1>1 DEF EnforcerInv, DedicatedHeld, NamedNode
<1> QED
  BY <1>2, <1>3, <1>4 DEF EnforcerInv

\* The lock that each section writes under.
LEMMA WriteLocks ==
    /\ WriteLock["register"] = "ie" /\ WriteLock["registerNet"] = "net"
    /\ WriteLock["unregister"] = "ie" /\ WriteLock["unregisterNet"] = "net" /\ WriteLock["unregisterNodes"] = "node"
    /\ WriteLock["assign"] = "node" /\ WriteLock["assignPolicy"] = "ie"
    /\ WriteLock["release"] = "node" /\ WriteLock["releasePolicy"] = "ie"
  BY DEF WriteLock

\* A caller that holds no node goes on to a section that holds none, having changed no node.
LEMMA CallerGoesOnQuietly ==
    ASSUME EnforcerInv, NEW c \in Callers, NEW y, enforcing' = [enforcing EXCEPT ![c] = y],
           CallHolds(y, c, writer', nodeOf, isolation),
           isolation' = isolation, nodeOf' = nodeOf, nodesOf' = nodesOf,
           writer' \in [Locks -> Callers \cup {NoCaller}],
           \A l \in Locks : writer[l] \in Callers /\ writer[l] # c => writer'[l] = writer[l],
           enforcing[c].at # "releasePolicy"
    PROVE  EnforcerInv'
<1>1. /\ isolation' = [t \in Tenants |-> isolation'[t]] /\ \A t \in Tenants : IsPolicy(isolation'[t])
      /\ nodeOf' \in [IsolationNodes -> Tenants \cup {NoTenant}] /\ nodesOf' = [t \in Tenants |-> nodesOf'[t]]
      /\ NodesListed'
  BY DEF EnforcerInv, EnforcerTypes, NodesListed
<1>2. CallHolds(y, c, writer', nodeOf', isolation')
  OBVIOUS
<1>3. \A t \in Tenants : \A n \in isolation'[t].dedicated :
         n \in isolation[t].dedicated /\ nodeOf'[n] = nodeOf[n] /\ enforcing[c].at # "releasePolicy"
  OBVIOUS
<1>4. nodeOf' = nodeOf /\ \A t \in Tenants : isolation'[t].dedicated = isolation[t].dedicated
  OBVIOUS
<1> HIDE DEF EnforcerInv, CallHolds
<1> QED
  BY <1>1, <1>2, <1>3, <1>4, CallerGoesOn

\* A call begins.
LEMMA CallBegins ==
    ASSUME EnforcerInv, NEW c \in Callers, Call(c)
    PROVE  EnforcerInv'
<1>1. PICK y : enforcing' = [enforcing EXCEPT ![c] = y] /\ CallHolds(y, c, writer, nodeOf, isolation)
  <2>1. ASSUME NEW t \in Tenants, NEW s PROVE CallHolds([at |-> "register", t |-> t, spec |-> s], c, writer, nodeOf, isolation)
    BY DEF CallHolds, IsCall, HoldsNode, HoldsIe, Unregisters, NodeSections
  <2>2. ASSUME NEW t \in Tenants PROVE CallHolds([at |-> "unregister", t |-> t], c, writer, nodeOf, isolation)
    BY DEF CallHolds, IsCall, HoldsNode, HoldsIe, Unregisters, NodeSections
  <2>3. ASSUME NEW t \in Tenants, NEW u PROVE CallHolds([at |-> "talks", t |-> t, to |-> u], c, writer, nodeOf, isolation)
    BY DEF CallHolds, IsCall, HoldsNode, HoldsIe, Unregisters, NodeSections
  <2>4. ASSUME NEW t \in Tenants, NEW n \in IsolationNodes, NEW op \in {"assign", "release", "allowed", "validate"}
        PROVE  CallHolds([at |-> op, t |-> t, n |-> n], c, writer, nodeOf, isolation)
    BY DEF CallHolds, IsCall, HoldsNode, HoldsIe, Unregisters, NodeSections
  <2> QED
    BY <2>1, <2>2, <2>3, <2>4 DEF Call
<1>2. /\ enforcing[c].at = "out" /\ writer' = writer
      /\ isolation' = isolation /\ nodeOf' = nodeOf /\ nodesOf' = nodesOf
  BY DEF Call
<1> QED
  BY <1>1, <1>2, CallerGoesOnQuietly DEF EnforcerInv, EnforcerTypes

\* The sections of a caller that change no node and no policy.
LEMMA QuietSection ==
    ASSUME EnforcerInv, NEW c \in Callers,
           \/ Announce(c) \/ RegisterTenantNetwork(c) \/ UnregisterTenantNetwork(c)
           \/ IsNodeAllowed(c) \/ IsNodeAllowedAnswers(c)
           \/ IsNetworkCommunicationAllowed(c) \/ IsNetworkCommunicationAnswers(c)
           \/ ValidateSandboxPlacement(c) \/ ValidateLocksAgain(c) \/ ValidateNode(c) \/ ValidateAnswers(c)
    PROVE  EnforcerInv'
<1> DEFINE x == enforcing[c]
<1>a. CallHolds(x, c, writer, nodeOf, isolation) /\ IsCall(x) /\ writer \in [Locks -> Callers \cup {NoCaller}]
  BY DEF EnforcerInv, CallsHold, EnforcerTypes, CallHolds
<1>b. isolation' = isolation /\ nodeOf' = nodeOf /\ nodesOf' = nodesOf
  BY DEF Announce, RegisterTenantNetwork, UnregisterTenantNetwork, IsNodeAllowed, IsNodeAllowedAnswers,
         IsNetworkCommunicationAllowed, IsNetworkCommunicationAnswers, ValidateSandboxPlacement,
         ValidateLocksAgain, ValidateNode, ValidateAnswers
<1>1. CASE Announce(c)
  <2>1. writer' = [writer EXCEPT ![WriteLock[x.at]] = c] /\ writer[WriteLock[x.at]] = NoCaller /\ enforcing' = enforcing
    BY <1>1 DEF Announce
  <2>2. writer' \in [Locks -> Callers \cup {NoCaller}]
    BY <1>a, <2>1
  <2>3. \A l \in Locks : writer[l] \in Callers => writer'[l] = writer[l]
    BY <1>a, <2>1, IsolationAssumption
  <2>4. \A d \in Callers : CallHolds(enforcing[d], d, writer, nodeOf, isolation)
    BY DEF EnforcerInv, CallsHold
  <2>5. \A d \in Callers : CallHolds(enforcing[d], d, writer', nodeOf, isolation)
    BY <2>3, <2>4 DEF CallHolds, Locks, HoldsNode, HoldsIe
  <2>6. EnforcerTypes' /\ NodesListed' /\ DedicatedHeld'
    BY <1>b, <2>1, <2>2 DEF EnforcerInv, EnforcerTypes, NodesListed, DedicatedHeld
  <2>7. CallsHold'
    BY <1>b, <2>1, <2>5 DEF CallsHold
  <2> QED
    BY <2>6, <2>7 DEF EnforcerInv
<1>2. CASE RegisterTenantNetwork(c)
  <2>1. x.at = "registerNet" /\ writer["net"] = c /\ enforcing' = [enforcing EXCEPT ![c] = Returned] /\ writer' = Unlocked({"ie", "net"})
    BY <1>2, WriteLocks DEF RegisterTenantNetwork, Writing, Returns
  <2>2. writer["ie"] = c
    BY <1>a, <2>1 DEF CallHolds, HoldsIe
  <2>3. /\ writer' \in [Locks -> Callers \cup {NoCaller}]
        /\ \A l \in Locks : writer[l] \in Callers /\ writer[l] # c => writer'[l] = writer[l]
    BY <1>a, <2>1, <2>2, UnlockedFacts
  <2> QED
    BY <1>b, <2>1, <2>3, ReturnedCall, CallerGoesOnQuietly
<1>3. CASE UnregisterTenantNetwork(c)
  <2> DEFINE y == [x EXCEPT !.at = "unregisterNodes"]
  <2>1. x.at = "unregisterNet" /\ writer["net"] = c /\ enforcing' = [enforcing EXCEPT ![c] = y] /\ writer' = Unlocked({"net"})
    BY <1>3, WriteLocks DEF UnregisterTenantNetwork, Writing, GoesTo
  <2>2. writer["ie"] = c /\ isolation[x.t].dedicated = {}
    BY <1>a, <2>1 DEF CallHolds, HoldsIe, Unregisters
  <2>3. /\ writer' \in [Locks -> Callers \cup {NoCaller}] /\ writer'["ie"] = c
        /\ \A l \in Locks : writer[l] \in Callers /\ writer[l] # c => writer'[l] = writer[l]
    BY <1>a, <2>1, <2>2, UnlockedFacts DEF Locks
  <2>4. IsCall(y) /\ y.at = "unregisterNodes" /\ y.t = x.t
    BY <1>a, <2>1, CallMoves DEF NodeSections
  <2> HIDE DEF y
  <2>5. CallHolds(y, c, writer', nodeOf, isolation)
    BY <2>2, <2>3, <2>4 DEF CallHolds, HoldsNode
  <2> QED
    BY <1>b, <2>1, <2>3, <2>5, CallerGoesOnQuietly
<1>4. ASSUME x.at \notin HoldsNode \cup HoldsIe, writer' = writer,
             \/ enforcing' = [enforcing EXCEPT ![c] = Returned]
             \/ /\ x.at # "out"
                /\ \E s \in {"allowedNode", "talksPolicy", "validateAllowed", "validateNode", "validateLevel"} :
                      enforcing' = [enforcing EXCEPT ![c].at = s]
      PROVE  EnforcerInv'
  <2>1. CASE enforcing' = [enforcing EXCEPT ![c] = Returned]
    BY <1>a, <1>b, <1>4, <2>1, ReturnedCall, CallerGoesOnQuietly DEF HoldsNode
  <2>2. ASSUME x.at # "out", NEW s \in {"allowedNode", "talksPolicy", "validateAllowed", "validateNode", "validateLevel"},
               enforcing' = [enforcing EXCEPT ![c].at = s]
        PROVE  EnforcerInv'
    <3> DEFINE y == [x EXCEPT !.at = s]
    <3>1. enforcing' = [enforcing EXCEPT ![c] = y]
      BY <2>2
    <3>2. IsCall(y) /\ y.at = s
      BY <1>a, <2>2, CallMoves DEF NodeSections
    <3> HIDE DEF y
    <3>3. CallHolds(y, c, writer', nodeOf, isolation)
      BY <3>2 DEF CallHolds, HoldsNode, HoldsIe, Unregisters
    <3> QED
      BY <1>a, <1>b, <1>4, <3>1, <3>3, CallerGoesOnQuietly DEF HoldsNode
  <2> QED
    BY <1>4, <2>1, <2>2
<1>5. CASE IsNodeAllowed(c) \/ IsNodeAllowedAnswers(c) \/ IsNetworkCommunicationAllowed(c) \/ IsNetworkCommunicationAnswers(c)
  BY <1>4, <1>5 DEF IsNodeAllowed, IsNodeAllowedAnswers, IsNetworkCommunicationAllowed, IsNetworkCommunicationAnswers,
                    Reading, Returns, GoesTo, HoldsNode, HoldsIe
<1>6. CASE ValidateSandboxPlacement(c) \/ ValidateLocksAgain(c) \/ ValidateNode(c) \/ ValidateAnswers(c)
  BY <1>4, <1>6 DEF ValidateSandboxPlacement, ValidateLocksAgain, ValidateNode, ValidateAnswers,
                    Reading, Returns, GoesTo, HoldsNode, HoldsIe
<1> QED
  BY <1>1, <1>2, <1>3, <1>5, <1>6

\* The sections that change policies.
LEMMA PolicySection ==
    ASSUME EnforcerInv, NEW c \in Callers,
           RegisterIsolationPolicy(c) \/ UnregisterIsolationPolicy(c) \/ AssignToPolicy(c) \/ ReleaseFromPolicy(c)
    PROVE  EnforcerInv'
<1> DEFINE x == enforcing[c]
           t == x.t
<1>a. CallHolds(x, c, writer, nodeOf, isolation) /\ IsCall(x) /\ writer \in [Locks -> Callers \cup {NoCaller}]
  BY DEF EnforcerInv, CallsHold, EnforcerTypes, CallHolds
<1>b. nodeOf' = nodeOf /\ nodesOf' = nodesOf /\ writer["ie"] = c /\ t \in Tenants
  BY <1>a, WriteLocks DEF RegisterIsolationPolicy, UnregisterIsolationPolicy, AssignToPolicy, ReleaseFromPolicy, Writing, IsCall
<1>c. nodeOf' \in [IsolationNodes -> Tenants \cup {NoTenant}] /\ nodesOf' = [u \in Tenants |-> nodesOf'[u]] /\ NodesListed'
  BY <1>b DEF EnforcerInv, EnforcerTypes, NodesListed
<1>d. /\ \A u \in Tenants : IsPolicy(isolation[u])
      /\ \A u \in Tenants : \A n \in isolation[u].dedicated :
             \/ nodeOf[n] = u
             \/ /\ nodeOf[n] = NoTenant
                /\ \E d \in Callers : enforcing[d].at = "releasePolicy" /\ enforcing[d].t = u /\ enforcing[d].n = n
  BY DEF EnforcerInv, EnforcerTypes, DedicatedHeld
\* The policy of t becomes p, which names no node that it did not name and t does not have.
<1>1. ASSUME NEW p, IsPolicy(p), isolation' = [isolation EXCEPT ![t] = p],
             \A n \in p.dedicated : nodeOf[n] = t \/ (nodeOf[n] = NoTenant /\ n \in isolation[t].dedicated /\ x.at # "releasePolicy"),
             x.at # "releasePolicy" \/ \A u \in Tenants : u # t => \A n \in isolation[u].dedicated : nodeOf[n] = u,
             NEW y, CallHolds(y, c, writer', nodeOf', isolation'), enforcing' = [enforcing EXCEPT ![c] = y],
             writer' \in [Locks -> Callers \cup {NoCaller}],
             \A l \in Locks : writer[l] \in Callers /\ writer[l] # c => writer'[l] = writer[l]
      PROVE  EnforcerInv'
  <2>1. /\ isolation' = [u \in Tenants |-> isolation'[u]] /\ isolation'[t] = p
        /\ \A u \in Tenants : u # t => isolation'[u] = isolation[u]
    BY <1>b, <1>1 DEF EnforcerInv, EnforcerTypes
  <2>2. \A u \in Tenants : IsPolicy(isolation'[u])
    BY <1>d, <1>1, <2>1
  <2>3. \A u \in Tenants : \A n \in isolation'[u].dedicated :
              \/ nodeOf'[n] = u
              \/ n \in isolation[u].dedicated /\ nodeOf'[n] = nodeOf[n] /\ enforcing[c].at # "releasePolicy"
    BY <1>b, <1>d, <1>1, <2>1
  <2> QED
    <3>1. \A u \in Tenants : \A n \in isolation'[u].dedicated :
              \/ NamedNode(n, u, nodeOf', y)
              \/ /\ n \in isolation[u].dedicated /\ nodeOf'[n] = nodeOf[n] /\ enforcing[c].at # "releasePolicy"
      BY <2>3 DEF NamedNode
    <3>2. /\ CallHolds(y, c, writer', nodeOf', isolation') /\ enforcing' = [enforcing EXCEPT ![c] = y]
          /\ writer' \in [Locks -> Callers \cup {NoCaller}]
          /\ \A l \in Locks : writer[l] \in Callers /\ writer[l] # c => writer'[l] = writer[l]
      BY <1>1
    <3>3. isolation' = [u \in Tenants |-> isolation'[u]]
      BY <2>1
    <3> QED
      BY <1>b, <1>c, <2>2, <3>1, <3>2, <3>3, CallerGoesOn
<1>2. CASE RegisterIsolationPolicy(c)
  <2> DEFINE s == x.spec
             p == [level |-> s.level, network |-> s.network, inter |-> s.inter, dedicated |-> {}]
             y == [x EXCEPT !.at = "registerNet"]
  <2>1. /\ x.at = "register" /\ isolation' = [isolation EXCEPT ![t] = p]
        /\ \/ enforcing' = [enforcing EXCEPT ![c] = y] /\ writer' = writer
           \/ enforcing' = [enforcing EXCEPT ![c] = Returned] /\ writer' = Unlocked({"ie"})
    BY <1>2 DEF RegisterIsolationPolicy, Writing, GoesTo, Returns
  <2>2. IsPolicy(p) /\ p.dedicated = {}
    BY DEF IsPolicy
  <2> HIDE DEF p
  <2>3. IsCall(y) /\ y.at = "registerNet"
    BY <1>a, <2>1, CallMoves DEF NodeSections
  <2> HIDE DEF y
  <2>4. CASE enforcing' = [enforcing EXCEPT ![c] = y] /\ writer' = writer
    <3>1. CallHolds(y, c, writer', nodeOf', isolation')
      BY <1>b, <2>3, <2>4 DEF CallHolds, HoldsNode, Unregisters
    <3> QED
      BY <1>a, <1>1, <2>1, <2>2, <2>4, <3>1
  <2>5. CASE enforcing' = [enforcing EXCEPT ![c] = Returned] /\ writer' = Unlocked({"ie"})
    <3>1. CallHolds(Returned, c, writer', nodeOf', isolation')
      BY ReturnedCall
    <3>2. /\ writer' \in [Locks -> Callers \cup {NoCaller}]
          /\ \A l \in Locks : writer[l] \in Callers /\ writer[l] # c => writer'[l] = writer[l]
      BY <1>a, <1>b, <2>5, UnlockedFacts
    <3> QED
      BY <1>1, <2>1, <2>2, <2>5, <3>1, <3>2
  <2> QED
    BY <2>1, <2>4, <2>5
<1>3. CASE UnregisterIsolationPolicy(c)
  <2> DEFINE y == [x EXCEPT !.at = "unregisterNet"]
  <2>1. x.at = "unregister" /\ isolation' = [isolation EXCEPT ![t] = NoIsolation] /\ enforcing' = [enforcing EXCEPT ![c] = y] /\ writer' = writer
    BY <1>3 DEF UnregisterIsolationPolicy, Writing, GoesTo
  <2>2. IsPolicy(NoIsolation) /\ NoIsolation.dedicated = {}
    BY DEF IsPolicy, NoIsolation
  <2>3. IsCall(y) /\ y.at = "unregisterNet" /\ y.t = t
    BY <1>a, <2>1, CallMoves DEF NodeSections
  <2> HIDE DEF y
  <2>4. isolation'[t].dedicated = {}
    BY <1>b, <2>1, <2>2 DEF EnforcerInv, EnforcerTypes
  <2>5. CallHolds(y, c, writer', nodeOf', isolation')
    BY <1>b, <2>1, <2>3, <2>4 DEF CallHolds, HoldsNode
  <2> QED
    BY <1>a, <1>1, <2>1, <2>2, <2>5
<1>4. ASSUME x.at \in HoldsNode, enforcing' = [enforcing EXCEPT ![c] = Returned], writer' = Unlocked({"ie", "node"})
      PROVE  /\ writer["node"] = c /\ CallHolds(Returned, c, writer', nodeOf', isolation')
             /\ writer' \in [Locks -> Callers \cup {NoCaller}]
             /\ \A l \in Locks : writer[l] \in Callers /\ writer[l] # c => writer'[l] = writer[l]
  <2>1. writer["node"] = c
    BY <1>a, <1>4 DEF CallHolds
  <2> QED
    BY <1>a, <1>b, <1>4, <2>1, UnlockedFacts, ReturnedCall
<1>5. CASE AssignToPolicy(c)
  <2> DEFINE n == x.n
             p == IF isolation[t] = NoIsolation THEN isolation[t] ELSE [isolation[t] EXCEPT !.dedicated = @ \cup {n}]
  <2>1. x.at = "assignPolicy" /\ enforcing' = [enforcing EXCEPT ![c] = Returned] /\ writer' = Unlocked({"ie", "node"})
    BY <1>5 DEF AssignToPolicy, Writing, Returns
  <2>2. isolation' = [isolation EXCEPT ![t] = p]
    BY <1>5, <1>b DEF AssignToPolicy, EnforcerInv, EnforcerTypes
  <2>3. n \in IsolationNodes /\ nodeOf[n] = t
    BY <1>a, <2>1 DEF CallHolds, IsCall, NodeSections
  <2>4. IsPolicy(p) /\ p.dedicated \subseteq isolation[t].dedicated \cup {n}
    <3>1. PICK old : old = isolation[t]
      OBVIOUS
    <3>2. IsPolicy(old)
      BY <1>b, <1>d, <3>1
    <3>3. /\ IsPolicy([old EXCEPT !.dedicated = @ \cup {n}])
          /\ [old EXCEPT !.dedicated = @ \cup {n}].dedicated = old.dedicated \cup {n}
      BY <2>3, <3>2, PolicyNames
    <3> QED
      BY <3>1, <3>2, <3>3
  <2> HIDE DEF p
  <2>5. \A m \in p.dedicated : nodeOf[m] = t \/ (nodeOf[m] = NoTenant /\ m \in isolation[t].dedicated /\ x.at # "releasePolicy")
    BY <1>b, <1>d, <2>1, <2>3, <2>4
  <2> QED
    BY <1>1, <1>4, <2>1, <2>2, <2>4, <2>5 DEF HoldsNode
<1>6. CASE ReleaseFromPolicy(c)
  <2> DEFINE n == x.n
             p == [isolation[t] EXCEPT !.dedicated = @ \ {n}]
  <2>1. /\ x.at = "releasePolicy" /\ isolation' = [isolation EXCEPT ![t] = p]
        /\ enforcing' = [enforcing EXCEPT ![c] = Returned] /\ writer' = Unlocked({"ie", "node"})
    BY <1>6 DEF ReleaseFromPolicy, Writing, Returns
  <2>2. IsPolicy(p) /\ p.dedicated = isolation[t].dedicated \ {n}
    BY <1>b, <1>d DEF IsPolicy
  <2> HIDE DEF p
  <2>3. \A d \in Callers : enforcing[d].at = "releasePolicy" => d = c
    BY <1>4, <2>1 DEF EnforcerInv, CallsHold, CallHolds, HoldsNode
  <2>4. /\ \A u \in Tenants : u # t => \A m \in isolation[u].dedicated : nodeOf[m] = u
        /\ \A m \in p.dedicated : nodeOf[m] = t
    BY <1>b, <1>d, <2>2, <2>3
  <2> QED
    BY <1>1, <1>4, <2>1, <2>2, <2>4 DEF HoldsNode
<1> QED
  BY <1>2, <1>3, <1>5, <1>6

\* The sections that change the tables of nodes.
LEMMA NodeSection ==
    ASSUME EnforcerInv, NEW c \in Callers,
           UnregisterTenantNodes(c) \/ AssignDedicatedNode(c) \/ ReleaseDedicatedNode(c)
    PROVE  EnforcerInv'
<1> DEFINE x == enforcing[c]
           t == x.t
           n == x.n
<1>a. CallHolds(x, c, writer, nodeOf, isolation) /\ IsCall(x) /\ writer \in [Locks -> Callers \cup {NoCaller}]
  BY DEF EnforcerInv, CallsHold, EnforcerTypes, CallHolds
<1>b. /\ isolation' = isolation /\ writer["node"] = c /\ t \in Tenants
      /\ x.at \in {"unregisterNodes", "assign", "release"}
      /\ x.at # "unregisterNodes" => n \in IsolationNodes
  BY <1>a, WriteLocks DEF UnregisterTenantNodes, AssignDedicatedNode, ReleaseDedicatedNode, Writing, IsCall, NodeSections
<1>c. /\ isolation' = [u \in Tenants |-> isolation'[u]] /\ \A u \in Tenants : IsPolicy(isolation'[u])
      /\ nodeOf \in [IsolationNodes -> Tenants \cup {NoTenant}] /\ nodesOf = [u \in Tenants |-> nodesOf[u]]
      /\ \A u \in Tenants : isolation[u].dedicated \subseteq IsolationNodes
      /\ \A u \in Tenants : nodesOf[u] = {m \in IsolationNodes : nodeOf[m] = u}
  BY <1>b DEF EnforcerInv, EnforcerTypes, IsPolicy, NodesListed
\* The caller has the lock of the nodes: no release is half-way.
<1>d. \A u \in Tenants : \A m \in isolation[u].dedicated : nodeOf[m] = u
  <2>1. \A d \in Callers : enforcing[d].at = "releasePolicy" => d = c
    BY <1>b DEF EnforcerInv, CallsHold, CallHolds, HoldsNode
  <2> QED
    BY <1>b, <2>1 DEF EnforcerInv, DedicatedHeld
<1>1. CASE UnregisterTenantNodes(c)
  <2>1. /\ x.at = "unregisterNodes" /\ enforcing' = [enforcing EXCEPT ![c] = Returned] /\ writer' = Unlocked({"ie", "node"})
        /\ nodeOf' = [m \in IsolationNodes |-> IF m \in nodesOf[t] THEN NoTenant ELSE nodeOf[m]]
        /\ nodesOf' = [nodesOf EXCEPT ![t] = {}]
    BY <1>1 DEF UnregisterTenantNodes, Writing, Returns
  <2>2. writer["ie"] = c /\ isolation[t].dedicated = {}
    BY <1>a, <2>1 DEF CallHolds, HoldsIe, Unregisters
  <2>3. /\ CallHolds(Returned, c, writer', nodeOf', isolation')
        /\ writer' \in [Locks -> Callers \cup {NoCaller}]
        /\ \A l \in Locks : writer[l] \in Callers /\ writer[l] # c => writer'[l] = writer[l]
    BY <1>a, <1>b, <2>1, <2>2, UnlockedFacts, ReturnedCall
  <2>4. nodeOf' \in [IsolationNodes -> Tenants \cup {NoTenant}] /\ nodesOf' = [u \in Tenants |-> nodesOf'[u]]
    BY <1>c, <2>1
  <2>5. NodesListed'
    BY <1>b, <1>c, <2>1, IsolationAssumption DEF NodesListed
  <2>6. \A u \in Tenants : \A m \in isolation'[u].dedicated : nodeOf'[m] = u
    BY <1>b, <1>c, <1>d, <2>1, <2>2
  <2> QED
    BY <1>b, <1>c, <2>1, <2>2, <2>3, <2>4, <2>5, <2>6, CallerGoesOn DEF NamedNode
<1>2. CASE (AssignDedicatedNode(c) \/ ReleaseDedicatedNode(c)) /\ enforcing' = [enforcing EXCEPT ![c] = Returned]
           /\ writer' = Unlocked({"node"}) /\ nodeOf' = nodeOf /\ nodesOf' = nodesOf
  <2>1. /\ writer' \in [Locks -> Callers \cup {NoCaller}]
        /\ \A l \in Locks : writer[l] \in Callers /\ writer[l] # c => writer'[l] = writer[l]
    BY <1>a, <1>b, <1>2, UnlockedFacts
  <2> QED
    BY <1>b, <1>2, <2>1, ReturnedCall, CallerGoesOnQuietly
<1>3. CASE AssignDedicatedNode(c) /\ nodeOf[n] = NoTenant
  <2> DEFINE y == [x EXCEPT !.at = "assignPolicy"]
  <2>1. /\ x.at = "assign" /\ enforcing' = [enforcing EXCEPT ![c] = y] /\ writer' = writer
        /\ nodeOf' = [nodeOf EXCEPT ![n] = t] /\ nodesOf' = [nodesOf EXCEPT ![t] = @ \cup {n}]
    BY <1>3 DEF AssignDedicatedNode, Writing, GoesTo
  <2>2. IsCall(y) /\ y.at = "assignPolicy" /\ y.t = t /\ y.n = n
    BY <1>a, <2>1, CallMoves DEF NodeSections
  <2> HIDE DEF y
  <2>3. nodeOf' \in [IsolationNodes -> Tenants \cup {NoTenant}] /\ nodesOf' = [u \in Tenants |-> nodesOf'[u]] /\ nodeOf'[n] = t
    BY <1>b, <1>c, <2>1
  <2>4. NodesListed'
    BY <1>b, <1>c, <1>3, <2>1, IsolationAssumption DEF NodesListed
  <2>5. \A u \in Tenants : \A m \in isolation'[u].dedicated : nodeOf'[m] = u
    BY <1>b, <1>c, <1>d, <1>3, <2>1, IsolationAssumption
  <2>6. CallHolds(y, c, writer', nodeOf', isolation')
    <3>1. y.at \notin HoldsIe /\ y.at \notin Unregisters
      BY <2>2 DEF HoldsIe, Unregisters
    <3>2. writer'["node"] = c /\ nodeOf'[y.n] = y.t
      BY <1>b, <2>1, <2>2, <2>3
    <3> QED
      BY <2>2, <3>1, <3>2 DEF CallHolds
  <2>7. /\ writer' \in [Locks -> Callers \cup {NoCaller}]
        /\ \A l \in Locks : writer[l] \in Callers /\ writer[l] # c => writer'[l] = writer[l]
    BY <1>a, <2>1
  <2>8. \A u \in Tenants : \A m \in isolation'[u].dedicated : NamedNode(m, u, nodeOf', y)
    BY <2>5 DEF NamedNode
  <2> QED
    BY <1>b, <1>c, <2>1, <2>3, <2>4, <2>6, <2>7, <2>8, CallerGoesOn
<1>4. CASE ReleaseDedicatedNode(c) /\ nodeOf[n] = t
  <2> DEFINE y == [x EXCEPT !.at = "releasePolicy"]
  <2>1. /\ x.at = "release" /\ enforcing' = [enforcing EXCEPT ![c] = y] /\ writer' = writer
        /\ nodeOf' = [nodeOf EXCEPT ![n] = NoTenant] /\ nodesOf' = [nodesOf EXCEPT ![t] = @ \ {n}]
    BY <1>4 DEF ReleaseDedicatedNode, Writing, GoesTo
  <2>2. IsCall(y) /\ y.at = "releasePolicy" /\ y.t = t /\ y.n = n
    BY <1>a, <2>1, CallMoves DEF NodeSections
  <2> HIDE DEF y
  <2>3. nodeOf' \in [IsolationNodes -> Tenants \cup {NoTenant}] /\ nodesOf' = [u \in Tenants |-> nodesOf'[u]]
    BY <1>b, <1>c, <2>1
  <2>4. NodesListed'
    BY <1>b, <1>c, <1>4, <2>1, IsolationAssumption DEF NodesListed
  <2>5. \A u \in Tenants : \A m \in isolation'[u].dedicated :
           nodeOf'[m] = u \/ (nodeOf'[m] = NoTenant /\ y.at = "releasePolicy" /\ y.t = u /\ y.n = m)
    BY <1>b, <1>c, <1>d, <1>4, <2>1, <2>2
  <2>6. CallHolds(y, c, writer', nodeOf', isolation')
    BY <1>b, <2>1, <2>2 DEF CallHolds, HoldsIe, Unregisters
  <2>7. \A u \in Tenants : \A m \in isolation'[u].dedicated :
              NamedNode(m, u, nodeOf', y)
    BY <2>5 DEF NamedNode
  <2>8. \A l \in Locks : writer[l] \in Callers /\ writer[l] # c => writer'[l] = writer[l]
    BY <2>1
  <2> QED
    BY <1>a, <1>b, <1>c, <2>1, <2>3, <2>4, <2>6, <2>7, <2>8, CallerGoesOn
<1> QED
  BY <1>1, <1>2, <1>3, <1>4 DEF AssignDedicatedNode, ReleaseDedicatedNode, Returns

\* A rule for a tenant goes with the tenant's network.
LEMMA RulesStep ==
    ASSUME EnforcerInv, RulesBacked, NEW c \in Callers, Section(c)
    PROVE  RulesBacked'
<1>1. CASE RegisterTenantNetwork(c)
  <2> DEFINE t == enforcing[c].t
             new == {<<t, "*">>}
             from == {<<f, t>> : f \in enforcing[c].spec.from}
  <2>1. t \in Tenants
    BY <1>1 DEF EnforcerInv, CallsHold, CallHolds, IsCall, RegisterTenantNetwork, Writing
  <2>2. networks' = networks \cup {t} /\ rules' \subseteq rules \cup new \cup from
    BY <1>1 DEF RegisterTenantNetwork
  <2>3. (\A r \in new : r[1] = t /\ r[2] = "*") /\ (\A r \in from : r[2] = t)
    OBVIOUS
  <2> HIDE DEF new, from
  <2> QED
    BY <2>1, <2>2, <2>3, IsolationAssumption DEF RulesBacked
<1>2. CASE UnregisterTenantNetwork(c)
  <2>1. networks' = networks \ {enforcing[c].t} /\ rules' = {r \in rules : enforcing[c].t \notin {r[1], r[2]}}
    BY <1>2 DEF UnregisterTenantNetwork
  <2> QED
    BY <2>1 DEF RulesBacked
<1>3. CASE networks' = networks /\ rules' = rules
  BY <1>3 DEF RulesBacked
<1> QED
  BY <1>1, <1>2, <1>3 DEF Section, Announce, RegisterIsolationPolicy, UnregisterIsolationPolicy, UnregisterTenantNodes,
     IsNodeAllowed, IsNodeAllowedAnswers, IsNetworkCommunicationAllowed, IsNetworkCommunicationAnswers,
     AssignDedicatedNode, AssignToPolicy, ReleaseDedicatedNode, ReleaseFromPolicy,
     ValidateSandboxPlacement, ValidateLocksAgain, ValidateNode, ValidateAnswers

\* The identifiers handed out are below the next one.
VNIInv == nextVNI \in Nat /\ vnis \in [Tenants -> Nat] /\ (\A t \in Tenants : vnis[t] < nextVNI) /\ VNIUnique

\* Every step of the network manager keeps its numbers apart.
LEMMA VNIStep ==
    ASSUME VNIInv, ManagerNext
    PROVE  VNIInv'
<1>1. ASSUME NEW t \in Tenants, EnforceIsolation(t) PROVE VNIInv'
  BY <1>1 DEF EnforceIsolation, VNIInv, VNIUnique
<1>2. ASSUME NEW t \in Tenants, RemoveIsolation(t) PROVE VNIInv'
  <2>1. vnis' = [vnis EXCEPT ![t] = 0] /\ nextVNI' = nextVNI
    BY <1>2 DEF RemoveIsolation
  <2>2. nextVNI > 0
    BY DEF VNIInv
  <2> QED
    BY <2>1, <2>2 DEF VNIInv, VNIUnique
<1>3. ASSUME vnis' = vnis, nextVNI' = nextVNI PROVE VNIInv'
  BY <1>3 DEF VNIInv, VNIUnique
<1> QED
  BY <1>1, <1>2, <1>3 DEF ManagerNext, AssignDedicatedNodes

\* Nodes, network rules and network identifiers belong to one tenant.
THEOREM IsolationAlwaysSafe == IsolationSpec => []IsolationSafe
<1> DEFINE Inv == EnforcerInv /\ RulesBacked /\ VNIInv
<1>1. IsolationInit => Inv
  <2> SUFFICES ASSUME IsolationInit PROVE Inv
    OBVIOUS
  <2>1. EnforcerTypes /\ NodesListed /\ DedicatedHeld
    <3>1. IsPolicy(NoIsolation) /\ NoIsolation.dedicated = {}
      BY DEF IsPolicy, NoIsolation
    <3> QED
      BY <3>1, IsolationAssumption DEF IsolationInit, EnforcerInit, EnforcerTypes, NodesListed, DedicatedHeld
  <2>2. CallsHold
    BY ReturnedCall DEF IsolationInit, EnforcerInit, CallsHold
  <2>3. RulesBacked /\ VNIInv
    BY DEF IsolationInit, EnforcerInit, ManagerInit, RulesBacked, VNIInv, VNIUnique
  <2> QED
    BY <2>1, <2>2, <2>3 DEF EnforcerInv
<1>2. Inv /\ [IsolationNext]_isolationVars => Inv'
  <2> SUFFICES ASSUME Inv, [IsolationNext]_isolationVars PROVE Inv'
    OBVIOUS
  <2>1. ASSUME UNCHANGED enforcerVars PROVE EnforcerInv' /\ RulesBacked'
    BY <2>1 DEF enforcerVars, EnforcerInv, EnforcerTypes, CallsHold, NodesListed, DedicatedHeld, RulesBacked
  <2>2. ASSUME UNCHANGED managerVars PROVE VNIInv'
    BY <2>2 DEF managerVars, VNIInv, VNIUnique
  <2>3. CASE UNCHANGED isolationVars
    BY <2>1, <2>2, <2>3 DEF isolationVars
  <2>4. ASSUME NEW c \in Callers, Call(c) PROVE Inv'
    <3>1. EnforcerInv'
      BY <2>4, CallBegins
    <3>2. networks' = networks /\ rules' = rules /\ UNCHANGED managerVars
      BY <2>4 DEF Call
    <3> QED
      BY <2>2, <3>1, <3>2 DEF RulesBacked
  <2>5. ASSUME NEW c \in Callers, Section(c) PROVE Inv'
    <3>1. EnforcerInv'
      BY <2>5, QuietSection, PolicySection, NodeSection DEF Section
    <3>2. RulesBacked'
      BY <2>5, RulesStep
    <3>3. UNCHANGED managerVars
      BY <2>5 DEF Section, Announce, RegisterIsolationPolicy, RegisterTenantNetwork, UnregisterIsolationPolicy,
         UnregisterTenantNetwork, UnregisterTenantNodes,
         IsNodeAllowed, IsNodeAllowedAnswers, IsNetworkCommunicationAllowed, IsNetworkCommunicationAnswers,
         AssignDedicatedNode, AssignToPolicy, ReleaseDedicatedNode, ReleaseFromPolicy,
         ValidateSandboxPlacement, ValidateLocksAgain, ValidateNode, ValidateAnswers
    <3> QED
      BY <2>2, <3>1, <3>2, <3>3
  <2>6. CASE ManagerNext
    <3>1. UNCHANGED enforcerVars
      BY <2>6 DEF ManagerNext, EnforceIsolation, RemoveIsolation, AssignDedicatedNodes
    <3> QED
      BY <2>1, <2>6, <3>1, VNIStep
  <2> QED
    BY <2>3, <2>4, <2>5, <2>6 DEF IsolationNext, EnforcerNext
<1>3. Inv => IsolationSafe
  <2> SUFFICES ASSUME Inv PROVE IsolationSafe
    OBVIOUS
  <2>1. NodesAgree
    BY DEF EnforcerInv, NodesListed, DedicatedHeld, NodesAgree
  <2> QED
    BY <2>1 DEF IsolationSafe, VNIInv
<1> QED
  BY <1>1, <1>2, <1>3, PTL DEF IsolationSpec

-----------------------------------------------------------------------------
(* Events *)

\* An event in the list.
Events == [reason : Reasons, object : Involved, count : Nat \ {0}]

RecorderTypeOK ==
    /\ recorded \in Seq(Events)
    /\ counters \in [Reasons -> Nat] /\ trimmed \in [Reasons -> Nat]

EInv == RecorderTypeOK /\ EventsSafe

\* The events of a reason, and how often they say it was recorded.
Of(q, r) == {i \in DOMAIN q : q[i].reason = r}
CountsOf(q) == [i \in DOMAIN q |-> q[i].count]
Recorded(q, r) == Sum(CountsOf(q), Of(q, r))

\* What RecordEvent does to the list: an event is counted again, a new one comes
\* last, the oldest one goes.
CountedAgain(p, q, i) == p = [q EXCEPT ![i].count = @ + 1]
NewLast(p, q, e) == p = Append(q, e)
OldestGone(p, q) == p = SubSeq(q, 2, Len(q))

\* The fold that CountsAddUp states is this sum.
LEMMA RecordedIsFold ==
    ASSUME NEW q, NEW r
    PROVE  (CHOOSE g : g = [s \in SUBSET Of(q, r) |->
               IF s = {} THEN 0 ELSE q[Pick(s)].count + g[s \ {Pick(s)}]])[Of(q, r)]
              = Recorded(q, r)
<1>1. PICK v, S : v = CountsOf(q) /\ S = Of(q, r)
  OBVIOUS
<1>2. \A s \in SUBSET S : s # {} => v[Pick(s)] = q[Pick(s)].count
  BY <1>1, PickIn DEF CountsOf, Of
<1>3. ASSUME NEW g
      PROVE  IsSum(g, v, S) <=> g = [s \in SUBSET S |->
                IF s = {} THEN 0 ELSE q[Pick(s)].count + g[s \ {Pick(s)}]]
  BY <1>2 DEF IsSum
<1>4. (CHOOSE g : IsSum(g, v, S)) = (CHOOSE g : g = [s \in SUBSET S |->
         IF s = {} THEN 0 ELSE q[Pick(s)].count + g[s \ {Pick(s)}]])
  BY <1>3
<1>5. Sum(v, S) = (CHOOSE g : IsSum(g, v, S))[S]
  BY SumIsFold
<1> QED BY <1>1, <1>4, <1>5 DEF Recorded

LEMMA CountsRecorded ==
    /\ CountsAddUp <=> \A r \in Reasons : counters[r] = trimmed[r] + Recorded(recorded, r)
    /\ CountsAddUp' <=> \A r \in Reasons : counters'[r] = trimmed'[r] + Recorded(recorded', r)
<1>1. CountsAddUp <=> \A r \in Reasons : counters[r] = trimmed[r] + Recorded(recorded, r)
  BY RecordedIsFold DEF CountsAddUp, MapThenSumSet, MapThenFoldSet, Pick, Of
<1>2. CountsAddUp' <=> \A r \in Reasons : counters'[r] = trimmed'[r] + Recorded(recorded', r)
  BY RecordedIsFold DEF CountsAddUp, MapThenSumSet, MapThenFoldSet, Pick, Of
<1> QED BY <1>1, <1>2

\* The positions of a reason, and their counts.
LEMMA OfFinite ==
    ASSUME NEW q \in Seq(Events), NEW r
    PROVE  /\ DOMAIN q = 1..Len(q) /\ Len(q) \in Nat
           /\ IsFiniteSet(Of(q, r)) /\ Of(q, r) \subseteq DOMAIN q
           /\ \A i \in DOMAIN q : CountsOf(q)[i] \in Nat /\ q[i] \in Events
           /\ \A i \in Of(q, r) : CountsOf(q)[i] \in Nat
           /\ Recorded(q, r) \in Nat
<1>1. DOMAIN q = 1..Len(q) /\ Len(q) \in Nat /\ \A i \in DOMAIN q : q[i] \in Events
  OBVIOUS
<1>2. IsFiniteSet(1..Len(q))
  BY <1>1, FS_Interval
<1>3. PICK v, S : v = CountsOf(q) /\ S = Of(q, r)
  OBVIOUS
<1>4. IsFiniteSet(S) /\ S \subseteq DOMAIN q
  BY <1>1, <1>2, <1>3, FS_Subset DEF Of
<1>5. \A i \in DOMAIN q : v[i] \in Nat
  BY <1>1, <1>3 DEF CountsOf, Events
<1>6. \A i \in S : v[i] \in Nat
  BY <1>4, <1>5
<1>7. Sum(v, S) \in Nat
  BY <1>4, <1>6, SumIsNat
<1> QED BY <1>1, <1>3, <1>4, <1>5, <1>6, <1>7 DEF Recorded

\* An event is counted again.
LEMMA RecordedAgain ==
    ASSUME NEW q \in Seq(Events), NEW i \in DOMAIN q, NEW p, CountedAgain(p, q, i)
    PROVE  /\ p \in Seq(Events) /\ Len(p) = Len(q)
           /\ \A r : Recorded(p, r) = Recorded(q, r) + (IF q[i].reason = r THEN 1 ELSE 0)
<1> USE DEF CountedAgain
<1>1. DOMAIN q = 1..Len(q) /\ Len(q) \in Nat /\ \A j \in DOMAIN q : q[j] \in Events
  OBVIOUS
<1>2. PICK x, e : x = q[i] /\ e = [x EXCEPT !.count = @ + 1]
  OBVIOUS
<1>3. e \in Events /\ e.reason = q[i].reason /\ e.count = q[i].count + 1 /\ q[i].count \in Nat
  <2>1. x \in Events
    BY <1>1, <1>2
  <2>2. x.count \in Nat /\ x.count + 1 \in Nat \ {0}
    BY <2>1 DEF Events
  <2>3. PICK n \in Nat \ {0} : n = x.count + 1
    BY <2>2
  <2>4. e = [x EXCEPT !.count = n]
    BY <1>2, <2>3
  <2>5. e \in Events /\ e.reason = x.reason /\ e.count = n
    BY <2>1, <2>4 DEF Events
  <2> QED BY <1>2, <2>2, <2>3, <2>5
<1>4. p = [q EXCEPT ![i] = e]
  BY <1>2
<1>5. p \in Seq(Events) /\ Len(p) = Len(q) /\ DOMAIN p = DOMAIN q
  BY <1>3, <1>4
<1>6. p[i] = e /\ \A j \in DOMAIN q \ {i} : p[j] = q[j]
  BY <1>1, <1>4
<1>7. ASSUME NEW r
      PROVE  Recorded(p, r) = Recorded(q, r) + (IF q[i].reason = r THEN 1 ELSE 0)
  <2>1. PICK v, w, S : v = CountsOf(q) /\ w = CountsOf(p) /\ S = Of(q, r)
    OBVIOUS
  <2>2. Of(p, r) = S
    BY <1>3, <1>5, <1>6, <2>1 DEF Of
  <2>3. IsFiniteSet(S) /\ S \subseteq DOMAIN q /\ \A j \in S : v[j] \in Nat /\ w[j] \in Nat
    <3>1. \A j \in S : w[j] \in Nat
      BY <1>5, <2>1, <2>2, OfFinite
    <3> QED BY <2>1, <3>1, OfFinite
  <2>4. w[i] = v[i] + 1 /\ v[i] \in Nat /\ \A j \in DOMAIN q \ {i} : w[j] = v[j]
    BY <1>3, <1>5, <1>6, <2>1 DEF CountsOf
  <2>5. CASE q[i].reason = r
    <3>1. i \in S
      BY <2>1, <2>5 DEF Of
    <3>2. \A j \in S : v[j] \in Int /\ w[j] \in Int
      BY <2>3
    <3>3. \A j \in S \ {i} : w[j] = v[j]
      BY <2>3, <2>4
    <3>4. Sum(w, S) = Sum(v, S) + (w[i] - v[i])
      BY <2>3, <3>1, <3>2, <3>3, SumChange
    <3>5. Sum(v, S) \in Nat
      BY <2>3, SumIsNat
    <3>6. Sum(w, S) = Sum(v, S) + 1
      BY <2>4, <3>4, <3>5
    <3> QED BY <2>1, <2>2, <2>5, <3>6 DEF Recorded
  <2>6. CASE q[i].reason # r
    <3>1. i \notin S
      BY <2>1, <2>6 DEF Of
    <3>2. \A j \in S : w[j] = v[j]
      BY <2>3, <2>4, <3>1
    <3>3. Sum(w, S) = Sum(v, S)
      BY <2>3, <3>2, SumSame
    <3>4. Sum(v, S) \in Nat
      BY <2>3, SumIsNat
    <3> QED BY <2>1, <2>2, <2>6, <3>3, <3>4 DEF Recorded
  <2> QED BY <2>5, <2>6
<1> QED BY <1>5, <1>7

\* A new event comes last.
LEMMA RecordedNew ==
    ASSUME NEW q \in Seq(Events), NEW e \in Events, NEW p, NewLast(p, q, e)
    PROVE  /\ p \in Seq(Events) /\ Len(p) = Len(q) + 1
           /\ \A r : Recorded(p, r) = Recorded(q, r) + (IF e.reason = r THEN e.count ELSE 0)
<1> USE DEF NewLast
<1>1. p \in Seq(Events) /\ Len(p) = Len(q) + 1
  OBVIOUS
<1>2. PICK n : n = Len(p)
  OBVIOUS
<1>3. /\ DOMAIN p = 1..n /\ DOMAIN q = 1..(n - 1) /\ n \in Nat /\ n > 0
      /\ p[n] = e /\ \A j \in DOMAIN q : p[j] = q[j]
  BY <1>1, <1>2
<1>4. ASSUME NEW r
      PROVE  Recorded(p, r) = Recorded(q, r) + (IF e.reason = r THEN e.count ELSE 0)
  <2>1. PICK v, w, S, T : v = CountsOf(q) /\ w = CountsOf(p) /\ S = Of(q, r) /\ T = Of(p, r)
    OBVIOUS
  <2>2. /\ IsFiniteSet(S) /\ S \subseteq DOMAIN q /\ \A j \in S : v[j] \in Nat
        /\ IsFiniteSet(T) /\ T \subseteq DOMAIN p /\ \A j \in T : w[j] \in Nat
    BY <1>1, <2>1, OfFinite
  <2>3. w[n] = e.count /\ \A j \in S : w[j] = v[j]
    BY <1>3, <2>1, <2>2 DEF CountsOf
  <2>4. Sum(w, S) = Sum(v, S) /\ Sum(v, S) \in Nat
    BY <2>2, <2>3, SumSame, SumIsNat
  <2>5. CASE e.reason = r
    <3>1. T = S \cup {n} /\ n \notin S
      BY <1>3, <2>1, <2>2, <2>5 DEF Of
    <3>2. \A j \in S \cup {n} : w[j] \in Int
      BY <2>2, <3>1
    <3>3. Sum(w, S \cup {n}) = w[n] + Sum(w, S)
      BY <2>2, <3>1, <3>2, SumAdd
    <3>4. e.count \in Nat
      BY DEF Events
    <3>5. Sum(w, T) = Sum(v, S) + e.count
      BY <2>3, <2>4, <3>1, <3>3, <3>4
    <3> QED BY <2>1, <2>5, <3>5 DEF Recorded
  <2>6. CASE e.reason # r
    <3>1. T = S
      BY <1>3, <2>1, <2>2, <2>6 DEF Of
    <3>2. Sum(w, T) = Sum(v, S)
      BY <2>4, <3>1
    <3> QED BY <2>1, <2>4, <2>6, <3>2 DEF Recorded
  <2> QED BY <2>5, <2>6
<1> QED BY <1>1, <1>4

\* The oldest event goes.
LEMMA RecordedTrimmed ==
    ASSUME NEW q \in Seq(Events), q # <<>>, NEW p, OldestGone(p, q)
    PROVE  /\ p \in Seq(Events) /\ Len(p) = Len(q) - 1
           /\ \A i \in DOMAIN p : p[i] = q[i + 1]
           /\ \A r : Recorded(q, r) = Recorded(p, r) + (IF q[1].reason = r THEN q[1].count ELSE 0)
<1> USE DEF OldestGone
<1>1. Len(q) \in Nat /\ Len(q) > 0 /\ DOMAIN q = 1..Len(q) /\ \A j \in DOMAIN q : q[j] \in Events
  OBVIOUS
<1>2. /\ p \in Seq(Events) /\ Len(p) = Len(q) - 1 /\ DOMAIN p = 1..Len(p)
      /\ \A i \in 1..Len(p) : p[i] = q[i + 1]
  BY <1>1
<1>3. q[1] \in Events /\ q[1].count \in Nat
  <2>1. q[1] \in Events
    BY <1>1
  <2> QED BY <2>1 DEF Events
<1>4. ASSUME NEW r
      PROVE  Recorded(q, r) = Recorded(p, r) + (IF q[1].reason = r THEN q[1].count ELSE 0)
  <2>1. PICK v, w, S, T : v = CountsOf(p) /\ w = CountsOf(q) /\ S = Of(p, r) /\ T = Of(q, r)
    OBVIOUS
  <2>2. /\ IsFiniteSet(S) /\ S \subseteq 1..Len(p) /\ \A j \in S : v[j] \in Nat
        /\ IsFiniteSet(T) /\ T \subseteq 1..Len(q) /\ \A j \in T : w[j] \in Nat
    BY <1>1, <1>2, <2>1, OfFinite
  <2>3. PICK f : f = [i \in 1..Len(p) |-> i + 1]
    OBVIOUS
  <2>4. /\ \A i \in S : f[i] = i + 1
        /\ \A i, j \in S : f[i] = f[j] => i = j
    BY <2>2, <2>3
  <2>5. \A i \in S : v[i] \in Int /\ w[f[i]] = v[i]
    <3> SUFFICES ASSUME NEW i \in S PROVE v[i] \in Int /\ w[f[i]] = v[i]
      OBVIOUS
    <3>1. i \in 1..Len(p) /\ i + 1 \in 1..Len(q) /\ f[i] = i + 1 /\ v[i] \in Int
      BY <1>1, <1>2, <2>2, <2>4
    <3>2. v[i] = p[i].count /\ w[i + 1] = q[i + 1].count
      BY <1>1, <1>2, <2>1, <3>1 DEF CountsOf
    <3> QED BY <1>2, <3>1, <3>2
  <2>6. PICK U : U = {f[i] : i \in S}
    OBVIOUS
  <2>7. Sum(w, U) = Sum(v, S) /\ Sum(v, S) \in Nat
    <3>1. Sum(w, U) = Sum(v, S)
      <4>1. Renames(f, v, S, w, U)
        BY <2>4, <2>5, <2>6 DEF Renames
      <4> QED BY <2>2, <4>1, SumRenamed
    <3>2. Sum(v, S) \in Nat
      BY <2>2, SumIsNat
    <3> QED BY <3>1, <3>2
  <2>8. U = T \ {1}
    <3>1. \A i \in S : f[i] \in T /\ f[i] # 1
      BY <1>1, <1>2, <2>1, <2>2, <2>4 DEF Of
    <3>2. \A k \in T \ {1} : k - 1 \in S /\ f[k - 1] = k
      BY <1>1, <1>2, <2>1, <2>2, <2>4 DEF Of
    <3> QED BY <2>6, <3>1, <3>2
  <2>9. CASE q[1].reason = r
    <3>1. 1 \in T /\ w[1] = q[1].count
      BY <1>1, <2>1, <2>9 DEF Of, CountsOf
    <3>2. \A j \in T : w[j] \in Int
      BY <2>2
    <3>3. Sum(w, T) = w[1] + Sum(w, T \ {1})
      <4>1. IsFiniteSet(T) /\ 1 \in T
        BY <2>2, <3>1
      <4> HIDE DEF OldestGone
      <4> QED BY <3>2, <4>1, SumRemove
    <3>4. Sum(w, T) = Sum(v, S) + q[1].count
      BY <1>3, <2>7, <2>8, <3>1, <3>3
    <3>5. Recorded(q, r) = Sum(w, T) /\ Recorded(p, r) = Sum(v, S)
      BY <2>1 DEF Recorded
    <3> QED BY <2>9, <3>4, <3>5
  <2>10. CASE q[1].reason # r
    <3>1. T = U
      BY <2>1, <2>8, <2>10 DEF Of
    <3>2. Sum(w, T) = Sum(v, S)
      BY <2>7, <3>1
    <3> QED BY <2>1, <2>7, <2>10, <3>2 DEF Recorded
  <2> QED BY <2>9, <2>10
<1> QED BY <1>2, <1>4

\* RecordEvent finds an event that is there.
LEMMA FoundEvents ==
    ASSUME RecorderTypeOK, NEW r, NEW o
    PROVE  /\ \A i \in existingEvent(r, o) :
                 i \in DOMAIN recorded /\ recorded[i].reason = r /\ recorded[i].object = o
           /\ existingEvent(r, o) = {} =>
                 \A i \in DOMAIN recorded : ~ (recorded[i].reason = r /\ recorded[i].object = o)
<1> DEFINE same == {i \in DOMAIN recorded : recorded[i].reason = r /\ recorded[i].object = o}
<1>1. PICK n : n = Len(recorded)
  OBVIOUS
<1>2. n \in Nat /\ same \subseteq 1..n
  BY <1>1 DEF RecorderTypeOK
<1>3. existingEvent(r, o) = {i \in same : \A j \in same : i <= j}
  BY DEF existingEvent
<1>4. same # {} => \E i \in same : \A j \in same : i <= j
  <2> HIDE DEF same
  <2> QED BY <1>2, FirstIn
<1> QED BY <1>3, <1>4

\* RecordEvent: found and counted again, or listed last with the oldest trimmed.
LEMMA RecorderStep ==
    ASSUME EInv, NEW r \in Reasons, NEW o \in Involved, RecordEvent(r, o)
    PROVE  EInv'
<1>0. /\ recorded \in Seq(Events) /\ counters \in [Reasons -> Nat] /\ trimmed \in [Reasons -> Nat]
      /\ Len(recorded) <= maxEvents /\ maxEvents \in Nat /\ maxEvents > 0 /\ Len(recorded) \in Nat
      /\ DOMAIN recorded = 1..Len(recorded)
  BY RecorderAssumption DEF EInv, RecorderTypeOK, EventsSafe, RecordedOnce
<1>1. \A k \in Reasons : counters[k] = trimmed[k] + Recorded(recorded, k)
  BY CountsRecorded DEF EInv, EventsSafe
<1>2. /\ counters' \in [Reasons -> Nat]
      /\ \A k \in Reasons : counters'[k] = counters[k] + (IF k = r THEN 1 ELSE 0)
  BY <1>0 DEF RecordEvent
<1>3. \A k \in Reasons : Recorded(recorded, k) \in Nat
  BY <1>0, OfFinite
<1>4. CASE existingEvent(r, o) # {}
  <2>1. PICK i \in existingEvent(r, o) : recorded' = [recorded EXCEPT ![i].count = @ + 1]
    BY <1>4 DEF RecordEvent
  <2>2. i \in DOMAIN recorded /\ recorded[i].reason = r
    BY <2>1, FoundEvents DEF EInv
  <2>3. PICK p : p = recorded'
    OBVIOUS
  <2>4. /\ p \in Seq(Events) /\ Len(p) = Len(recorded)
        /\ \A k : Recorded(p, k) = Recorded(recorded, k) + (IF r = k THEN 1 ELSE 0)
    <3>1. PICK q : q = recorded
      OBVIOUS
    <3>2. q \in Seq(Events) /\ i \in DOMAIN q /\ CountedAgain(p, q, i)
      BY <1>0, <2>1, <2>2, <2>3, <3>1 DEF CountedAgain
    <3>3. /\ p \in Seq(Events) /\ Len(p) = Len(q)
          /\ \A k : Recorded(p, k) = Recorded(q, k) + (IF q[i].reason = k THEN 1 ELSE 0)
      BY <3>2, RecordedAgain
    <3> QED BY <2>2, <3>1, <3>3
  <2>5. UNCHANGED trimmed
    BY <1>4 DEF RecordEvent
  <2>6. \A k \in Reasons : counters'[k] = trimmed'[k] + Recorded(p, k)
    <3> SUFFICES ASSUME NEW k \in Reasons PROVE counters'[k] = trimmed'[k] + Recorded(p, k)
      OBVIOUS
    <3>1. PICK a, b : a = Recorded(recorded, k) /\ b = Recorded(p, k)
      OBVIOUS
    <3>2. a \in Nat /\ counters[k] = trimmed[k] + a /\ b = a + (IF r = k THEN 1 ELSE 0)
      BY <1>1, <1>3, <2>4, <3>1
    <3>3. trimmed[k] \in Nat /\ trimmed'[k] = trimmed[k]
      BY <1>0, <2>5
    <3> QED BY <1>2, <3>1, <3>2, <3>3
  <2>7. \A j \in DOMAIN p : p[j].reason = recorded[j].reason /\ p[j].object = recorded[j].object
    <3> SUFFICES ASSUME NEW j \in DOMAIN p
                 PROVE  p[j].reason = recorded[j].reason /\ p[j].object = recorded[j].object
      OBVIOUS
    <3>1. j \in DOMAIN recorded /\ recorded[j] \in Events
      BY <1>0, <2>4
    <3>2. p[j] = IF j = i THEN [recorded[j] EXCEPT !.count = @ + 1] ELSE recorded[j]
      BY <2>1, <2>3, <3>1
    <3>3. PICK x : x = recorded[j]
      OBVIOUS
    <3>4. [x EXCEPT !.count = @ + 1].reason = x.reason /\ [x EXCEPT !.count = @ + 1].object = x.object
      BY <3>1, <3>3 DEF Events
    <3> QED BY <3>2, <3>3, <3>4
  <2>8. RecordedOnce'
    <3>1. Len(p) <= maxEvents /\ DOMAIN p = DOMAIN recorded
      BY <1>0, <2>4
    <3>2. \A j, k \in DOMAIN p : p[j].reason = p[k].reason /\ p[j].object = p[k].object => j = k
      BY <2>7, <3>1 DEF EInv, EventsSafe, RecordedOnce
    <3> QED BY <2>3, <3>1, <3>2 DEF RecordedOnce
  <2> QED BY <1>0, <1>2, <2>3, <2>4, <2>5, <2>6, <2>8, CountsRecorded
         DEF EInv, RecorderTypeOK, EventsSafe
<1>5. CASE existingEvent(r, o) = {}
  <2>1. PICK e, q : e = [reason |-> r, object |-> o, count |-> 1] /\ q = Append(recorded, e)
    OBVIOUS
  <2>2. e \in Events /\ e.reason = r /\ e.object = o /\ e.count = 1
    BY <2>1 DEF Events
  <2>3. /\ q \in Seq(Events) /\ Len(q) = Len(recorded) + 1
        /\ \A k : Recorded(q, k) = Recorded(recorded, k) + (IF r = k THEN 1 ELSE 0)
    <3>1. PICK x : x = recorded
      OBVIOUS
    <3>2. x \in Seq(Events) /\ NewLast(q, x, e) /\ e \in Events
      BY <1>0, <2>1, <2>2, <3>1 DEF NewLast
    <3>3. /\ q \in Seq(Events) /\ Len(q) = Len(x) + 1
          /\ \A k : Recorded(q, k) = Recorded(x, k) + (IF e.reason = k THEN e.count ELSE 0)
      BY <3>2, RecordedNew
    <3> QED BY <2>2, <3>1, <3>3
  <2>4. /\ DOMAIN q = 1..Len(q) /\ q[Len(q)] = e
        /\ \A j \in DOMAIN recorded : q[j] = recorded[j]
    BY <1>0, <2>1, <2>3
  <2>5. \A j, k \in DOMAIN q : q[j].reason = q[k].reason /\ q[j].object = q[k].object => j = k
    <3>1. \A j \in DOMAIN recorded : ~ (recorded[j].reason = r /\ recorded[j].object = o)
      BY <1>5, FoundEvents DEF EInv
    <3>2. \A j \in DOMAIN q : j \in DOMAIN recorded \/ j = Len(q)
      BY <1>0, <2>3, <2>4
    <3> QED BY <2>2, <2>4, <3>1, <3>2 DEF EInv, EventsSafe, RecordedOnce
  <2>6. /\ recorded' = IF Len(q) > maxEvents
                       THEN SubSeq(q, Len(q) - maxEvents + 1, Len(q)) ELSE q
        /\ trimmed' = IF Len(q) > maxEvents
                      THEN [trimmed EXCEPT ![q[1].reason] = @ + q[1].count] ELSE trimmed
    BY <1>5, <2>1 DEF RecordEvent, Trim
  <2>7. \A k \in Reasons : counters'[k] = trimmed[k] + Recorded(q, k)
    <3> SUFFICES ASSUME NEW k \in Reasons PROVE counters'[k] = trimmed[k] + Recorded(q, k)
      OBVIOUS
    <3>1. PICK a, b : a = Recorded(recorded, k) /\ b = Recorded(q, k)
      OBVIOUS
    <3>2. a \in Nat /\ counters[k] = trimmed[k] + a /\ b = a + (IF r = k THEN 1 ELSE 0)
      BY <1>1, <1>3, <2>3, <3>1
    <3>3. trimmed[k] \in Nat
      BY <1>0
    <3> QED BY <1>2, <3>1, <3>2, <3>3
  <2>8. CASE ~ (Len(q) > maxEvents)
    <3>1. recorded' = q /\ trimmed' = trimmed
      BY <2>6, <2>8
    <3>2. RecordedOnce'
      BY <1>0, <2>3, <2>5, <2>8, <3>1 DEF RecordedOnce
    <3> QED BY <1>0, <1>2, <2>3, <2>7, <3>1, <3>2, CountsRecorded
           DEF EInv, RecorderTypeOK, EventsSafe
  <2>9. CASE Len(q) > maxEvents
    <3>0. Len(q) - maxEvents + 1 = 2
      BY <1>0, <2>3, <2>9
    <3>1. PICK p : p = SubSeq(q, 2, Len(q))
      OBVIOUS
    <3>2. recorded' = p /\ trimmed' = [trimmed EXCEPT ![q[1].reason] = @ + q[1].count]
      BY <2>6, <2>9, <3>0, <3>1
    <3>3. q # <<>>
      BY <1>0, <2>3
    <3>4. /\ p \in Seq(Events) /\ Len(p) = Len(q) - 1
          /\ \A i \in DOMAIN p : p[i] = q[i + 1]
          /\ \A k : Recorded(q, k) = Recorded(p, k) + (IF q[1].reason = k THEN q[1].count ELSE 0)
      <4>1. q \in Seq(Events) /\ q # <<>> /\ OldestGone(p, q)
        BY <2>3, <3>1, <3>3 DEF OldestGone
      <4> QED BY <4>1, RecordedTrimmed
    <3>5. q[1].reason \in Reasons /\ q[1].count \in Nat
      <4>1. q[1] \in Events
        BY <2>3, <3>3
      <4> QED BY <4>1 DEF Events
    <3>6. /\ trimmed' \in [Reasons -> Nat]
          /\ \A k \in Reasons : trimmed'[k] = trimmed[k] + (IF q[1].reason = k THEN q[1].count ELSE 0)
      <4>1. PICK c, m, x : c = q[1].reason /\ m = q[1].count /\ x = trimmed
        OBVIOUS
      <4>2. c \in Reasons /\ m \in Nat /\ x \in [Reasons -> Nat] /\ trimmed' = [x EXCEPT ![c] = @ + m]
        BY <1>0, <3>2, <3>5, <4>1
      <4>3. /\ trimmed' \in [Reasons -> Nat]
            /\ \A k \in Reasons : trimmed'[k] = x[k] + (IF c = k THEN m ELSE 0)
        BY <4>2
      <4> QED BY <4>1, <4>3
    <3>7. \A k \in Reasons : counters'[k] = trimmed'[k] + Recorded(p, k)
      <4> SUFFICES ASSUME NEW k \in Reasons PROVE counters'[k] = trimmed'[k] + Recorded(p, k)
        OBVIOUS
      <4>1. PICK a, b, c : /\ a = Recorded(p, k) /\ b = Recorded(q, k)
                           /\ c = IF q[1].reason = k THEN q[1].count ELSE 0
        OBVIOUS
      <4>2. a \in Nat /\ c \in Nat /\ b = a + c /\ counters'[k] = trimmed[k] + b
        BY <2>7, <3>4, <3>5, <4>1, OfFinite
      <4>3. trimmed[k] \in Nat /\ trimmed'[k] = trimmed[k] + c
        BY <1>0, <3>6, <4>1
      <4> QED BY <4>1, <4>2, <4>3
    <3>8. RecordedOnce'
      <4>1. DOMAIN p = 1..Len(p) /\ Len(p) \in Nat /\ Len(p) <= maxEvents
        BY <1>0, <2>3, <3>4
      <4>2. \A i \in DOMAIN p : i + 1 \in DOMAIN q /\ p[i] = q[i + 1]
        BY <1>0, <2>3, <2>4, <3>4, <4>1
      <4>3. \A i, j \in DOMAIN p : p[i].reason = p[j].reason /\ p[i].object = p[j].object => i + 1 = j + 1
        BY <2>5, <4>2
      <4>4. \A i, j \in DOMAIN p : i + 1 = j + 1 => i = j
        BY <4>1
      <4> QED BY <3>2, <4>1, <4>3, <4>4 DEF RecordedOnce
    <3> QED BY <1>2, <3>2, <3>4, <3>6, <3>7, <3>8, CountsRecorded
           DEF EInv, RecorderTypeOK, EventsSafe
  <2> QED BY <2>8, <2>9
<1> QED BY <1>4, <1>5

LEMMA RecorderInitInv == RecorderInit => EInv
<1> SUFFICES ASSUME RecorderInit PROVE EInv
  OBVIOUS
<1>1. RecorderTypeOK /\ RecordedOnce
  BY RecorderAssumption DEF RecorderInit, RecorderTypeOK, RecordedOnce
<1>2. \A r : Recorded(<<>>, r) = 0
  <2> SUFFICES ASSUME NEW r PROVE Recorded(<<>>, r) = 0
    OBVIOUS
  <2>1. Of(<<>>, r) = {}
    BY DEF Of
  <2> QED BY <2>1, SumEmpty DEF Recorded
<1>3. \A r \in Reasons : counters[r] = trimmed[r] + Recorded(recorded, r)
  BY <1>2 DEF RecorderInit
<1> QED BY <1>1, <1>3, CountsRecorded DEF EInv, EventsSafe

\* The event recorder never lists an event of an object twice, never keeps more than
\* maxEvents, and GetEventCount stays exact although the oldest events are trimmed.
THEOREM EventsAlwaysSafe == RecorderSpec => []EventsSafe
<1>1. RecorderInit => EInv
  BY RecorderInitInv
<1>2. EInv /\ [RecorderNext]_recorderVars => EInv'
  <2> SUFFICES ASSUME EInv, [RecorderNext]_recorderVars PROVE EInv'
    OBVIOUS
  <2>1. CASE RecorderNext
    BY <2>1, RecorderStep DEF RecorderNext
  <2>2. CASE UNCHANGED recorderVars
    <3>1. UNCHANGED <<recorded, counters, trimmed>>
      BY <2>2 DEF recorderVars
    <3>2. CountsAddUp'
      BY <3>1, CountsRecorded DEF EInv, EventsSafe
    <3> QED BY <3>1, <3>2 DEF EInv, RecorderTypeOK, EventsSafe, RecordedOnce
  <2> QED BY <2>1, <2>2
<1>3. EInv => EventsSafe
  BY DEF EInv
<1> QED BY <1>1, <1>2, <1>3, PTL DEF RecorderSpec

=============================================================================
