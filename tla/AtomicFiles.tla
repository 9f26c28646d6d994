---------------------------- MODULE AtomicFiles ----------------------------
(***************************************************************************)
(* What the gateway's file service promises of the files of a workspace:   *)
(* a write replaces the contents of a file in one step, or not at all, and *)
(* so do moves and deletions.  "Write handles file write requests with     *)
(* atomic write semantics" (pkg/gateway/file_service.go).                  *)
(***************************************************************************)
CONSTANTS
    Files,  \* the files of the workspace
    Values, \* contents
    Absent  \* what is found where there is no file

VARIABLE contents

Put(p) == \E v \in Values : contents' = [contents EXCEPT ![p] = v]

Take(p) == contents' = [contents EXCEPT ![p] = Absent]

MoveTo(p, q) ==
    /\ contents[p] # Absent
    /\ contents' = [contents EXCEPT ![q] = contents[p], ![p] = Absent]

AtomicInit == contents \in [Files -> Values \cup {Absent}]

AtomicNext ==
    \/ \E p \in Files : Put(p) \/ Take(p)
    \/ \E p, q \in Files : p # q /\ MoveTo(p, q)

AtomicSpec == AtomicInit /\ [][AtomicNext]_contents
=============================================================================
