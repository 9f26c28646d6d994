------------------------------- MODULE Images -------------------------------
(***************************************************************************)
(* The image manager (pkg/image/manager.go): PullImage lets one caller     *)
(* pull an image while the others that want it wait for the same pull.     *)
(* im.mu is not held while containerd pulls.  The pull runs under the      *)
(* context of the caller that started it; those that wait do not look at   *)
(* their own.                                                              *)
(***************************************************************************)
EXTENDS FiniteSets

CONSTANTS
    Refs,      \* image references
    Pullers,   \* callers of PullImage
    NoPuller

ASSUME ImagesAssumption == NoPuller \notin Pullers

VARIABLES
    images,    \* im.cache
    pullers,   \* im.pullers: the caller whose pull of the image is under way
    calls,     \* where a caller is, what it wants, whose pull it waits for
    inDaemon,  \* the images that containerd has
    removed    \* history: images removed or pruned while a pull of them was under way

imageVars == <<images, pullers, calls, inDaemon, removed>>

Away == [at |-> "away", ref |-> NoPuller, waitsFor |-> NoPuller]

ImagesInit ==
    /\ images = {}
    /\ pullers = [r \in Refs |-> NoPuller]
    /\ calls = [c \in Pullers |-> Away]
    /\ inDaemon = {}
    /\ removed = {}

Becomes(c, where, r, w) ==
    calls' = [calls EXCEPT ![c] = [at |-> where, ref |-> r, waitsFor |-> w]]

\* For an image in the cache the call returns at once.
PullImage(c, r) ==
    /\ calls[c].at = "away" /\ r \notin images
    /\ IF pullers[r] = NoPuller
       THEN Becomes(c, "fetching", r, NoPuller) /\ pullers' = [pullers EXCEPT ![r] = c]
       ELSE Becomes(c, "waiting", r, pullers[r]) /\ UNCHANGED pullers
    /\ UNCHANGED <<images, inDaemon, removed>>

\* containerd has the image, and unpacks it.
Fetched(c) ==
    /\ calls[c].at = "fetching"
    /\ Becomes(c, "unpacking", calls[c].ref, NoPuller)
    /\ inDaemon' = inDaemon \cup {calls[c].ref}
    /\ UNCHANGED <<images, pullers, removed>>

\* close(task.Done): all that wait go on, and return what the pull returned.
Woken(c) == {d \in Pullers : calls[d].at = "waiting" /\ calls[d].waitsFor = c}

\* containerd fails, or the context of the caller is done.
PullFails(c) ==
    /\ calls[c].at \in {"fetching", "unpacking"}
    /\ pullers' = [pullers EXCEPT ![calls[c].ref] = NoPuller]
    /\ calls' = [d \in Pullers |-> IF d \in Woken(c) \cup {c} THEN Away ELSE calls[d]]
    /\ UNCHANGED <<images, inDaemon, removed>>

PullSucceeds(c) ==
    /\ calls[c].at = "unpacking"
    /\ images' = images \cup {calls[c].ref}
    /\ pullers' = [pullers EXCEPT ![calls[c].ref] = NoPuller]
    /\ calls' = [d \in Pullers |-> IF d \in Woken(c) \cup {c} THEN Away ELSE calls[d]]
    /\ UNCHANGED <<inDaemon, removed>>

\* Mutant: the entry stays in the cache.
RemoveImageKeeps(r) ==
    /\ r \in inDaemon
    /\ inDaemon' = inDaemon \ {r}
    /\ removed' = IF pullers[r] # NoPuller THEN removed \cup {r} ELSE removed
    /\ UNCHANGED <<images, pullers, calls>>

\* RemoveImage, and PruneImages for an image that was not used for long.  If
\* containerd does not have the image, the cache stays as it is.
RemoveImage(r) ==
    /\ r \in inDaemon
    /\ inDaemon' = inDaemon \ {r}
    /\ images' = images \ {r}
    /\ removed' = IF pullers[r] # NoPuller THEN removed \cup {r} ELSE removed
    /\ UNCHANGED <<pullers, calls>>

Pulling(c) == Fetched(c) \/ PullFails(c) \/ PullSucceeds(c)

ImagesNext ==
    \/ \E c \in Pullers : (\E r \in Refs : PullImage(c, r)) \/ Pulling(c)
    \/ \E r \in Refs : RemoveImage(r)

\* containerd's Pull returns.
ImagesFairness == \A c \in Pullers : WF_imageVars(Pulling(c))

ImagesSpec == ImagesInit /\ [][ImagesNext]_imageVars /\ ImagesFairness

-----------------------------------------------------------------------------
\* An image is pulled once at a time, and the pull can be found by the callers
\* that come meanwhile.
OnePull ==
    \A c \in Pullers : calls[c].at \in {"fetching", "unpacking"} => pullers[calls[c].ref] = c

\* An image in the cache is in containerd, unless it was removed while it was
\* pulled: nothing says so to the pull, which puts it into the cache all the same.
CachedExists == images \subseteq inDaemon \cup removed

\* Every call of PullImage returns, those that wait for another's pull too.
PullReturns == \A c \in Pullers : calls[c].at # "away" ~> calls[c].at = "away"

\* The image cache and containerd agree, and one pull serves all who ask for an
\* image meanwhile.
ImagesSafe == OnePull /\ CachedExists
=============================================================================
