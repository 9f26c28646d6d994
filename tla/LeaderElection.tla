--------------------------- MODULE LeaderElection ---------------------------
(***************************************************************************)
(* Leader election over etcd (pkg/ha/election/leader.go).  Every instance  *)
(* runs the loop of Run: campaign, lead until the session is lost, make a  *)
(* new session, and again.  Stop is called by another goroutine and acts   *)
(* in three steps.  etcd and its concurrency package are external: a key   *)
(* per lease, the oldest key leads, keys vanish with their lease, and the  *)
(* client learns of the end of its lease later than etcd.                  *)
(***************************************************************************)
EXTENDS Integers, FiniteSets

CONSTANTS
    Instances,
    MaxRevision \* bound on the keys that are put

ASSUME ElectionAssumption == MaxRevision \in Nat

VARIABLES
    at,       \* where Run is
    leading,  \* between OnStartedLeading and OnStoppedLeading
    leaderCh, \* le.leaderCh holds a value that nobody has taken
    lease,    \* whether the lease of le.session is live, at etcd
    done,     \* le.session.Done() is closed
    keyRev,      \* the revision of the key of the lease, 0 when there is none
    myRev,    \* the revision the campaign waits with (election.leaderRev)
    stop,     \* how far Stop is
    revision  \* of etcd

electionVars == <<at, leading, leaderCh, lease, done, keyRev, myRev, stop, revision>>

Keys == {i \in Instances : keyRev[i] # 0}

\* No key is older than revision r.
Oldest(r) == \A j \in Keys : keyRev[j] >= r

\* NewLeaderElection
ElectionInit ==
    /\ at = [i \in Instances |-> "loop"]
    /\ leading = [i \in Instances |-> FALSE]
    /\ leaderCh = [i \in Instances |-> FALSE]
    /\ lease = [i \in Instances |-> TRUE]
    /\ done = [i \in Instances |-> FALSE]
    /\ keyRev = [i \in Instances |-> 0]
    /\ myRev = [i \in Instances |-> 0]
    /\ stop = [i \in Instances |-> "no"]
    /\ revision = 0

-----------------------------------------------------------------------------
(* Run *)

\* The stop channel is closed: OnStoppedLeading, and Run returns.
RunStops(i) ==
    /\ at[i] = "loop" /\ stop[i] # "no"
    /\ at' = [at EXCEPT ![i] = "over"]
    /\ leading' = [leading EXCEPT ![i] = FALSE]
    /\ UNCHANGED <<leaderCh, lease, done, keyRev, myRev, stop, revision>>

\* election.Campaign puts a key for the lease, or finds the one it has put
\* before.  Without a lease it fails, Run sleeps, and comes back here.
Campaign(i) ==
    /\ at[i] = "loop" /\ stop[i] = "no" /\ lease[i]
    /\ revision < MaxRevision
    /\ IF keyRev[i] = 0
       THEN /\ revision' = revision + 1
            /\ keyRev' = [keyRev EXCEPT ![i] = revision + 1]
            /\ myRev' = [myRev EXCEPT ![i] = revision + 1]
       ELSE /\ myRev' = [myRev EXCEPT ![i] = keyRev[i]]
            /\ UNCHANGED <<revision, keyRev>>
    /\ at' = [at EXCEPT ![i] = "campaign"]
    /\ UNCHANGED <<leading, leaderCh, lease, done, stop>>

\* Mutant: the campaign waits for the leader of the day only.
WinsEarly(i) ==
    /\ at[i] = "campaign"
    /\ Cardinality({j \in Keys : keyRev[j] < myRev[i]}) <= 1
    /\ at' = [at EXCEPT ![i] = "elected"]
    /\ UNCHANGED <<leading, leaderCh, lease, done, keyRev, myRev, stop, revision>>

\* Campaign returns when every older key is gone, whether or not its own is
\* still there.
Wins(i) ==
    /\ at[i] = "campaign"
    /\ Oldest(myRev[i])
    /\ at' = [at EXCEPT ![i] = "elected"]
    /\ UNCHANGED <<leading, leaderCh, lease, done, keyRev, myRev, stop, revision>>

\* The wait fails; the key stays.
CampaignFails(i) ==
    /\ at[i] = "campaign"
    /\ at' = [at EXCEPT ![i] = "loop"]
    /\ UNCHANGED <<leading, leaderCh, lease, done, keyRev, myRev, stop, revision>>

\* leaderCh <- true blocks while it is full; then OnNewLeader and
\* OnStartedLeading.
Lead(i) ==
    /\ at[i] = "elected" /\ ~ leaderCh[i]
    /\ leaderCh' = [leaderCh EXCEPT ![i] = TRUE]
    /\ leading' = [leading EXCEPT ![i] = TRUE]
    /\ at' = [at EXCEPT ![i] = "leading"]
    /\ UNCHANGED <<lease, done, keyRev, myRev, stop, revision>>

\* session.Done(): OnStoppedLeading
SessionLost(i) ==
    /\ at[i] = "leading" /\ done[i]
    /\ leading' = [leading EXCEPT ![i] = FALSE]
    /\ at' = [at EXCEPT ![i] = "renew"]
    /\ UNCHANGED <<leaderCh, lease, done, keyRev, myRev, stop, revision>>

\* A new session and a new election, or an error and the end of Run.
Renew(i) ==
    /\ at[i] = "renew"
    /\ \/ /\ lease' = [lease EXCEPT ![i] = TRUE]
          /\ done' = [done EXCEPT ![i] = FALSE]
          /\ at' = [at EXCEPT ![i] = "loop"]
       \/ /\ at' = [at EXCEPT ![i] = "over"]
          /\ UNCHANGED <<lease, done>>
    /\ UNCHANGED <<leading, leaderCh, keyRev, myRev, stop, revision>>

-----------------------------------------------------------------------------
(* Stop, the reader of LeaderCh, and etcd *)

\* Stop: close(stopCh) ...
StopAsked(i) ==
    /\ stop[i] = "no"
    /\ stop' = [stop EXCEPT ![i] = "asked"]
    /\ UNCHANGED <<at, leading, leaderCh, lease, done, keyRev, myRev, revision>>

\* ... Resign, which does nothing after a campaign that has failed ...
Resign(i) ==
    /\ stop[i] = "asked"
    /\ stop' = [stop EXCEPT ![i] = "resigned"]
    /\ keyRev' = IF at[i] = "loop" THEN keyRev ELSE [keyRev EXCEPT ![i] = 0]
    /\ UNCHANGED <<at, leading, leaderCh, lease, done, myRev, revision>>

\* ... and session.Close, which revokes the lease.
CloseSession(i) ==
    /\ stop[i] = "resigned"
    /\ stop' = [stop EXCEPT ![i] = "closed"]
    /\ lease' = [lease EXCEPT ![i] = FALSE]
    /\ done' = [done EXCEPT ![i] = TRUE]
    /\ keyRev' = [keyRev EXCEPT ![i] = 0]
    /\ UNCHANGED <<at, leading, leaderCh, myRev, revision>>

\* Somebody reads LeaderCh.
ReadLeaderCh(i) ==
    /\ leaderCh[i]
    /\ leaderCh' = [leaderCh EXCEPT ![i] = FALSE]
    /\ UNCHANGED <<at, leading, lease, done, keyRev, myRev, stop, revision>>

\* The lease runs out: a partition, a pause of the process.
LeaseExpires(i) ==
    /\ lease[i]
    /\ lease' = [lease EXCEPT ![i] = FALSE]
    /\ keyRev' = [keyRev EXCEPT ![i] = 0]
    /\ UNCHANGED <<at, leading, leaderCh, done, myRev, stop, revision>>

\* The client's keepalive learns of it.
SessionDone(i) ==
    /\ ~ lease[i] /\ ~ done[i]
    /\ done' = [done EXCEPT ![i] = TRUE]
    /\ UNCHANGED <<at, leading, leaderCh, lease, keyRev, myRev, stop, revision>>

Run(i) ==
    \/ RunStops(i) \/ Campaign(i) \/ Wins(i) \/ CampaignFails(i)
    \/ Lead(i) \/ SessionLost(i) \/ Renew(i)

StopStep(i) == StopAsked(i) \/ Resign(i) \/ CloseSession(i)

ElectionNext ==
    \E i \in Instances :
        Run(i) \/ StopStep(i) \/ ReadLeaderCh(i) \/ LeaseExpires(i) \/ SessionDone(i)

ElectionSpec == ElectionInit /\ [][ElectionNext]_electionVars

\* The goroutine of Run, the keepalive and a Stop that was called go on.
\* Nothing makes etcd answer a campaign, and nothing makes leases expire.
ElectionFairness ==
    \A i \in Instances :
        /\ WF_electionVars(RunStops(i) \/ SessionLost(i) \/ Renew(i))
        /\ WF_electionVars(SessionDone(i))
        /\ WF_electionVars(Resign(i) \/ CloseSession(i))

-----------------------------------------------------------------------------
(* Properties *)

\* An instance that acts as leader, has its lease and was not told to stop
\* owns the oldest key; so there is one such instance at most, whatever
\* expires, fails or is stopped meanwhile.  (One whose lease has expired
\* without its knowledge may act beside it.)
OneLeader ==
    \A i \in Instances :
        (leading[i] /\ lease[i] /\ stop[i] = "no") =>
            /\ keyRev[i] # 0 /\ Oldest(keyRev[i])
            /\ \A j \in Instances \ {i} : ~ (leading[j] /\ lease[j] /\ stop[j] = "no")

\* An instance that was stopped, or has lost its lease, stops leading: its
\* session ends and Run calls OnStoppedLeading.
StepsDown ==
    \A i \in Instances :
        (leading[i] /\ (~ lease[i] \/ stop[i] # "no")) ~> ~ leading[i]
=============================================================================
