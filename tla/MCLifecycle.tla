---------------------------- MODULE MCLifecycle ----------------------------
(* Small instances of the lifecycle manager for TLC. *)
EXTENDS Lifecycle

MCRequest == [cpu |-> 1, instances |-> 1]

MCRequests == {MCRequest}

\* A tenant that may run two sandboxes at a time, without a rate limit.
MCSpecs ==
    {[hard |-> [d \in QuotaDims |-> 2], maxConcurrent |-> 2, maxPerDay |-> 0,
      rateLimit |-> NoTenant]}

MCSandbox(t, auto, lifetime) ==
    [tenant |-> t, request |-> MCRequest, autoDelete |-> auto, lifetime |-> lifetime]

\* A plain sandbox, and one that deletes itself and has a limited lifetime.
MCSandboxSpecs == UNION {{MCSandbox(t, FALSE, FALSE), MCSandbox(t, TRUE, TRUE)} : t \in Tenants}

\* The two moves of the table that no code makes, and the program as it stands.
MCAllMoves == {<<"Pending", "Scheduling">>, <<"Pausing", "Paused">>}
MCNoMoves == {}
=============================================================================
