------------------------------- MODULE Egress -------------------------------
(***************************************************************************)
(* The egress gateway (pkg/network/egress/gateway.go and policy.go).       *)
(* handleRequest runs in a goroutine per request, while policies are set   *)
(* and removed and the statistics are read; the counters are atomic, the   *)
(* map of policies and the audit log have a lock each.                     *)
(*                                                                         *)
(* A host and a pattern are sequences of labels; the pattern <<"*">>       *)
(* matches every host, <<"*", ...>> those that end in the rest.  Headers   *)
(* and credentials are left out but for the policy they are taken from.    *)
(***************************************************************************)
EXTENDS Integers, Sequences, FiniteSets, SequencesExt

CONSTANTS
    EgressRequests,  \* requests
    EgressBoxes,     \* sandbox IDs; "default" is the policy of the others
    EgressHosts,     \* hosts that requests are for
    PrivateHosts,    \* of these, those that are written as a private address
    EgressPolicies,  \* policies: allowed, denied, audit, blockPrivate
    NoPolicy,
    AuditSize,       \* AuditLogSize
    MaxPolicyChanges \* bound

ASSUME EgressAssumption ==
    /\ AuditSize \in Nat \ {0} /\ MaxPolicyChanges \in Nat
    /\ NoPolicy \notin EgressPolicies
    /\ IsFiniteSet(EgressRequests)
    /\ EgressHosts \subseteq Seq(STRING)
    /\ \A p \in EgressPolicies : p.allowed \cup p.denied \subseteq Seq(STRING) \ {<<>>}

VARIABLES
    policies,   \* g.policies
    changed,    \* changes of policies so far
    request,    \* where a request is, its sandbox and host, the policy it read
                \* and the one it took credentials from
    stats,      \* g.stats
    audit,      \* g.auditLog
    appended,   \* history: all that was appended to the audit log
    snapshot    \* GetStats: what it has loaded, and how far it is

egressVars == <<policies, changed, request, stats, audit, appended, snapshot>>

NoRequestYet == [at |-> "away", of |-> "default", host |-> <<>>, policy |-> NoPolicy, creds |-> NoPolicy]

EgressInit ==
    /\ policies = [b \in EgressBoxes \cup {"default"} |-> NoPolicy]
    /\ changed = 0
    /\ request = [r \in EgressRequests |-> NoRequestYet]
    /\ stats = [total |-> 0, allowed |-> 0, denied |-> 0, aborted |-> 0]
    /\ audit = <<>> /\ appended = <<>>
    /\ snapshot = [at |-> "idle", total |-> 0, allowed |-> 0, denied |-> 0]

-----------------------------------------------------------------------------
(* Policies *)

SetPolicy(b, p) ==
    /\ changed < MaxPolicyChanges /\ changed' = changed + 1
    /\ policies' = [policies EXCEPT ![b] = p]
    /\ UNCHANGED <<request, stats, audit, appended, snapshot>>

RemovePolicy(b) ==
    /\ changed < MaxPolicyChanges /\ changed' = changed + 1
    /\ policies[b] # NoPolicy
    /\ policies' = [policies EXCEPT ![b] = NoPolicy]
    /\ UNCHANGED <<request, stats, audit, appended, snapshot>>

\* A sandbox without a policy has the default one.
GetPolicy(b) ==
    IF policies[b] # NoPolicy THEN policies[b] ELSE policies["default"]

\* The wildcard stands for one label or more.
matchDomain(pattern, host) ==
    \/ pattern = <<"*">>
    \/ /\ Head(pattern) = "*" /\ Len(pattern) > 1
       /\ Len(host) >= Len(pattern)
       /\ IsSuffix(Tail(pattern), host)
    \/ pattern = host

isDomainAllowed(p, host) ==
    /\ ~ \E d \in p.denied : matchDomain(d, host)
    /\ p.allowed = {} \/ \E a \in p.allowed : matchDomain(a, host)

-----------------------------------------------------------------------------
(* handleRequest *)

Counts(k) == stats' = [stats EXCEPT ![k] = @ + 1]

\* When the log is full, a tenth of it, and at least one entry, goes first.
AppendAudit(e) ==
    LET drop == IF AuditSize \div 10 < 1 THEN 1 ELSE AuditSize \div 10 IN
    /\ audit' = Append(IF Len(audit) >= AuditSize THEN SubSeq(audit, drop + 1, Len(audit)) ELSE audit, e)
    /\ appended' = Append(appended, e)

Arrive(r, b, h) ==
    /\ request[r].at = "away"
    /\ request' = [request EXCEPT ![r] = [NoRequestYet EXCEPT !.at = "counted", !.of = b, !.host = h]]
    /\ Counts("total")
    /\ UNCHANGED <<policies, changed, audit, appended, snapshot>>

ReadPolicy(r) ==
    /\ request[r].at = "counted"
    /\ request' = [request EXCEPT ![r].at = "checks", ![r].policy = GetPolicy(request[r].of)]
    /\ UNCHANGED <<policies, changed, stats, audit, appended, snapshot>>

\* <<>> is a target that is no URL.
Allows(p, host) ==
    /\ host # <<>>
    /\ p # NoPolicy => /\ isDomainAllowed(p, host)
                       /\ p.blockPrivate => host \notin PrivateHosts

\* Every refusal is audited.
denyRequest(r) ==
    /\ request[r].at = "checks" /\ ~ Allows(request[r].policy, request[r].host)
    /\ request' = [request EXCEPT ![r].at = "denied"]
    /\ Counts("denied")
    /\ AppendAudit(r)
    /\ UNCHANGED <<policies, changed, snapshot>>

\* Mutant: the policy is looked up once more.
injectCredentialsAgain(r) ==
    /\ request[r].at = "checks" /\ Allows(request[r].policy, request[r].host)
    /\ request' = [request EXCEPT ![r].at = "proxied", ![r].creds = GetPolicy(request[r].of)]
    /\ UNCHANGED <<policies, changed, stats, audit, appended, snapshot>>

injectCredentials(r) ==
    /\ request[r].at = "checks" /\ Allows(request[r].policy, request[r].host)
    /\ request' = [request EXCEPT ![r].at = "proxied", ![r].creds = request[r].policy]
    /\ UNCHANGED <<policies, changed, stats, audit, appended, snapshot>>

\* ReverseProxy panics when the response breaks off: the handler ends there.
ProxyAborts(r) ==
    /\ request[r].at = "proxied"
    /\ request' = [request EXCEPT ![r].at = "done"]
    /\ Counts("aborted")
    /\ UNCHANGED <<policies, changed, audit, appended, snapshot>>

ProxyReturns(r) ==
    /\ request[r].at = "proxied"
    /\ request' = [request EXCEPT ![r].at = "audits"]
    /\ Counts("allowed")
    /\ UNCHANGED <<policies, changed, audit, appended, snapshot>>

AuditAllowed(r) ==
    /\ request[r].at = "audits"
    /\ request' = [request EXCEPT ![r].at = "done"]
    /\ IF request[r].policy # NoPolicy /\ request[r].policy.audit
       THEN AppendAudit(r) ELSE UNCHANGED <<audit, appended>>
    /\ UNCHANGED <<policies, changed, stats, snapshot>>

-----------------------------------------------------------------------------
(* GetStats loads one counter after the other. *)

GetStats ==
    /\ \/ /\ snapshot.at = "idle"
          /\ snapshot' = [at |-> "total", total |-> stats.total, allowed |-> 0, denied |-> 0]
       \/ /\ snapshot.at = "total"
          /\ snapshot' = [snapshot EXCEPT !.at = "allowed", !.allowed = stats.allowed]
       \/ /\ snapshot.at = "allowed"
          /\ snapshot' = [snapshot EXCEPT !.at = "returned", !.denied = stats.denied]
    /\ UNCHANGED <<policies, changed, request, stats, audit, appended>>

-----------------------------------------------------------------------------
Handle(r) ==
    \/ ReadPolicy(r) \/ denyRequest(r) \/ injectCredentials(r)
    \/ ProxyAborts(r) \/ ProxyReturns(r) \/ AuditAllowed(r)

\* The requests to the gateway itself that change something; the others read.
ServeHTTP ==
    \E b \in EgressBoxes \cup {"default"} :
        RemovePolicy(b) \/ \E p \in EgressPolicies : SetPolicy(b, p)

EgressNext ==
    \/ ServeHTTP
    \/ \E r \in EgressRequests :
          Handle(r) \/ \E b \in EgressBoxes, h \in EgressHosts : Arrive(r, b, h)
    \/ GetStats

EgressSpec == EgressInit /\ [][EgressNext]_egressVars

-----------------------------------------------------------------------------
\* The credentials that a request leaves with are those of the policy that let it
\* through: a policy that is set or removed while the request is handled neither
\* lends it credentials for a host it does not allow nor takes the check away.
OnePolicy ==
    \A r \in EgressRequests : request[r].at \in {"proxied", "audits"} =>
        LET p == request[r].creds
            h == request[r].host
            Within(d) == \/ d = h \/ d = <<"*">>
                         \/ /\ Head(d) = "*" /\ Len(d) > 1
                            /\ \E i \in 2..Len(h) : SubSeq(h, i, Len(h)) = Tail(d)
        IN  p # NoPolicy => /\ \A d \in p.denied : ~ Within(d)
                            /\ p.allowed # {} => \E d \in p.allowed : Within(d)
                            /\ p.blockPrivate => h \notin PrivateHosts

\* The counters add up: every request was allowed, was denied, broke off or is
\* still handled.
StatsAddUp ==
    stats.total = stats.allowed + stats.denied + stats.aborted
                  + Cardinality({r \in EgressRequests : request[r].at \in {"counted", "checks", "proxied"}})

\* The log has the latest entries, none missing in between, and as many as the
\* size allows but for the tenth that is dropped at a time.
AuditKeepsLatest ==
    /\ IsSuffix(audit, appended)
    /\ Len(audit) <= AuditSize
    /\ Len(audit) >= IF Len(appended) < AuditSize THEN Len(appended) ELSE AuditSize - (AuditSize \div 10)

\* A request is judged, given credentials, counted and logged by one policy,
\* although the policy may change while it is handled and the log is full.
EgressSafe == OnePolicy /\ StatsAddUp /\ AuditKeepsLatest
=============================================================================
