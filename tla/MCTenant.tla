------------------------------ MODULE MCTenant ------------------------------
(* Small instances of the tenant accounts for TLC. *)
EXTENDS TenantClients, TLC

\* Two sizes of sandbox; the second one names no memory.
MCRequests == {[cpu |-> 1, memory |-> 2, instances |-> 1], [cpu |-> 2, instances |-> 1]}

Hard(cpu, memory, instances) ==
    [d \in QuotaDims |-> CASE d = "cpu" -> cpu [] d = "memory" -> memory
                           [] d = "instances" -> instances [] OTHER -> 0]

MCSpec(hard, concurrent, daily, rate) ==
    [hard |-> hard, maxConcurrent |-> concurrent, maxPerDay |-> daily, rateLimit |-> rate]

\* A tenant, the same tenant with a tighter quota and no rate limit, and an edit
\* that does not parse.
MCSpecs ==
    {MCSpec(Hard(3, 4, 2), 2, 2, [limit |-> 1, burst |-> 2]),
     MCSpec(Hard(2, 2, 2), 1, 0, NoTenant),
     MCSpec(Unparsable, 2, 0, NoTenant)}

MCSymmetry == Permutations(Sandboxes) \cup Permutations(Nodes)
=============================================================================
