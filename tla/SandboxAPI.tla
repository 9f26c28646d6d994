----------------------------- MODULE SandboxAPI -----------------------------
(***************************************************************************)
(* Sandboxes made through the gateway: the E2B compatible service          *)
(* (pkg/gateway/e2b_service.go), the native one (sandbox_service.go) and   *)
(* the templates (template_service.go, pkg/template/manager.go).  Of a     *)
(* template the list of environment variables is kept, as a Go slice over  *)
(* an array: a sandbox made from the template has the same array, and      *)
(* append writes into it when it has room.  The template manager hands     *)
(* out pointers and the lifecycle manager keeps the pointer it is given,   *)
(* so nothing copies the array.                                            *)
(***************************************************************************)
EXTENDS Naturals, Sequences

CONSTANTS
    TemplateNames,
    ApiRequests,     \* POST requests to either service, and their variable
    SandboxNames,    \* names a client gives, and names made from the clock
    Spare,           \* room behind the variables of a template: capacity - length
    MaxArrays        \* bound: arrays allocated

ASSUME ApiAssumption == Spare \in Nat /\ MaxArrays \in Nat

VARIABLES
    templates,       \* m.templates: the array of the template's variables, 0 for no template
    arrays,          \* the arrays allocated so far
    apiRequests,     \* POST requests and where they are
    apiSandboxes     \* lm.sandboxes

apiVars == <<templates, arrays, apiRequests, apiSandboxes>>

\* The slice of no variables at all.
NoEnv == [arr |-> 0, len |-> 0]

NewRequest == [at |-> "new", name |-> 0, env |-> NoEnv, want |-> <<>>]

ApiAnswered == [NewRequest EXCEPT !.at = "answered"]

ApiInit ==
    /\ templates = [t \in TemplateNames |-> 0]
    /\ arrays = <<>>
    /\ apiRequests = [r \in ApiRequests |-> NewRequest]
    /\ apiSandboxes = {}

-----------------------------------------------------------------------------
(* Templates                                                               *)

\* json.Unmarshal makes a new array; it holds one variable, which is told from
\* the variables of other arrays by the number of the array.
Decoded == Append(arrays, <<Len(arrays) + 1>>)

CreateTemplate(t) ==
    /\ templates[t] = 0 /\ Len(arrays) < MaxArrays
    /\ arrays' = Decoded
    /\ templates' = [templates EXCEPT ![t] = Len(arrays) + 1]
    /\ UNCHANGED <<apiRequests, apiSandboxes>>

\* Mutant: the update is written into the template that is there.
UpdateTemplateInPlace(t) ==
    /\ templates[t] # 0 /\ Len(arrays) < MaxArrays
    /\ arrays' = [Decoded EXCEPT ![templates[t]] = <<Len(arrays) + 1>>]
    /\ UNCHANGED <<templates, apiRequests, apiSandboxes>>

\* The template is replaced; the one before stays as it is for those that have it.
UpdateTemplate(t) ==
    /\ templates[t] # 0 /\ Len(arrays) < MaxArrays
    /\ arrays' = Decoded
    /\ templates' = [templates EXCEPT ![t] = Len(arrays) + 1]
    /\ UNCHANGED <<apiRequests, apiSandboxes>>

DeleteTemplate(t) ==
    /\ templates[t] # 0
    /\ templates' = [templates EXCEPT ![t] = 0]
    /\ UNCHANGED <<arrays, apiRequests, apiSandboxes>>

-----------------------------------------------------------------------------
(* Sandboxes                                                               *)

Env(s) == IF s.arr = 0 THEN <<>> ELSE SubSeq(arrays[s.arr], 1, s.len)

\* What a sandbox of a template starts with; a template that does not exist is
\* as good as none.
e2bApplyTemplate(t) == IF templates[t] = 0 THEN NoEnv ELSE [arr |-> templates[t], len |-> 1]

\* POST /e2b/v1/sandboxes with or without a template.  The name is made from the
\* clock, the namespace is left empty.
createSandbox(r) ==
    /\ apiRequests[r].at = "new"
    /\ \E n \in SandboxNames, e \in {NoEnv} \cup {e2bApplyTemplate(t) : t \in TemplateNames} :
           apiRequests' = [apiRequests EXCEPT ![r] =
               [at |-> "applied", name |-> n, env |-> e, want |-> Env(e)]]
    /\ UNCHANGED <<templates, arrays, apiSandboxes>>

\* sb.Spec.Env = append(sb.Spec.Env, ...): into the array if it has room, else
\* into a larger copy.
AppendEnv(r) ==
    LET s == apiRequests[r].env IN
    /\ apiRequests[r].at = "applied"
    /\ IF s.arr # 0 /\ s.len < 1 + Spare
       THEN /\ arrays' = [arrays EXCEPT ![s.arr] = Append(SubSeq(@, 1, s.len), r)]
            /\ apiRequests' = [apiRequests EXCEPT ![r].at = "built", ![r].want = Append(@, r),
                                                  ![r].env.len = @ + 1]
       ELSE /\ Len(arrays) < MaxArrays
            /\ arrays' = Append(arrays, Append(Env(s), r))
            /\ apiRequests' = [apiRequests EXCEPT ![r].at = "built", ![r].want = Append(@, r),
                                                  ![r].env = [arr |-> Len(arrays) + 1, len |-> s.len + 1]]
    /\ UNCHANGED <<templates, apiSandboxes>>

NoEnvVars(r) ==
    /\ apiRequests[r].at = "applied"
    /\ apiRequests' = [apiRequests EXCEPT ![r].at = "built"]
    /\ UNCHANGED <<templates, arrays, apiSandboxes>>

Known(ns, n) == \E s \in apiSandboxes : s.ns = ns /\ s.name = n

\* The lifecycle manager refuses a name it has, and what the tenant may not have.
CreateRefused(r) ==
    /\ apiRequests[r].at = "built"
    /\ apiRequests' = [apiRequests EXCEPT ![r] = ApiAnswered]
    /\ UNCHANGED <<templates, arrays, apiSandboxes>>

Created(r, ns) ==
    /\ ~Known(ns, apiRequests[r].name)
    /\ apiSandboxes' = apiSandboxes \cup
           {[ns |-> ns, name |-> apiRequests[r].name, env |-> apiRequests[r].env, want |-> apiRequests[r].want]}
    /\ apiRequests' = [apiRequests EXCEPT ![r] = ApiAnswered]
    /\ UNCHANGED <<templates, arrays>>

CreateSandbox(r) == apiRequests[r].at = "built" /\ Created(r, "")

\* POST of a whole sandbox to the native service, with variables of its own; the
\* namespace is "default" unless the client names one.
NativeDecoded(r) ==
    /\ apiRequests[r].at = "new" /\ Len(arrays) < MaxArrays
    /\ arrays' = Append(arrays, <<r>>)
    /\ \E n \in SandboxNames :
           apiRequests' = [apiRequests EXCEPT ![r] =
               [at |-> "native", name |-> n, env |-> [arr |-> Len(arrays) + 1, len |-> 1], want |-> <<r>>]]
    /\ UNCHANGED <<templates, apiSandboxes>>

NativeCreate(r) == apiRequests[r].at = "native" /\ Created(r, "default")

\* DELETE of the native service, and the end of a sandbox for any other reason.
NativeDelete(ns, n) ==
    /\ Known(ns, n)
    /\ apiSandboxes' = {s \in apiSandboxes : s.ns # ns \/ s.name # n}
    /\ UNCHANGED <<templates, arrays, apiRequests>>

\* DELETE /e2b/v1/sandboxes/{id}: what the lifecycle manager says is logged, the
\* answer is 204.
killSandbox(n) ==
    /\ apiSandboxes' = {s \in apiSandboxes : s.ns # "default" \/ s.name # n}
    /\ UNCHANGED <<templates, arrays, apiRequests>>

ApiNext ==
    \/ \E t \in TemplateNames : CreateTemplate(t) \/ UpdateTemplate(t) \/ DeleteTemplate(t)
    \/ \E r \in ApiRequests :
        \/ createSandbox(r) \/ AppendEnv(r) \/ NoEnvVars(r) \/ CreateRefused(r) \/ CreateSandbox(r)
        \/ NativeDecoded(r) \/ NativeCreate(r)
    \/ \E n \in SandboxNames : killSandbox(n) \/ \E ns \in {"", "default"} : NativeDelete(ns, n)

ApiSpec == ApiInit /\ [][ApiNext]_apiVars

-----------------------------------------------------------------------------
\* A sandbox has the variables of the template as it was when the sandbox was
\* requested, and those of its own request: neither another request nor a later
\* change of the template reaches them.
EnvKept == \A s \in apiSandboxes : Env(s.env) = s.want
=============================================================================
