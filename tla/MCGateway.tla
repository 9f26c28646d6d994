----------------------------- MODULE MCGateway ------------------------------
(***************************************************************************)
(* Model checking of what the gateway runs for its clients: shell          *)
(* sessions, programs and dev tools.  The three have no state in           *)
(* common, so a behaviour of all of them together is, for each of them, a  *)
(* behaviour of it alone with stuttering steps: one is chosen at the start *)
(* and the others stay as they are.                                        *)
(***************************************************************************)
EXTENDS ShellSessions, CodeExecution, DevTools

VARIABLE part

gatewayVars ==
    <<part, sessionVars, codeVars, toolVars>>

GatewayInit ==
    /\ part \in {"sessions", "code", "tools"}
    /\ SessionInit /\ CodeInit /\ DevToolInit

GatewayNext ==
    /\ UNCHANGED part
    /\ \/ /\ part = "sessions" /\ SessionNext
          /\ UNCHANGED <<codeVars, toolVars>>
       \/ /\ part = "code" /\ CodeNext
          /\ UNCHANGED <<sessionVars, toolVars>>
       \/ /\ part = "tools" /\ DevToolNext
          /\ UNCHANGED <<sessionVars, codeVars>>

GatewaySpec ==
    /\ GatewayInit /\ [][GatewayNext]_gatewayVars
    /\ SessionFairness /\ CodeFairness /\ DevToolFairness

\* What the gateway has begun for a client comes to an end: shells and their
\* sessions, code requests, and the start of a dev tool.
GatewayProgress == ShellsEnd /\ RequestAnswered /\ PendingResolves
=============================================================================
