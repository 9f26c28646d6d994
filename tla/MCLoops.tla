------------------------------ MODULE MCLoops -------------------------------
(***************************************************************************)
(* Model checking of the parts with goroutines that must make progress:    *)
(* leader election, recovery and migration, configuration reload, the      *)
(* controllers, the CRI server, the template pools and the image cache.    *)
(*                                                                         *)
(* In the modules they have no state in common, so a behaviour of all of   *)
(* them together is, for each of them, a behaviour of it alone with        *)
(* stuttering steps: one is chosen at the start and the others stay as     *)
(* they are.                                                               *)
(***************************************************************************)
EXTENDS LeaderElection, StateRecovery, HotReload, Controllers, CRIServer,
        TemplatePool, Images

VARIABLE part

loopVars ==
    <<part, electionVars, recoveryVars, reloadVars, controllerVars, criVars,
      templateVars, imageVars>>

LoopsInit ==
    /\ part \in {"election", "recovery", "reload", "controllers", "cri", "templates", "images"}
    /\ ElectionInit /\ CRIInit /\ TemplateInit /\ ImagesInit
    /\ RecoveryInit
    /\ part # "recovery" => \A b \in Boxes : boxes[b] = NoRecord
    /\ part # "recovery" => \A h \in Hosts : hosts[h] = NoRecord
    /\ ReloadInit /\ (part # "reload" => disk = 0)
    /\ ControllersInit /\ (part # "controllers" => kind = "tenant")

LoopsNext ==
    /\ UNCHANGED part
    /\ \/ /\ part = "election" /\ ElectionNext
          /\ UNCHANGED <<recoveryVars, reloadVars, controllerVars, criVars,
                         templateVars, imageVars>>
       \/ /\ part = "recovery" /\ RecoveryNext
          /\ UNCHANGED <<electionVars, reloadVars, controllerVars, criVars,
                         templateVars, imageVars>>
       \/ /\ part = "reload" /\ ReloadNext
          /\ UNCHANGED <<electionVars, recoveryVars, controllerVars, criVars,
                         templateVars, imageVars>>
       \/ /\ part = "controllers" /\ ControllersNext
          /\ UNCHANGED <<electionVars, recoveryVars, reloadVars, criVars,
                         templateVars, imageVars>>
       \/ /\ part = "cri" /\ CRINext
          /\ UNCHANGED <<electionVars, recoveryVars, reloadVars,
                         controllerVars, templateVars, imageVars>>
       \/ /\ part = "templates" /\ TemplateNext
          /\ UNCHANGED <<electionVars, recoveryVars, reloadVars,
                         controllerVars, criVars, imageVars>>
       \/ /\ part = "images" /\ ImagesNext
          /\ UNCHANGED <<electionVars, recoveryVars, reloadVars,
                         controllerVars, criVars, templateVars>>

LoopsSpec ==
    /\ LoopsInit /\ [][LoopsNext]_loopVars
    /\ ElectionFairness /\ RecoveryFairness /\ ReloadFairness /\ ControllersFairness
    /\ CRIFairness /\ TemplateFairness /\ ImagesFairness

\* A change comes into effect: the last configuration that was saved, without a step
\* back on the way, and the last version of every object; and Stop ends those who
\* wait for changes.
ChangesApplied ==
    /\ NeverOlder
    /\ Converges
    /\ ReloaderStops
    /\ ObjectsApplied
    /\ WorkersEnd

\* What was begun comes to an end: a stopped leader's term, a migration, a handler
\* that has the server's lock, the refilling of a pool, a pull and those who wait
\* for it.
WorkEnds ==
    /\ StepsDown
    /\ MigrationEnds
    /\ LockReturned
    /\ Replenished
    /\ PullReturns
=============================================================================
