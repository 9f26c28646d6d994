-------------------------- MODULE NodeAgentProofs ---------------------------
(***************************************************************************)
(* Proofs about the node agent.  What the runs check is inductive together *)
(* with three facts: a map entry is for a sandbox of its key (Keyed), the  *)
(* goroutines of DeleteSandbox work for sandboxes it was called for        *)
(* (Marked), and the stages of CreateSandbox have been done one by one     *)
(* (Equipped); what is persisted is both in memory and on disk (Recorded). *)
(* The last parts are about what a node hands out and reports: addresses,  *)
(* GPUs and bandwidth, heartbeats and probes; about the image manager and  *)
(* the CRI server; and about the pools of sandboxes made from a template.  *)
(***************************************************************************)
EXTENDS NodeAgent, NodeDevices, NodeReports, Images, CRIServer, TemplatePool,
        RecursionTheorems, SequenceTheorems

Bounded == Len(objects) <= MaxObjects /\ (creating # "idle" => Len(objects) >= 1)

Keyed ==
    /\ \A k \in Keys : sandboxes[k] # 0 => objects[sandboxes[k]].key = k
    /\ \A k \in Keys : watchers[k] # 0 => objects[watchers[k]].key = k

Marked ==
    /\ \A o \in Objects : \A pc \in Steps : deletes[o][pc] > 0 => objects[o].deleted
    /\ \A o \in 1..MaxObjects : o \notin Objects => \A pc \in Steps : deletes[o][pc] = 0

\* o is not, or not any more, the sandbox that CreateSandbox is at one of the steps of.
Past(o, steps) == o # New \/ creating \notin steps

Equipped ==
    \A k \in Keys : sandboxes[k] # 0 =>
        LET o == sandboxes[k] IN
        OnlyOfItsName(o) /\ ~ objects[o].deleted =>
            /\ Past(o, {"limits"}) => k \in limits
            /\ Past(o, {"limits", "store"}) => stored[NameOf[k]] = o
            /\ Past(o, {"limits", "store", "log"}) => NameOf[k] \in writers

Recorded ==
    \A o \in Objects :
        objects[o].persisted /\ ~ objects[o].deleted /\ OnlyOfItsName(o) =>
            stored[Name(o)] = o /\ disk[Name(o)] = o

NInv ==
    /\ AgentTypeOK
    /\ Bounded
    /\ Keyed
    /\ Marked
    /\ OwnWhitelist
    /\ WatcherOpen
    /\ Equipped
    /\ Recorded
-----------------------------------------------------------------------------
(* The sandboxes *)

\* What a step that only marks a sandbox leaves alone.
Same ==
    /\ objects' \in Seq(LocalSandbox)
    /\ Len(objects') = Len(objects)
    /\ \A o \in Objects : /\ objects'[o].key = objects[o].key
                          /\ objects'[o].deleted = objects[o].deleted
                          /\ objects'[o].persisted = objects[o].persisted

LEMMA FunctionIsSeq ==
    ASSUME NEW S, NEW n \in Nat, NEW f \in [1..n -> S]
    PROVE  f \in Seq(S) /\ Len(f) = n
OBVIOUS

LEMMA ObjectIsObj ==
    ASSUME AgentTypeOK, NEW o \in Objects
    PROVE  /\ objects[o] \in LocalSandbox
           /\ objects[o].key \in Keys
           /\ objects[o].deleted \in BOOLEAN
           /\ Name(o) \in Names
<1>0. objects \in Seq(LocalSandbox)
  BY DEF AgentTypeOK
<1>1. objects[o] \in LocalSandbox
  BY <1>0 DEF Objects
<1> QED BY <1>1, NameAssumption DEF LocalSandbox, Name

LEMMA SetStateSame ==
    ASSUME AgentTypeOK, NEW o \in Objects, NEW state \in States, SetState(o, state)
    PROVE  Same
<1>1. objects \in Seq(LocalSandbox) /\ objects[o] \in LocalSandbox
  BY ObjectIsObj DEF AgentTypeOK
<1>2. objects' = [objects EXCEPT ![o] = [objects[o] EXCEPT !.state = state]]
  BY DEF SetState
<1>3. [objects[o] EXCEPT !.state = state] \in LocalSandbox
  BY <1>1 DEF LocalSandbox
<1>4. objects' \in Seq(LocalSandbox) /\ Len(objects') = Len(objects)
  BY <1>1, <1>2, <1>3 DEF Objects
<1>5. ASSUME NEW p \in Objects
      PROVE  /\ objects'[p].key = objects[p].key
             /\ objects'[p].deleted = objects[p].deleted
             /\ objects'[p].persisted = objects[p].persisted
  <2>1. CASE p = o
    BY <1>1, <1>2, <2>1 DEF LocalSandbox, Objects
  <2>2. CASE p # o
    BY <1>1, <1>2, <2>2 DEF Objects
  <2> QED BY <2>1, <2>2
<1> QED BY <1>4, <1>5 DEF Same

LEMMA UnchangedSame ==
    ASSUME AgentTypeOK, UNCHANGED objects
    PROVE  Same
BY DEF Same, AgentTypeOK

\* The names of the sandboxes do not change.
LEMMA SameNames ==
    ASSUME AgentTypeOK, Same
    PROVE  /\ Objects' = Objects
           /\ New' = New
           /\ \A o \in Objects : Name(o)' = Name(o)
           /\ \A o \in Objects : OnlyOfItsName(o)' <=> OnlyOfItsName(o)
<1>1. Objects' = Objects /\ New' = New
  BY DEF Same, Objects, New
<1>2. \A o \in Objects : Name(o)' = Name(o)
  BY DEF Same, Name
<1> QED BY <1>1, <1>2 DEF OnlyOfItsName

\* Two sandboxes of one key have one name.
LEMMA OnlyOne ==
    ASSUME NEW o \in Objects, NEW p \in Objects, OnlyOfItsName(o), Name(p) = Name(o)
    PROVE  p = o
BY DEF OnlyOfItsName

\* A step that only marks a sandbox and changes who sleeps keeps everything.
LEMMA MarkKeeps ==
    ASSUME NInv, Same, starts' \subseteq Objects, stops' \subseteq Objects,
           UNCHANGED <<sandboxes, whitelists, creating, limitVars, storeVars, deletes, writers>>
    PROVE  NInv'
<1>0. AgentTypeOK
  BY DEF NInv
<1>1. /\ Objects' = Objects /\ New' = New
      /\ \A o \in Objects : Name(o)' = Name(o)
      /\ \A o \in Objects : OnlyOfItsName(o)' <=> OnlyOfItsName(o)
  BY <1>0, SameNames
<1>2. AgentTypeOK'
  BY <1>0, <1>1 DEF AgentTypeOK, Same, limitVars, storeVars
<1>3. Bounded' /\ OwnWhitelist' /\ WatcherOpen'
  BY DEF NInv, Bounded, OwnWhitelist, WatcherOpen, Managed, Same, limitVars
<1>4. \A k \in Keys : sandboxes[k] \in Objects \cup {0} /\ watchers[k] \in Objects \cup {0}
  BY <1>0 DEF AgentTypeOK
<1>5. Keyed'
  BY <1>4 DEF NInv, Keyed, Same, limitVars
<1>6. Marked'
  BY <1>1 DEF NInv, Marked, Same
<1>7. Equipped'
  BY <1>1, <1>4 DEF NInv, Equipped, Past, Same, limitVars, storeVars
<1>8. Recorded'
  BY <1>1 DEF NInv, Recorded, Same, storeVars
<1> QED BY <1>2, <1>3, <1>5, <1>6, <1>7, <1>8 DEF NInv

-----------------------------------------------------------------------------
(* CreateSandbox *)

LEMMA CreateStep ==
    ASSUME NInv, NEW k \in Keys, CreateSandbox(k)
    PROVE  NInv'
<1> DEFINE new == [key |-> k, state |-> "creating", deleted |-> FALSE, persisted |-> FALSE]
<1>0. /\ AgentTypeOK /\ objects \in Seq(LocalSandbox) /\ Len(objects) \in Nat
      /\ Len(objects) < MaxObjects /\ MaxObjects \in Nat
  <2>1. objects \in Seq(LocalSandbox)
    BY DEF NInv, AgentTypeOK
  <2> QED BY <2>1, AgentBounds DEF NInv, CreateSandbox, New
<1>1. new \in LocalSandbox /\ objects' = Append(objects, new)
  BY DEF LocalSandbox, States, CreateSandbox
<1>2. /\ objects' \in Seq(LocalSandbox) /\ Len(objects') = Len(objects) + 1
      /\ \A o \in Objects : objects'[o] = objects[o]
      /\ objects'[Len(objects) + 1] = new
  BY <1>0, <1>1 DEF Objects
<1>2a. /\ objects'[New'].key = k /\ ~ objects'[New'].deleted /\ ~ objects'[New'].persisted
  BY <1>2 DEF New
<1> HIDE DEF new
<1>2c. \A o \in Objects : objects'[o] = objects[o]
  BY <1>2
<1>2b. Len(objects') <= MaxObjects /\ Len(objects') >= 1
  BY <1>0, <1>2
<1>3. /\ Objects' = Objects \cup {New'} /\ New' = New + 1 /\ New' \notin Objects
      /\ New' \in 1..MaxObjects /\ New' # 0
  BY <1>0, <1>2 DEF Objects, New
<1>4. \A o \in Objects : Name(o)' = Name(o)
  BY <1>2 DEF Name
<1>5. \A o \in Objects : OnlyOfItsName(o)' => OnlyOfItsName(o)
  BY <1>3, <1>4 DEF OnlyOfItsName
<1>6. AgentTypeOK'
  BY <1>0, <1>2, <1>3 DEF AgentTypeOK, CreateSandbox, limitVars, storeVars, goVars, New
<1>7. Bounded'
  BY <1>2b DEF Bounded
<1>8. \A j \in Keys : sandboxes[j] \in Objects \cup {0} /\ watchers[j] \in Objects \cup {0}
  BY <1>0 DEF AgentTypeOK
<1>9. /\ \A j \in Keys : sandboxes'[j] = IF j = k THEN New' ELSE sandboxes[j]
      /\ \A j \in Keys : whitelists'[j] = IF j = k THEN New' ELSE whitelists[j]
      /\ creating = "idle" /\ creating' = "limits"
      /\ UNCHANGED <<limits, watchers, watching, stored, disk, deletes, writers>>
  BY <1>0, <1>3 DEF AgentTypeOK, CreateSandbox, limitVars, storeVars, goVars, Unlocked
<1>10. Keyed'
  <2>0. Keyed
    BY DEF NInv
  <2>1. ASSUME NEW j \in Keys, sandboxes'[j] # 0
        PROVE  objects'[sandboxes'[j]].key = j
    <3>1. CASE j = k
      <4>1. sandboxes'[j] = New'
        BY <1>9, <3>1
      <4> QED BY <1>2a, <3>1, <4>1
    <3>2. CASE j # k
      <4>1. sandboxes'[j] = sandboxes[j]
        BY <1>9, <3>2
      <4>2. sandboxes[j] # 0 /\ sandboxes[j] \in Objects
        BY <1>8, <2>1, <4>1
      <4> QED BY <1>2c, <2>0, <4>1, <4>2 DEF Keyed
    <3> QED BY <3>1, <3>2
  <2>2. ASSUME NEW j \in Keys, watchers'[j] # 0
        PROVE  objects'[watchers'[j]].key = j
    BY <1>2c, <1>8, <1>9, <2>0, <2>2 DEF Keyed
  <2> QED BY <2>1, <2>2 DEF Keyed
<1>11. Marked'
  <2>1. \A pc \in Steps : deletes[New'][pc] = 0
    BY <1>3 DEF NInv, Marked
  <2>2. ASSUME NEW o \in Objects', NEW pc \in Steps, deletes'[o][pc] > 0
        PROVE  objects'[o].deleted
    <3>1. CASE o = New'
      <4>1. deletes'[o][pc] = 0
        BY <1>9, <2>1, <3>1
      <4> QED BY <2>2, <4>1
    <3>2. CASE o \in Objects
      BY <1>2c, <1>9, <2>2, <3>2 DEF NInv, Marked
    <3> QED BY <1>3, <3>1, <3>2
  <2>3. \A o \in 1..MaxObjects : o \notin Objects' => \A pc \in Steps : deletes'[o][pc] = 0
    BY <1>3, <1>9 DEF NInv, Marked
  <2> QED BY <2>2, <2>3 DEF Marked
<1>12. OwnWhitelist' /\ WatcherOpen'
  BY <1>3, <1>9 DEF NInv, OwnWhitelist, WatcherOpen, Managed
<1>13. Equipped'
  <2> SUFFICES ASSUME NEW j \in Keys, NEW o, o = sandboxes'[j], o # 0, OnlyOfItsName(o)',
                      ~ objects'[o].deleted
               PROVE  /\ Past(o, {"limits"})' => j \in limits
                      /\ Past(o, {"limits", "store"})' => stored[NameOf[j]] = o
                      /\ Past(o, {"limits", "store", "log"})' => NameOf[j] \in writers
    BY <1>9 DEF Equipped
  <2>1. CASE j = k
    BY <1>9, <2>1 DEF Past
  <2>2. CASE j # k
    <3>1. o = sandboxes[j] /\ o \in Objects
      BY <1>8, <1>9, <2>2
    <3>2. OnlyOfItsName(o) /\ ~ objects[o].deleted
      BY <1>2, <1>5, <3>1
    <3> QED BY <1>9, <3>1, <3>2 DEF NInv, Equipped, Past
  <2> QED BY <2>1, <2>2
<1>14. Recorded'
  <2>1. ASSUME NEW o \in Objects', objects'[o].persisted, ~ objects'[o].deleted,
               OnlyOfItsName(o)'
        PROVE  stored'[Name(o)'] = o /\ disk'[Name(o)'] = o
    <3>1. o \in Objects
      BY <1>2a, <1>3, <2>1
    <3> QED BY <1>2c, <1>4, <1>5, <1>9, <2>1, <3>1 DEF NInv, Recorded
  <2> QED BY <2>1 DEF Recorded
<1> QED BY <1>6, <1>7, <1>10, <1>11, <1>12, <1>13, <1>14 DEF NInv

\* With the sandboxes unchanged, Equipped needs to be looked at for those there are.
LEMMA EquippedLater ==
    ASSUME NInv, UNCHANGED objects,
           \A j \in Keys : sandboxes'[j] \in {0, sandboxes[j]},
           \A j \in Keys : \A o \in Objects :
               /\ o = sandboxes[j] /\ objects[o].key = j /\ Name(o) = NameOf[j]
               /\ OnlyOfItsName(o) /\ ~ objects[o].deleted
               /\ Past(o, {"limits"}) => j \in limits
               /\ Past(o, {"limits", "store"}) => stored[NameOf[j]] = o
               /\ Past(o, {"limits", "store", "log"}) => NameOf[j] \in writers
               => /\ Past(o, {"limits"})' => j \in limits'
                  /\ Past(o, {"limits", "store"})' => stored'[NameOf[j]] = o
                  /\ Past(o, {"limits", "store", "log"})' => NameOf[j] \in writers'
    PROVE  Equipped'
<1> SUFFICES ASSUME NEW j \in Keys, NEW o, o = sandboxes'[j], o # 0, OnlyOfItsName(o)',
                    ~ objects'[o].deleted
             PROVE  /\ Past(o, {"limits"})' => j \in limits'
                    /\ Past(o, {"limits", "store"})' => stored'[NameOf[j]] = o
                    /\ Past(o, {"limits", "store", "log"})' => NameOf[j] \in writers'
  BY DEF Equipped
<1>1. o = sandboxes[j] /\ o \in Objects
  BY DEF NInv, AgentTypeOK
<1>2. OnlyOfItsName(o) /\ ~ objects[o].deleted
  BY <1>1, UnchangedSame, SameNames DEF NInv
<1>3. objects[o].key = j /\ Name(o) = NameOf[j]
  BY <1>1 DEF NInv, Keyed, Name
<1>4. /\ Past(o, {"limits"}) => j \in limits
      /\ Past(o, {"limits", "store"}) => stored[NameOf[j]] = o
      /\ Past(o, {"limits", "store", "log"}) => NameOf[j] \in writers
  BY <1>1, <1>2 DEF NInv, Equipped
<1> QED BY <1>1, <1>2, <1>3, <1>4

LEMMA RecordedLater ==
    ASSUME NInv, UNCHANGED objects,
           \A o \in Objects :
               OnlyOfItsName(o) /\ ~ objects[o].deleted
                  /\ stored[Name(o)] = o /\ disk[Name(o)] = o
               => stored'[Name(o)] = o /\ disk'[Name(o)] = o
    PROVE  Recorded'
<1>1. /\ Objects' = Objects
      /\ \A o \in Objects : Name(o)' = Name(o) /\ (OnlyOfItsName(o)' <=> OnlyOfItsName(o))
  BY UnchangedSame, SameNames DEF NInv
<1> SUFFICES ASSUME NEW o \in Objects, objects[o].persisted, ~ objects[o].deleted,
                    OnlyOfItsName(o)
             PROVE  stored'[Name(o)] = o /\ disk'[Name(o)] = o
  BY <1>1 DEF Recorded
<1> QED BY DEF NInv, Recorded

LEMMA CountsBounded ==
    ASSUME NInv
    PROVE  Len(objects) \in Nat /\ Objects \subseteq 1..MaxObjects
<1>1. objects \in Seq(LocalSandbox)
  BY DEF NInv, AgentTypeOK
<1>2. Len(objects) \in Nat
  BY <1>1, LenProperties
<1>3. Len(objects) <= MaxObjects
  BY DEF NInv, Bounded
<1> QED BY <1>2, <1>3, AgentBounds DEF Objects

LEMMA NewIsThere ==
    ASSUME NInv, creating # "idle"
    PROVE  New \in Objects /\ New # 0
<1>1. Len(objects) \in Nat
  BY CountsBounded
<1>2. Len(objects) >= 1
  BY DEF NInv, Bounded
<1> QED BY <1>1, <1>2 DEF New, Objects

LEMMA createLimitsStep ==
    ASSUME NInv, createLimits
    PROVE  NInv'
<1> DEFINE k == objects[New].key
<1>0. /\ AgentTypeOK /\ creating = "limits" /\ creating' = "store"
      /\ UNCHANGED <<objects, sandboxes, whitelists, stored, disk, flushing, starts, stops,
                     deletes, writers>>
  BY DEF NInv, createLimits, storeVars, goVars
<1>1. New \in Objects /\ New # 0
  BY <1>0, NewIsThere
<1>2. Objects' = Objects /\ New' = New
  BY <1>0 DEF Objects, New
<1>3. k \in Keys
  BY <1>0, <1>1, ObjectIsObj
<1>4. /\ limits' = limits \cup {k}
      /\ watching' \subseteq watching \cup {New} /\ watching \subseteq watching'
      /\ watchers' \in [Keys -> Objects \cup {0}]
      /\ \A j \in Keys : watchers'[j] = watchers[j]
                            \/ (j = k /\ watchers'[j] = New /\ New \in watching')
  BY <1>0, <1>1, <1>3 DEF AgentTypeOK, createLimits, ApplyLimits
<1> HIDE DEF k
<1>5. AgentTypeOK'
  BY <1>0, <1>1, <1>2, <1>3, <1>4 DEF AgentTypeOK
<1>6. Bounded' /\ Marked' /\ OwnWhitelist'
  BY <1>0, <1>2 DEF NInv, Bounded, Marked, OwnWhitelist, Managed
<1>7. Keyed'
  BY <1>0, <1>4 DEF NInv, Keyed, k
<1>8. WatcherOpen'
  BY <1>4 DEF NInv, WatcherOpen
<1>9. Equipped'
  BY <1>0, <1>2, <1>4, EquippedLater DEF Past, k
<1>10. Recorded'
  BY <1>0, RecordedLater
<1> QED BY <1>5, <1>6, <1>7, <1>8, <1>9, <1>10 DEF NInv

LEMMA createStoreStep ==
    ASSUME NInv, createStore
    PROVE  NInv'
<1>0. /\ AgentTypeOK /\ creating = "store" /\ creating' = "log"
      /\ UNCHANGED <<objects, sandboxes, whitelists, limits, watchers, watching, disk, flushing,
                     starts, stops, deletes, writers>>
  BY DEF NInv, createStore, limitVars, goVars
<1>1. New \in Objects /\ New # 0
  BY <1>0, NewIsThere
<1>2. Objects' = Objects /\ New' = New
  BY <1>0 DEF Objects, New
<1>3. \A o \in Objects : Name(o) \in Names
  BY <1>0, ObjectIsObj
<1>4. /\ stored' \in [Names -> Objects \cup {0}]
      /\ \A n \in Names : stored'[n] = IF n = Name(New) THEN New ELSE stored[n]
  BY <1>0, <1>1, <1>3 DEF AgentTypeOK, createStore
<1>5. AgentTypeOK'
  BY <1>0, <1>2, <1>4 DEF AgentTypeOK
<1>6. Bounded' /\ Marked' /\ OwnWhitelist' /\ Keyed' /\ WatcherOpen'
  BY <1>0, <1>2 DEF NInv, Bounded, Marked, OwnWhitelist, Managed, Keyed, WatcherOpen
<1>7. \A o \in Objects : OnlyOfItsName(o) => stored'[Name(o)] \in {o, stored[Name(o)]}
  BY <1>1, <1>3, <1>4, OnlyOne
<1>8. stored'[Name(New)] = New
  BY <1>1, <1>3, <1>4
<1>9. Equipped'
  BY <1>0, <1>2, <1>7, <1>8, EquippedLater DEF Past
<1>10. Recorded'
  BY <1>0, <1>7, RecordedLater
<1> QED BY <1>5, <1>6, <1>9, <1>10 DEF NInv

LEMMA createLogStep ==
    ASSUME NInv, createLog
    PROVE  NInv'
<1>0. /\ AgentTypeOK /\ creating = "log" /\ creating' = "idle"
      /\ UNCHANGED <<objects, sandboxes, whitelists, limits, watchers, watching, stored, disk,
                     flushing, stops, deletes>>
      /\ writers' = writers \cup {Name(New)} /\ starts' = starts \cup {New}
  BY DEF NInv, createLog, limitVars, storeVars
<1>1. New \in Objects /\ New # 0
  BY <1>0, NewIsThere
<1>2. Objects' = Objects /\ New' = New
  BY <1>0 DEF Objects, New
<1>3. Name(New) \in Names
  BY <1>0, <1>1, ObjectIsObj
<1>5. AgentTypeOK'
  BY <1>0, <1>1, <1>2, <1>3 DEF AgentTypeOK
<1>6. Bounded' /\ Marked' /\ OwnWhitelist' /\ Keyed' /\ WatcherOpen'
  BY <1>0, <1>2 DEF NInv, Bounded, Marked, OwnWhitelist, Managed, Keyed, WatcherOpen
<1>7. Equipped'
  BY <1>0, <1>2, EquippedLater DEF Past
<1>8. Recorded'
  BY <1>0, RecordedLater
<1> QED BY <1>5, <1>6, <1>7, <1>8 DEF NInv

-----------------------------------------------------------------------------
(* DeleteSandbox *)

\* A goroutine of DeleteSandbox goes from one step to another.
LEMMA GoesOnKeeps ==
    ASSUME NInv, NEW o \in Objects, NEW from \in Steps, NEW to \in Steps, from # to,
           deletes[o][from] > 0, GoesOn(o, from, to), UNCHANGED objects
    PROVE  deletes' \in [1..MaxObjects -> [Steps -> Nat]] /\ Marked' /\ objects[o].deleted
<1>0. Objects' = Objects /\ o \in 1..MaxObjects
  BY CountsBounded DEF Objects
<1>1. deletes \in [1..MaxObjects -> [Steps -> Nat]]
  BY DEF NInv, AgentTypeOK
<1>2. deletes[o] \in [Steps -> Nat] /\ deletes[o][from] - 1 \in Nat /\ deletes[o][to] + 1 \in Nat
  BY <1>0, <1>1
<1> DEFINE d == [deletes[o] EXCEPT ![from] = deletes[o][from] - 1, ![to] = deletes[o][to] + 1]
<1>3. d \in [Steps -> Nat]
  BY <1>2
<1>4. deletes' = [deletes EXCEPT ![o] = d]
  BY <1>0, <1>1, <1>2 DEF GoesOn
<1> HIDE DEF d
<1>5. deletes' \in [1..MaxObjects -> [Steps -> Nat]]
  BY <1>1, <1>3, <1>4
<1>6. objects[o].deleted
  BY DEF NInv, Marked
<1>7. \A p \in 1..MaxObjects : p # o => deletes'[p] = deletes[p]
  BY <1>1, <1>4
<1>8. ASSUME NEW p \in Objects, NEW pc \in Steps, deletes'[p][pc] > 0
      PROVE  objects[p].deleted
  <2>1. p \in 1..MaxObjects
    BY CountsBounded
  <2> QED BY <1>6, <1>7, <1>8, <2>1 DEF NInv, Marked
<1>9. ASSUME NEW p \in 1..MaxObjects, p \notin Objects
      PROVE  \A pc \in Steps : deletes'[p][pc] = 0
  BY <1>7, <1>9 DEF NInv, Marked
<1> QED BY <1>0, <1>5, <1>6, <1>8, <1>9 DEF Marked

LEMMA deleteMapsStep ==
    ASSUME NInv, NEW o \in Objects, deleteMaps(o)
    PROVE  NInv'
<1> DEFINE k == objects[o].key
<1>0. /\ AgentTypeOK /\ k \in Keys
      /\ UNCHANGED <<objects, creating, limits, watchers, watching, stored, disk, flushing,
                     starts, stops, writers>>
  BY ObjectIsObj DEF NInv, deleteMaps, limitVars, storeVars
<1>1. /\ sandboxes' \in [Keys -> Objects \cup {0}] /\ whitelists' \in [Keys -> Objects \cup {0}]
      /\ \A j \in Keys : sandboxes'[j] = IF j = k THEN 0 ELSE sandboxes[j]
      /\ \A j \in Keys : whitelists'[j] = IF j = k THEN 0 ELSE whitelists[j]
  BY <1>0 DEF AgentTypeOK, deleteMaps
<1>2. deletes' \in [1..MaxObjects -> [Steps -> Nat]] /\ Marked'
  BY GoesOnKeeps DEF deleteMaps, Steps
<1> HIDE DEF k
<1>3. Objects' = Objects /\ New' = New
  BY <1>0 DEF Objects, New
<1>4. AgentTypeOK'
  BY <1>0, <1>1, <1>2, <1>3 DEF AgentTypeOK
<1>5. Bounded' /\ OwnWhitelist' /\ Keyed' /\ WatcherOpen'
  BY <1>0, <1>1 DEF NInv, Bounded, OwnWhitelist, Managed, Keyed, WatcherOpen
<1>6. Equipped'
  BY <1>0, <1>1, <1>3, EquippedLater DEF Past
<1>7. Recorded'
  BY <1>0, RecordedLater
<1> QED BY <1>2, <1>4, <1>5, <1>6, <1>7 DEF NInv

LEMMA deleteLimitsStep ==
    ASSUME NInv, NEW o \in Objects, deleteLimits(o)
    PROVE  NInv'
<1> DEFINE k == objects[o].key
<1>0. /\ AgentTypeOK /\ k \in Keys
      /\ UNCHANGED <<objects, sandboxes, whitelists, creating, stored, disk, flushing,
                     starts, stops, writers>>
  BY ObjectIsObj DEF NInv, deleteLimits, agentVars, storeVars
<1>1. /\ limits' = limits \ {k} /\ watching' = watching \ {watchers[k]}
      /\ watchers' \in [Keys -> Objects \cup {0}]
      /\ \A j \in Keys : watchers'[j] = IF j = k THEN 0 ELSE watchers[j]
  BY <1>0 DEF AgentTypeOK, deleteLimits, RemoveLimits
<1>2. deletes' \in [1..MaxObjects -> [Steps -> Nat]] /\ Marked' /\ objects[o].deleted
  BY <1>0, GoesOnKeeps DEF deleteLimits, Steps
<1>3. Objects' = Objects /\ New' = New
  BY <1>0 DEF Objects, New
<1>4. \A p \in Objects : OnlyOfItsName(p) /\ objects[p].key = k => p = o
  BY OnlyOne DEF Name
<1> HIDE DEF k
<1>5. AgentTypeOK'
  BY <1>0, <1>1, <1>2, <1>3 DEF AgentTypeOK
<1>6. Bounded' /\ OwnWhitelist' /\ Keyed'
  BY <1>0, <1>1 DEF NInv, Bounded, OwnWhitelist, Managed, Keyed
<1>7. WatcherOpen'
  <2>1. ASSUME NEW j \in Keys, watchers'[j] # 0
        PROVE  watchers'[j] \in watching'
    <3>1. j # k /\ watchers'[j] = watchers[j] /\ watchers[j] # 0
      BY <1>1, <2>1
    <3>2. watchers[j] \in watching
      BY <3>1 DEF NInv, WatcherOpen
    <3>3. watchers[k] # watchers[j]
      BY <1>0, <3>1 DEF NInv, Keyed
    <3> QED BY <1>1, <3>1, <3>2, <3>3
  <2> QED BY <2>1 DEF WatcherOpen
<1>8. Equipped'
  BY <1>0, <1>1, <1>2, <1>3, <1>4, EquippedLater DEF Past
<1>9. Recorded'
  BY <1>0, RecordedLater
<1> QED BY <1>2, <1>5, <1>6, <1>7, <1>8, <1>9 DEF NInv

LEMMA deleteLogStep ==
    ASSUME NInv, NEW o \in Objects, deleteLog(o)
    PROVE  NInv'
<1>0. /\ AgentTypeOK /\ writers' = writers \ {Name(o)}
      /\ UNCHANGED <<objects, sandboxes, whitelists, creating, limits, watchers, watching,
                     stored, disk, flushing, starts, stops>>
  BY DEF NInv, deleteLog, agentVars, limitVars, storeVars
<1>1. deletes' \in [1..MaxObjects -> [Steps -> Nat]] /\ Marked' /\ objects[o].deleted
  BY <1>0, GoesOnKeeps DEF deleteLog, Steps
<1>2. Objects' = Objects /\ New' = New
  BY <1>0 DEF Objects, New
<1>3. AgentTypeOK'
  BY <1>0, <1>1, <1>2 DEF AgentTypeOK
<1>4. Bounded' /\ OwnWhitelist' /\ Keyed' /\ WatcherOpen'
  BY <1>0 DEF NInv, Bounded, OwnWhitelist, Managed, Keyed, WatcherOpen
<1>5. Equipped'
  BY <1>0, <1>1, <1>2, OnlyOne, EquippedLater DEF Past
<1>6. Recorded'
  BY <1>0, RecordedLater
<1> QED BY <1>1, <1>3, <1>4, <1>5, <1>6 DEF NInv

LEMMA deleteStoreStep ==
    ASSUME NInv, NEW o \in Objects, deleteStore(o)
    PROVE  NInv'
<1>0. /\ AgentTypeOK /\ deletes[o].store > 0
      /\ UNCHANGED <<objects, sandboxes, whitelists, creating, limits, watchers, watching,
                     disk, flushing, starts, stops, writers>>
  BY DEF NInv, deleteStore, agentVars, limitVars
<1>1. deletes' \in [1..MaxObjects -> [Steps -> Nat]] /\ Marked' /\ objects[o].deleted
  <2>1. Objects \subseteq 1..MaxObjects
    BY CountsBounded
  <2>2. deletes[o] \in [Steps -> Nat] /\ deletes[o].store - 1 \in Nat
    BY <1>0, <2>1 DEF AgentTypeOK, Steps
  <2>3. [deletes[o] EXCEPT !.store = deletes[o].store - 1] \in [Steps -> Nat]
    BY <2>2
  <2>4. deletes' = [deletes EXCEPT ![o] = [deletes[o] EXCEPT !.store = deletes[o].store - 1]]
    BY DEF deleteStore
  <2>5. deletes' \in [1..MaxObjects -> [Steps -> Nat]]
    BY <1>0, <2>3, <2>4 DEF AgentTypeOK
  <2>6. objects[o].deleted
    BY <1>0 DEF NInv, Marked, Steps
  <2>7. \A p \in 1..MaxObjects : p # o => deletes'[p] = deletes[p]
    BY <1>0, <2>4 DEF AgentTypeOK
  <2>8. \A p \in Objects : \A pc \in Steps : deletes'[p][pc] > 0 => objects[p].deleted
    BY <2>1, <2>6, <2>7 DEF NInv, Marked
  <2>9. \A p \in 1..MaxObjects : p \notin Objects => \A pc \in Steps : deletes'[p][pc] = 0
    BY <2>7 DEF NInv, Marked
  <2>10. Objects' = Objects
    BY <1>0 DEF Objects
  <2> QED BY <1>0, <2>5, <2>6, <2>8, <2>9, <2>10 DEF Marked
<1>2. Objects' = Objects /\ New' = New
  BY <1>0 DEF Objects, New
<1>3. \A p \in Objects : Name(p) \in Names
  BY <1>0, ObjectIsObj
<1>4. /\ stored' \in [Names -> Objects \cup {0}]
      /\ \A n \in Names : n # Name(o) => stored'[n] = stored[n]
  BY <1>0, <1>3 DEF AgentTypeOK, deleteStore
<1>5. AgentTypeOK'
  BY <1>0, <1>1, <1>2, <1>4 DEF AgentTypeOK
<1>6. Bounded' /\ OwnWhitelist' /\ Keyed' /\ WatcherOpen'
  BY <1>0 DEF NInv, Bounded, OwnWhitelist, Managed, Keyed, WatcherOpen
<1>7. \A p \in Objects : OnlyOfItsName(p) /\ ~ objects[p].deleted =>
          stored'[Name(p)] = stored[Name(p)]
  BY <1>1, <1>3, <1>4, OnlyOne
<1>8. Equipped'
  BY <1>0, <1>2, <1>7, EquippedLater DEF Past
<1>9. Recorded'
  BY <1>0, <1>7, RecordedLater
<1> QED BY <1>1, <1>5, <1>6, <1>8, <1>9 DEF NInv

\* A sandbox is marked deleted and a goroutine is started for it.
LEMMA DeleteStep ==
    ASSUME NInv, NEW k \in Keys, DeleteSandbox(k)
    PROVE  NInv'
<1> DEFINE o == sandboxes[k]
<1>0. /\ AgentTypeOK /\ o \in Objects /\ objects \in Seq(LocalSandbox)
      /\ UNCHANGED <<sandboxes, whitelists, creating, limits, watchers, watching, stored,
                     disk, flushing, starts, stops, writers>>
  BY DEF NInv, AgentTypeOK, DeleteSandbox, Managed, limitVars, storeVars
<1> DEFINE x == [objects[o] EXCEPT !.state = "deleting", !.deleted = TRUE]
<1>1. objects[o] \in LocalSandbox
  BY <1>0, ObjectIsObj
<1>2. /\ x \in LocalSandbox /\ x.key = objects[o].key /\ x.deleted
      /\ x.persisted = objects[o].persisted
  BY <1>1 DEF LocalSandbox, States
<1>3. objects' = [objects EXCEPT ![o] = x]
  BY <1>0, <1>1 DEF DeleteSandbox, Objects
<1> HIDE DEF x
<1>4. /\ objects' \in Seq(LocalSandbox) /\ Len(objects') = Len(objects)
      /\ objects'[o] = x /\ \A p \in Objects : p # o => objects'[p] = objects[p]
  BY <1>0, <1>2, <1>3 DEF Objects
<1> HIDE DEF o
<1>5. /\ Objects' = Objects /\ New' = New
      /\ \A p \in Objects : Name(p)' = Name(p)
      /\ \A p \in Objects : objects'[p].key = objects[p].key
      /\ \A p \in Objects : objects'[p].persisted = objects[p].persisted
      /\ \A p \in Objects : p # o => objects'[p].deleted = objects[p].deleted
      /\ objects'[o].deleted
  BY <1>0, <1>2, <1>4 DEF Objects, New, Name
<1>6. \A p \in Objects : OnlyOfItsName(p)' <=> OnlyOfItsName(p)
  BY <1>5 DEF OnlyOfItsName
<1>7. /\ deletes' \in [1..MaxObjects -> [Steps -> Nat]]
      /\ \A p \in 1..MaxObjects : p # o => deletes'[p] = deletes[p]
  <2>1. o \in 1..MaxObjects
    BY <1>0, CountsBounded
  <2>2. deletes[o] \in [Steps -> Nat] /\ deletes[o].maps + 1 \in Nat
    BY <1>0, <2>1 DEF AgentTypeOK, Steps
  <2>3. [deletes[o] EXCEPT !.maps = deletes[o].maps + 1] \in [Steps -> Nat]
    BY <2>2
  <2>4. deletes' = [deletes EXCEPT ![o] = [deletes[o] EXCEPT !.maps = deletes[o].maps + 1]]
    BY DEF DeleteSandbox, o
  <2> QED BY <1>0, <2>1, <2>3, <2>4 DEF AgentTypeOK
<1>8. AgentTypeOK'
  BY <1>0, <1>4, <1>5, <1>7 DEF AgentTypeOK
<1>9. Bounded' /\ OwnWhitelist' /\ WatcherOpen'
  BY <1>0, <1>4 DEF NInv, Bounded, OwnWhitelist, WatcherOpen, Managed
<1>10. \A j \in Keys : sandboxes[j] \in Objects \cup {0} /\ watchers[j] \in Objects \cup {0}
  BY <1>0 DEF AgentTypeOK
<1>11. Keyed'
  BY <1>0, <1>5, <1>10 DEF NInv, Keyed
<1>12. Marked'
  <2>1. ASSUME NEW p \in Objects, NEW pc \in Steps, deletes'[p][pc] > 0
        PROVE  objects'[p].deleted
    <3>1. p \in 1..MaxObjects
      BY CountsBounded
    <3>2. CASE p # o
      BY <1>5, <1>7, <2>1, <3>1, <3>2 DEF NInv, Marked
    <3> QED BY <1>5, <3>2
  <2>2. \A p \in 1..MaxObjects : p \notin Objects => \A pc \in Steps : deletes'[p][pc] = 0
    BY <1>0, <1>7 DEF NInv, Marked
  <2> QED BY <1>5, <2>1, <2>2 DEF Marked
<1>13. Equipped'
  <2> SUFFICES ASSUME NEW j \in Keys, NEW p, p = sandboxes[j], p # 0, OnlyOfItsName(p)',
                      ~ objects'[p].deleted
               PROVE  /\ Past(p, {"limits"}) => j \in limits
                      /\ Past(p, {"limits", "store"}) => stored[NameOf[j]] = p
                      /\ Past(p, {"limits", "store", "log"}) => NameOf[j] \in writers
    BY <1>0, <1>5 DEF Equipped, Past
  <2>1. p \in Objects /\ p # o
    BY <1>5, <1>10
  <2>2. OnlyOfItsName(p) /\ ~ objects[p].deleted
    BY <1>5, <1>6, <2>1
  <2> QED BY <2>2 DEF NInv, Equipped
<1>14. Recorded'
  <2>1. ASSUME NEW p \in Objects, objects'[p].persisted, ~ objects'[p].deleted,
               OnlyOfItsName(p)'
        PROVE  stored[Name(p)] = p /\ disk[Name(p)] = p
    <3>1. p # o
      BY <1>5, <2>1
    <3> QED BY <1>5, <1>6, <2>1, <3>1 DEF NInv, Recorded
  <2> QED BY <1>0, <1>5, <2>1 DEF Recorded
<1> QED BY <1>8, <1>9, <1>11, <1>12, <1>13, <1>14 DEF NInv

-----------------------------------------------------------------------------
(* Background loops and restart *)

LEMMA CleanupStep ==
    ASSUME NInv, cleanupStaleSandboxes
    PROVE  NInv'
<1>0. /\ AgentTypeOK
      /\ UNCHANGED <<objects, whitelists, creating, limits, watchers, watching, stored, disk,
                     flushing, starts, stops, deletes, writers>>
  BY DEF NInv, cleanupStaleSandboxes, limitVars, storeVars, goVars
<1>1. /\ sandboxes' \in [Keys -> Objects \cup {0}]
      /\ \A j \in Keys : sandboxes'[j] \in {0, sandboxes[j]}
  BY <1>0 DEF AgentTypeOK, cleanupStaleSandboxes
<1>2. Objects' = Objects /\ New' = New
  BY <1>0 DEF Objects, New
<1>3. AgentTypeOK'
  BY <1>0, <1>1, <1>2 DEF AgentTypeOK
<1>4. Bounded' /\ Keyed' /\ Marked' /\ OwnWhitelist' /\ WatcherOpen'
  BY <1>0, <1>1, <1>2 DEF NInv, Bounded, Keyed, Marked, OwnWhitelist, Managed, WatcherOpen
<1>5. Equipped'
  BY <1>0, <1>1, <1>2, EquippedLater DEF Past
<1>6. Recorded'
  BY <1>0, RecordedLater
<1> QED BY <1>3, <1>4, <1>5, <1>6 DEF NInv

\* A flush that has begun, or has failed, changes nothing that matters.
LEMMA FlushQuiet ==
    ASSUME NInv, flushing' \in BOOLEAN,
           UNCHANGED <<stored, disk, agentVars, limitVars, goVars, writers>>
    PROVE  NInv'
<1>0. /\ AgentTypeOK
      /\ UNCHANGED <<objects, sandboxes, whitelists, creating, limits, watchers, watching,
                     stored, disk, starts, stops, deletes, writers>>
  BY DEF NInv, agentVars, limitVars, goVars
<1>1. Objects' = Objects /\ New' = New
  BY <1>0 DEF Objects, New
<1>2. AgentTypeOK'
  BY <1>0, <1>1 DEF AgentTypeOK
<1>3. Bounded' /\ Keyed' /\ Marked' /\ OwnWhitelist' /\ WatcherOpen'
  BY <1>0, <1>1 DEF NInv, Bounded, Keyed, Marked, OwnWhitelist, Managed, WatcherOpen
<1>4. Equipped'
  BY <1>0, <1>1, EquippedLater DEF Past
<1>5. Recorded'
  BY <1>0, RecordedLater
<1> QED BY <1>2, <1>3, <1>4, <1>5 DEF NInv

\* A flush that succeeds.
LEMMA FlushDone ==
    ASSUME NInv, flushEnds, disk' = stored,
           objects' = [o \in DOMAIN objects |->
                          [objects[o] EXCEPT !.persisted = @ \/ stored[Name(o)] = o]]
    PROVE  NInv'
<1>0. /\ AgentTypeOK /\ objects \in Seq(LocalSandbox) /\ DOMAIN objects = Objects
      /\ flushing' = FALSE
      /\ UNCHANGED <<stored, sandboxes, whitelists, creating, limits, watchers, watching,
                     starts, stops, deletes, writers>>
  BY DEF NInv, AgentTypeOK, flushEnds, limitVars, goVars, Objects
<1>1. ASSUME NEW o \in Objects
      PROVE  /\ objects'[o] \in LocalSandbox
             /\ objects'[o].key = objects[o].key
             /\ objects'[o].deleted = objects[o].deleted
             /\ objects'[o].persisted => objects[o].persisted \/ stored[Name(o)] = o
  <2>1. objects[o] \in LocalSandbox
    BY <1>0, ObjectIsObj
  <2> DEFINE b == objects[o].persisted \/ stored[Name(o)] = o
  <2>2. objects'[o] = [objects[o] EXCEPT !.persisted = b]
    BY <1>0
  <2>3. b \in BOOLEAN
    OBVIOUS
  <2>4. b => objects[o].persisted \/ stored[Name(o)] = o
    OBVIOUS
  <2> HIDE DEF b
  <2> QED BY <2>1, <2>2, <2>3, <2>4 DEF LocalSandbox
<1>2. DOMAIN objects' = 1..Len(objects) /\ Len(objects) \in Nat
  BY <1>0, CountsBounded DEF Objects
<1>3. objects' \in [1..Len(objects) -> LocalSandbox]
  BY <1>0, <1>1, <1>2 DEF Objects
<1>4. objects' \in Seq(LocalSandbox) /\ Len(objects') = Len(objects)
  BY <1>2, <1>3, FunctionIsSeq
<1>5. /\ Objects' = Objects /\ New' = New
      /\ \A o \in Objects : Name(o)' = Name(o)
  BY <1>1, <1>4 DEF Objects, New, Name
<1>6. \A o \in Objects : OnlyOfItsName(o)' <=> OnlyOfItsName(o)
  BY <1>5 DEF OnlyOfItsName
<1>7. AgentTypeOK'
  BY <1>0, <1>4, <1>5 DEF AgentTypeOK
<1>8. Bounded' /\ OwnWhitelist' /\ WatcherOpen'
  BY <1>0, <1>4 DEF NInv, Bounded, OwnWhitelist, WatcherOpen, Managed
<1>9. \A j \in Keys : sandboxes[j] \in Objects \cup {0} /\ watchers[j] \in Objects \cup {0}
  BY <1>0 DEF AgentTypeOK
<1>10. Keyed'
  <2>1. /\ UNCHANGED <<sandboxes, watchers>>
        /\ \A o \in Objects : objects'[o].key = objects[o].key
    BY <1>0, <1>1
  <2> QED BY <1>9, <2>1 DEF NInv, Keyed
<1>11. Marked'
  <2>1. /\ deletes' = deletes
        /\ \A o \in Objects : objects'[o].deleted = objects[o].deleted
    BY <1>0, <1>1
  <2> QED BY <1>5, <2>1 DEF NInv, Marked
<1>12. Equipped'
  BY <1>0, <1>1, <1>5, <1>6, <1>9 DEF NInv, Equipped, Past
<1>13. Recorded'
  BY <1>0, <1>1, <1>5, <1>6 DEF NInv, Recorded
<1> QED BY <1>7, <1>8, <1>10, <1>11, <1>12, <1>13 DEF NInv

LEMMA FlushStep ==
    ASSUME NInv, flushStarts \/ flushEnds
    PROVE  NInv'
<1>1. CASE flushStarts
  BY <1>1, FlushQuiet DEF flushStarts
<1>2. CASE flushEnds
  <2>1. CASE UNCHANGED <<disk, objects>>
    BY <1>2, <2>1, FlushQuiet DEF flushEnds, agentVars
  <2> QED BY <1>2, <2>1, FlushDone DEF flushEnds
<1> QED BY <1>1, <1>2

LEMMA RestartStep ==
    ASSUME NInv, Restart
    PROVE  NInv'
<1>0. /\ AgentTypeOK /\ objects \in Seq(LocalSandbox) /\ Len(objects) \in Nat
      /\ disk' = disk /\ flushing' = FALSE /\ creating' = "idle" /\ deletes' = NoDeletes
      /\ limits' = {} /\ watching' = {} /\ writers' = {} /\ starts' = {} /\ stops' = {}
      /\ sandboxes' = [k \in Keys |-> 0] /\ whitelists' = [k \in Keys |-> 0]
      /\ watchers' = [k \in Keys |-> 0]
  BY CountsBounded DEF NInv, AgentTypeOK, Restart
<1>1. ASSUME NEW o \in Objects
      PROVE  /\ objects'[o] \in LocalSandbox
             /\ objects'[o].key = objects[o].key
             /\ objects'[o].deleted = objects[o].deleted
             /\ objects'[o].persisted = objects[o].persisted
  <2>1. objects[o] \in LocalSandbox
    BY <1>0, ObjectIsObj
  <2>2. objects'[o] = [objects[o] EXCEPT !.state = "gone"]
    BY DEF Restart
  <2> QED BY <2>1, <2>2 DEF LocalSandbox, States
<1>2. objects' \in [1..Len(objects) -> LocalSandbox]
  BY <1>1 DEF Restart, Objects
<1>3. Same
  <2>1. objects' \in Seq(LocalSandbox) /\ Len(objects') = Len(objects)
    BY <1>0, <1>2, FunctionIsSeq
  <2> QED BY <1>1, <2>1 DEF Same
<1>4. /\ Objects' = Objects
      /\ \A o \in Objects : Name(o)' = Name(o) /\ (OnlyOfItsName(o)' <=> OnlyOfItsName(o))
  BY <1>0, <1>3, SameNames
<1>5. stored' \in [Names -> Objects \cup {0}]
  BY <1>0 DEF AgentTypeOK, Restart, NoRecords
<1>6. deletes' \in [1..MaxObjects -> [Steps -> Nat]]
      /\ \A o \in 1..MaxObjects : \A pc \in Steps : deletes'[o][pc] = 0
  BY <1>0 DEF NoDeletes
<1>7. AgentTypeOK'
  BY <1>0, <1>3, <1>4, <1>5, <1>6 DEF AgentTypeOK, Same
<1>8. Bounded'
  BY <1>0, <1>3 DEF NInv, Bounded, Same
<1>9. Keyed' /\ OwnWhitelist' /\ WatcherOpen' /\ Equipped'
  BY <1>0 DEF Keyed, OwnWhitelist, WatcherOpen, Equipped, Managed
<1>10. Marked'
  <2>1. Objects \subseteq 1..MaxObjects
    BY CountsBounded
  <2> QED BY <1>4, <1>6, <2>1 DEF Marked
<1>11. Recorded'
  <2>1. ASSUME NEW o \in Objects, objects[o].persisted, ~ objects[o].deleted, OnlyOfItsName(o)
        PROVE  stored'[Name(o)] = o /\ disk[Name(o)] = o
    <3>1. disk[Name(o)] = o
      BY <2>1 DEF NInv, Recorded
    <3>2. Name(o) \in Names
      BY <1>0, ObjectIsObj
    <3>3. Torn[Name(o)] # o
      BY <1>0, <3>2 DEF Torn, Objects
    <3>4. disk # Torn
      BY <3>1, <3>3
    <3> QED BY <3>1, <3>4 DEF Restart
  <2> QED BY <1>0, <1>1, <1>4, <2>1 DEF Recorded
<1> QED BY <1>7, <1>8, <1>9, <1>10, <1>11 DEF NInv

-----------------------------------------------------------------------------
(* The theorems *)

LEMMA AgentStart == AgentInit => NInv
<1> SUFFICES ASSUME AgentInit
             PROVE  NInv
  OBVIOUS
<1>1. objects = <<>> /\ Len(objects) = 0 /\ Objects = {} /\ objects \in Seq(LocalSandbox)
  BY DEF AgentInit, Objects
<1>2. AgentTypeOK
  BY <1>1 DEF AgentInit, AgentTypeOK, NoRecords, NoDeletes
<1>3. Bounded
  BY <1>1, AgentBounds DEF Bounded, AgentInit
<1>4. Keyed /\ OwnWhitelist /\ WatcherOpen /\ Equipped
  BY DEF AgentInit, Keyed, OwnWhitelist, WatcherOpen, Equipped, Managed
<1>5. Marked
  BY <1>1 DEF AgentInit, Marked, NoDeletes
<1>6. Recorded
  BY <1>1 DEF Recorded
<1> QED BY <1>2, <1>3, <1>4, <1>5, <1>6 DEF NInv

LEMMA AgentStep == NInv /\ [AgentNext]_vars => NInv'
<1> SUFFICES ASSUME NInv, [AgentNext]_vars
             PROVE  NInv'
  OBVIOUS
<1>0. AgentTypeOK /\ starts \subseteq Objects /\ stops \subseteq Objects
  BY DEF NInv, AgentTypeOK
<1>1. ASSUME NEW k \in Keys, CreateSandbox(k) \/ DeleteSandbox(k)
      PROVE  NInv'
  BY <1>1, CreateStep, DeleteStep
<1>2. ASSUME NEW k \in Keys, StopSandbox(k)
      PROVE  NInv'
  <2>1. sandboxes[k] \in Objects
    BY <1>2 DEF NInv, AgentTypeOK, StopSandbox, Managed
  <2>2. Same
    BY <1>0, <1>2, <2>1, SetStateSame DEF StopSandbox, States
  <2> QED BY <1>0, <1>2, <2>1, <2>2, MarkKeeps DEF StopSandbox
<1>3. CASE createLimits \/ createStore \/ createLog
  BY <1>3, createLimitsStep, createStoreStep, createLogStep
<1>4. ASSUME NEW o \in Objects, startEnds(o) \/ stopEnds(o)
      PROVE  NInv'
  <2>1. Same
    BY <1>0, <1>4, SetStateSame DEF startEnds, stopEnds, States
  <2> QED BY <1>0, <1>4, <2>1, MarkKeeps DEF startEnds, stopEnds
<1>5. ASSUME NEW o \in Objects, Delete(o)
      PROVE  NInv'
  BY <1>5, deleteMapsStep, deleteLimitsStep, deleteLogStep, deleteStoreStep DEF Delete
<1>6. CASE cleanupStaleSandboxes \/ Flush \/ Restart
  BY <1>6, CleanupStep, FlushStep, RestartStep DEF Flush
<1>7. CASE UNCHANGED vars
  <2>1. Same
    BY <1>0, <1>7, UnchangedSame DEF vars, agentVars
  <2> QED BY <1>0, <1>7, <2>1, MarkKeeps DEF vars, agentVars, goVars
<1> QED BY <1>1, <1>2, <1>3, <1>4, <1>5, <1>6, <1>7 DEF AgentNext, Create

LEMMA AgentInv == AgentSpec => []NInv
BY AgentStart, AgentStep, PTL DEF AgentSpec

LEMMA NInvMeans ==
    NInv => AgentTypeOK /\ OwnWhitelist /\ WatcherOpen /\ EquippedUntilDeleted /\ Durable
<1> SUFFICES ASSUME NInv
             PROVE  AgentTypeOK /\ OwnWhitelist /\ WatcherOpen /\ EquippedUntilDeleted /\ Durable
  OBVIOUS
<1>1. EquippedUntilDeleted
  BY DEF NInv, Equipped, EquippedUntilDeleted, Managed, Past, Unlocked
<1>2. Durable
  BY DEF NInv, Recorded, Durable
<1> QED BY <1>1, <1>2 DEF NInv

\* The maps of the agent and of its collaborators keep their types.
THEOREM AgentTypes == AgentSpec => []AgentTypeOK
BY AgentInv, NInvMeans, PTL

\* A sandbox of the node has its own path whitelist.
THEOREM AgentWhitelists == AgentSpec => []OwnWhitelist
BY AgentInv, NInvMeans, PTL

\* No stopCh is closed twice by RemoveLimits: a registered watcher is open.
THEOREM AgentWatchers == AgentSpec => []WatcherOpen
BY AgentInv, NInvMeans, PTL

\* A sandbox whose name is used once keeps its limits, log and record until it is
\* deleted.
THEOREM AgentEquipped == AgentSpec => []EquippedUntilDeleted
BY AgentInv, NInvMeans, PTL

\* What a flush has persisted survives restarts and crashes until it is deleted.
THEOREM AgentDurable == AgentSpec => []Durable
BY AgentInv, NInvMeans, PTL

\* The agent keeps what belongs to a sandbox through late goroutines, cleanup,
\* failed flushes and crashes.
THEOREM AgentAlwaysSafe == AgentSpec => []AgentSafe
BY AgentTypes, AgentWhitelists, AgentWatchers, AgentEquipped, AgentDurable, PTL DEF AgentSafe

-----------------------------------------------------------------------------
(* Addresses, GPUs and bandwidth *)

\* gm.allocs is what the sandboxes use.
GPUInv ==
    /\ allocs = [b \in NetBoxes |-> allocs[b]] /\ uses = allocs
    /\ \A b, c \in NetBoxes : b # c => allocs[b] \cap allocs[c] = {}

\* An address that is handed out is nobody's.
LEMMA AllocateFree == \A ip \in Allocate : \A a \in allocations : a[1] # ip
  BY DEF Allocate, Taken

\* A release by a sandbox that has one address at most takes it away.
LEMMA ReleaseOwn ==
    ASSUME NEW as, NEW b, \A a, c \in as : a[2] = b /\ c[2] = b => a = c
    PROVE  \A x \in AfterRelease(as, b) : x = {a \in as : a[2] # b}
  BY DEF AfterRelease

\* setupNetwork and teardownNetwork leave each address with one sandbox.
LEMMA AddressStep ==
    ASSUME AddressPerSandbox, NEW b \in NetBoxes, SetupNetwork(b) \/ TeardownNetwork(b)
    PROVE  AddressPerSandbox'
<1>1. CASE SetupNetwork(b)
  <2>1. PICK ip \in Allocate :
           LET as == allocations \cup {<<ip, b>>} IN
           \/ allocations' \in AfterRelease(as, b) /\ connected' = connected
           \/ allocations' = as /\ connected' = connected \cup {b}
    BY <1>1 DEF SetupNetwork
  <2>2. b \notin connected
    BY <1>1 DEF SetupNetwork
  <2> DEFINE new == <<ip, b>>
             as == allocations \cup {new}
  <2>3. new[1] = ip /\ new[2] = b
    OBVIOUS
  <2>4. \A a \in allocations : a[1] # ip /\ a[2] # b
    BY <2>2, AllocateFree DEF AddressPerSandbox
  <2> HIDE DEF new
  <2>5. CASE allocations' \in AfterRelease(as, b) /\ connected' = connected
    <3>1. allocations' = {a \in as : a[2] # b}
      BY <2>3, <2>4, <2>5, ReleaseOwn
    <3>2. allocations' = allocations
      BY <2>3, <2>4, <3>1
    <3> QED
      BY <2>5, <3>2 DEF AddressPerSandbox
  <2>6. CASE allocations' = as /\ connected' = connected \cup {b}
    BY <2>3, <2>4, <2>6 DEF AddressPerSandbox
  <2> QED
    BY <2>1, <2>5, <2>6 DEF new
<1>2. CASE TeardownNetwork(b)
  <2>1. allocations' \in AfterRelease(allocations, b) /\ connected' = connected \ {b}
    BY <1>2 DEF TeardownNetwork
  <2>2. allocations' = {a \in allocations : a[2] # b}
    BY <2>1, ReleaseOwn DEF AddressPerSandbox
  <2> QED
    BY <2>1, <2>2 DEF AddressPerSandbox
<1> QED
  BY <1>1, <1>2

\* AllocateGPUs takes devices that are free, ReleaseGPUs gives back its own.
LEMMA GPUStep ==
    ASSUME GPUInv, NEW b \in NetBoxes, ReleaseGPUs(b) \/ \E n \in 1..GPUDevices : AllocateGPUs(b, n)
    PROVE  GPUInv'
<1>1. CASE ReleaseGPUs(b)
  BY <1>1 DEF ReleaseGPUs, GPUInv
<1>2. ASSUME NEW n \in 1..GPUDevices, AllocateGPUs(b, n) PROVE GPUInv'
  <2> DEFINE g == FirstOf(Available, n)
  <2>1. g \subseteq Available
    BY DEF FirstOf
  <2>2. \A c \in NetBoxes : g \cap allocs[c] = {}
    BY <2>1 DEF Available, Allocated
  <2>3. allocs' = [allocs EXCEPT ![b] = g] /\ uses' = [uses EXCEPT ![b] = g]
    BY <1>2 DEF AllocateGPUs
  <2> HIDE DEF g
  <2> QED
    BY <2>2, <2>3 DEF GPUInv
<1> QED
  BY <1>1, <1>2

\* formatRate cuts a rate down by less than half.
LEMMA WholeUnits ==
    ASSUME NEW u \in Nat \ {0}, NEW x \in Nat, u <= x
    PROVE  (x \div u) * u \in Nat /\ (x \div u) * u <= x /\ 2 * ((x \div u) * u) > x
<1> DEFINE d == x \div u
<1>1. d \in Int /\ d * u <= x /\ x < d * u + u
  OBVIOUS
<1>2. d >= 1
  BY <1>1
<1> HIDE DEF d
<1>3. d * u >= u
  BY <1>1, <1>2
<1>4. d * u \in Int
  BY <1>1
<1>5. (x \div u) * u = d * u
  BY DEF d
<1> QED
  BY <1>1, <1>3, <1>4, <1>5

\* formatRate rounds down, and by less than a half.
LEMMA RateKept ==
    ASSUME NEW x \in Nat, x > 0
    PROVE  formatRate(x) <= x /\ 2 * formatRate(x) > x
<1>1. Kilo \in Nat \ {0} /\ Kilo * Kilo \in Nat \ {0} /\ Kilo * Kilo * Kilo \in Nat \ {0}
  BY ShaperAssumption
<1> DEFINE k2 == Kilo * Kilo
           k3 == Kilo * Kilo * Kilo
           unit == IF x >= k3 THEN k3 ELSE IF x >= k2 THEN k2 ELSE IF x >= Kilo THEN Kilo ELSE 1
<1>2. formatRate(x) = (x \div unit) * unit
  BY DEF formatRate
<1> HIDE DEF k2, k3
<1>3. unit \in Nat \ {0} /\ unit <= x
  BY <1>1 DEF k2, k3
<1> HIDE DEF unit
<1> QED
  BY <1>2, <1>3, WholeUnits

\* A limit that the shaper keeps is the one on the interface.
LEMMA ShaperStep ==
    ASSUME LimitOnInterface, ShaperNext
    PROVE  LimitOnInterface'
<1>1. ASSUME NEW i \in Rates, NEW e \in Rates, ApplyLimit(i, e) PROVE LimitOnInterface'
  <2>1. i \in Nat /\ e \in Nat
    BY ShaperAssumption
  <2>2. limit'.i = i /\ limit'.e = e
    BY <1>1 DEF ApplyLimit
  <2>3. e > 0 => egressQ'.state = "full" /\ egressQ'.rate = formatRate(e)
    BY <1>1 DEF ApplyLimit, applied
  <2>4. i > 0 => ingressQ'.state = "full" /\ ingressQ'.rate = formatRate(i)
    BY <1>1 DEF ApplyLimit, applied
  <2> QED
    BY <2>1, <2>2, <2>3, <2>4, RateKept DEF LimitOnInterface
<1>2. ASSUME NEW i \in Rates, NEW e \in Rates, ApplyLimitFails(i, e) PROVE LimitOnInterface'
  BY <1>2 DEF ApplyLimitFails, LimitOnInterface
<1>3. CASE removeLimitLocked
  <2>1. limit'.i = 0 /\ limit'.e = 0
    BY <1>3 DEF removeLimitLocked
  <2> QED
    BY <2>1 DEF LimitOnInterface
<1> QED
  BY <1>1, <1>2, <1>3 DEF ShaperNext

\* Addresses, GPUs and rates.
THEOREM DevicesAlwaysSafe == DevicesSpec /\ ShaperSpec => []DevicesSafe
<1> DEFINE Inv == AddressPerSandbox /\ GPUInv
<1>1. DevicesInit => Inv
  BY DEF DevicesInit, AddressPerSandbox, GPUInv
<1>2. Inv /\ [DevicesNext]_deviceVars => Inv'
  <2> SUFFICES ASSUME Inv, [DevicesNext]_deviceVars PROVE Inv'
    OBVIOUS
  <2>1. CASE UNCHANGED deviceVars
    BY <2>1 DEF deviceVars, netVars, gpuVars, AddressPerSandbox, GPUInv
  <2>2. ASSUME NEW b \in NetBoxes, SetupNetwork(b) \/ TeardownNetwork(b) PROVE Inv'
    <3>1. AddressPerSandbox'
      BY <2>2, AddressStep
    <3>2. allocs' = allocs /\ uses' = uses
      BY <2>2 DEF SetupNetwork, TeardownNetwork, gpuVars
    <3> QED
      BY <3>1, <3>2 DEF GPUInv
  <2>3. ASSUME NEW b \in NetBoxes, ReleaseGPUs(b) \/ \E n \in 1..GPUDevices : AllocateGPUs(b, n) PROVE Inv'
    <3>1. GPUInv'
      BY <2>3, GPUStep
    <3>2. allocations' = allocations /\ connected' = connected
      BY <2>3 DEF ReleaseGPUs, AllocateGPUs, netVars
    <3> QED
      BY <3>1, <3>2 DEF AddressPerSandbox
  <2> QED
    BY <2>1, <2>2, <2>3 DEF DevicesNext
<1>3. ShaperInit => LimitOnInterface
  BY DEF ShaperInit, LimitOnInterface
<1>4. LimitOnInterface /\ [ShaperNext]_shaperVars => LimitOnInterface'
  <2>1. CASE UNCHANGED shaperVars
    BY <2>1 DEF shaperVars, LimitOnInterface
  <2> QED
    BY <2>1, ShaperStep
<1>5. Inv /\ LimitOnInterface => DevicesSafe
  BY DEF GPUInv, GPUExclusive, Allocated, DevicesSafe
<1> QED
  BY <1>1, <1>2, <1>3, <1>4, <1>5, PTL DEF DevicesSpec, ShaperSpec

-----------------------------------------------------------------------------
(* Heartbeats and probes *)

\* What is available was computed from what is allocated, here, in the
\* heartbeat, on the wire and at the control plane.
ReportsInv ==
    /\ allocated \in Nat /\ available \in Int /\ available <= Allocatable
    /\ beat.available \in Int /\ beat.available <= Allocatable
    /\ beat = [n |-> beat.n, attempt |-> beat.attempt, at |-> beat.at, available |-> beat.available]
    /\ \A q \in onTheWire \cup received : q.available <= Allocatable /\ q.allocated >= 0
    /\ HeartbeatHonest

\* Every step of the reporter keeps the heartbeats honest, on the wire too.
LEMMA ReportsStep ==
    ASSUME ReportsInv, [ReportsNext]_reportVars
    PROVE  ReportsInv'
<1> USE ReportsAssumption
<1>1. ASSUME NEW x \in Amounts, AllocateResources(x) \/ ReleaseResources(x) PROVE ReportsInv'
  <2>1. allocated' \in Nat /\ available' = Allocatable - allocated' /\ UNCHANGED <<beat, onTheWire, received, lastHeartbeat>>
    BY <1>1 DEF AllocateResources, ReleaseResources, updateNodeResources, ReportsInv
  <2> QED
    BY <2>1 DEF ReportsInv, HeartbeatHonest
<1>2. CASE buildHeartbeat
  BY <1>2 DEF buildHeartbeat, ReportsInv, HeartbeatHonest, monitorVars
<1>3. CASE doRequest
  <2> DEFINE q == [n |-> beat.n, attempt |-> beat.attempt + 1, allocated |-> allocated, available |-> beat.available]
  <2>1. q.available <= Allocatable /\ q.allocated >= 0
    BY DEF ReportsInv
  <2>2. /\ beat' = [beat EXCEPT !.at = "sent", !.attempt = @ + 1] /\ onTheWire' = onTheWire \cup {q}
        /\ UNCHANGED <<monitorVars, received, lastHeartbeat>>
    BY <1>3 DEF doRequest
  <2> HIDE DEF q
  <2> QED
    BY <2>1, <2>2 DEF ReportsInv, HeartbeatHonest, monitorVars
<1>4. CASE Accepted
  BY <1>4 DEF Accepted, ReportsInv, HeartbeatHonest, monitorVars
<1>5. CASE AttemptFails \/ GivesUp
  BY <1>5 DEF AttemptFails, GivesUp, ReportsInv, HeartbeatHonest, monitorVars
<1>6. ASSUME NEW q \in onTheWire, Arrives(q) \/ Lost(q) PROVE ReportsInv'
  BY <1>6 DEF Arrives, Lost, ReportsInv, HeartbeatHonest, monitorVars
<1>7. CASE UNCHANGED reportVars
  BY <1>7 DEF reportVars, monitorVars, ReportsInv, HeartbeatHonest
<1> QED
  BY <1>1, <1>2, <1>3, <1>4, <1>5, <1>6, <1>7 DEF ReportsNext

-----------------------------------------------------------------------------
\* The n results up to the k-th of rs are all r.
Row(rs, r, n, k) == k >= n /\ \A i \in (k - n + 1)..k : rs[i] = r

\* A counter has the length of the row that rs ends in, and the row is r's.
EndsIn(rs, r, n) == n \in Nat /\ Row(rs, r, n, Len(rs)) /\ (n # Len(rs) => rs[Len(rs) - n] # r)

\* The j-th callback is the one that is due, and came with enough results.
Earned(cb, rs, j) ==
    /\ cb[2] \in Nat /\ cb[2] <= Len(rs)
    /\ j % 2 = 1 => cb[1] = "healthy" /\ Row(rs, TRUE, successThreshold, cb[2])
    /\ j % 2 # 1 => cb[1] = "unhealthy" /\ Row(rs, FALSE, failureThreshold, cb[2])

\* The inductive invariant: the counters of the checker are what its last
\* results say.
ProbeInv ==
    /\ results \in Seq(BOOLEAN) /\ callbacks \in Seq({"healthy", "unhealthy"} \X Nat)
    /\ EndsIn(results, TRUE, consecutiveSuccesses) /\ EndsIn(results, FALSE, consecutiveFailures)
    /\ lastResult <=> Len(callbacks) % 2 = 1
    /\ consecutiveSuccesses >= successThreshold => lastResult
    /\ consecutiveFailures >= failureThreshold => ~ lastResult
    /\ \A j \in 1..Len(callbacks) : Earned(callbacks[j], results, j)

\* A row of equal results goes on when one more is the same.
LEMMA RowGrows ==
    ASSUME NEW S, NEW rs \in Seq(S), NEW v \in S, NEW r, NEW n \in Nat, NEW k \in Nat, k <= Len(rs), Row(rs, r, n, k)
    PROVE  Row(Append(rs, v), r, n, k)
  BY DEF Row

\* A row at the end grows by an equal result.
LEMMA EndsInGrows ==
    ASSUME NEW S, NEW rs \in Seq(S), NEW r \in S, NEW n, EndsIn(rs, r, n)
    PROVE  EndsIn(Append(rs, r), r, n + 1)
<1> DEFINE ss == Append(rs, r)
<1>1. n \in Nat /\ Len(rs) \in Nat /\ Len(ss) = Len(rs) + 1 /\ ss[Len(rs) + 1] = r /\ \A i \in 1..Len(rs) : ss[i] = rs[i]
  BY DEF EndsIn
<1> HIDE DEF ss
<1>2. Row(ss, r, n + 1, Len(ss))
  <2>1. PICK k \in Nat : k = Len(rs) /\ Len(ss) = k + 1
    BY <1>1
  <2>2. k >= n /\ \A i \in (k - n + 1)..k : rs[i] = r
    BY <2>1 DEF EndsIn, Row
  <2>3. ASSUME NEW i \in ((k + 1) - (n + 1) + 1)..(k + 1) PROVE ss[i] = r
    <3>1. i = k + 1 \/ (i \in (k - n + 1)..k /\ i \in 1..k)
      BY <1>1, <2>1, <2>2
    <3> QED
      BY <1>1, <2>1, <2>2, <3>1
  <2>4. k + 1 >= n + 1
    BY <1>1, <2>1, <2>2
  <2> QED
    BY <2>1, <2>3, <2>4 DEF Row
<1>3. ASSUME n + 1 # Len(ss) PROVE ss[Len(ss) - (n + 1)] # r
  <2>1. n # Len(rs) /\ n <= Len(rs)
    BY <1>1, <1>3 DEF EndsIn, Row
  <2>2. PICK i : i = Len(rs) - n
    OBVIOUS
  <2>3. i \in 1..Len(rs) /\ Len(ss) - (n + 1) = i
    BY <1>1, <2>1, <2>2
  <2>4. rs[i] # r
    BY <2>1, <2>2 DEF EndsIn
  <2> QED
    BY <1>1, <2>3, <2>4
<1>4. EndsIn(ss, r, n + 1)
  BY <1>1, <1>2, <1>3 DEF EndsIn
<1> QED
  BY <1>4 DEF ss

\* A row at the end is over with a different result.
LEMMA EndsInStops ==
    ASSUME NEW S, NEW rs \in Seq(S), NEW r, NEW v \in S, v # r
    PROVE  EndsIn(Append(rs, v), r, 0)
  BY DEF EndsIn, Row

\* A row at the end is not longer than the counter says, and what is counted is a row.
LEMMA RowCounted ==
    ASSUME NEW rs, Len(rs) \in Nat, NEW r, NEW n, EndsIn(rs, r, n), NEW m \in Nat
    PROVE  Row(rs, r, m, Len(rs)) <=> m <= n
<1>1. ASSUME Row(rs, r, m, Len(rs)) PROVE m <= n
  BY <1>1 DEF EndsIn, Row
<1>2. ASSUME m <= n PROVE Row(rs, r, m, Len(rs))
  BY <1>2 DEF EndsIn, Row
<1> QED
  BY <1>1, <1>2

\* What a callback was earned by does not change when results are added.
LEMMA EarnedKept ==
    ASSUME NEW S, NEW rs \in Seq(S), NEW v \in S, NEW cb, NEW j, Earned(cb, rs, j)
    PROVE  Earned(cb, Append(rs, v), j)
<1>1. successThreshold \in Nat /\ failureThreshold \in Nat
  BY ProbeAssumption
<1>2. Len(Append(rs, v)) = Len(rs) + 1 /\ Len(rs) \in Nat /\ cb[2] \in Nat /\ cb[2] <= Len(rs)
  BY DEF Earned
<1>3. ASSUME Row(rs, TRUE, successThreshold, cb[2]) PROVE Row(Append(rs, v), TRUE, successThreshold, cb[2])
  <2>1. PICK r : r = TRUE
    OBVIOUS
  <2>2. Row(rs, r, successThreshold, cb[2])
    BY <1>3, <2>1, Zenon
  <2>3. Row(Append(rs, v), r, successThreshold, cb[2])
    BY <1>1, <1>2, <2>2, RowGrows
  <2> QED
    BY <2>1, <2>3, Zenon
<1>4. ASSUME Row(rs, FALSE, failureThreshold, cb[2]) PROVE Row(Append(rs, v), FALSE, failureThreshold, cb[2])
  <2>1. PICK r : r = FALSE
    OBVIOUS
  <2>2. Row(rs, r, failureThreshold, cb[2])
    BY <1>4, <2>1, Zenon
  <2>3. Row(Append(rs, v), r, failureThreshold, cb[2])
    BY <1>1, <1>2, <2>2, RowGrows
  <2> QED
    BY <2>1, <2>3, Zenon
<1>5. cb[2] <= Len(Append(rs, v))
  BY <1>2
<1> QED
  BY <1>2, <1>3, <1>4, <1>5, Zenon DEF Earned

\* One more probe has the result v: rs, n and m become rs, n + 1 and 0, where n counts
\* the results like v; last turns to v, with a callback, if the row is long enough.
LEMMA OddNext ==
    ASSUME NEW m \in Nat
    PROVE  (m + 1) % 2 = 1 <=> m % 2 # 1
<1>1. m % 2 = 1 => (m + 1) % 2 = 0
  OBVIOUS
<1>2. m % 2 = 0 => (m + 1) % 2 = 1
  OBVIOUS
<1>3. m % 2 # 1 => m % 2 = 0
  OBVIOUS
<1> QED
  BY <1>1, <1>2, <1>3

\* Every probe keeps the counters, and calls back only what was earned.
LEMMA ProbeStep ==
    ASSUME ProbeInv, ProbeNext
    PROVE  ProbeInv'
<1>a. successThreshold \in Nat \ {0} /\ failureThreshold \in Nat \ {0}
  BY ProbeAssumption
<1>b. /\ Len(results) \in Nat /\ Len(callbacks) \in Nat /\ consecutiveSuccesses \in Nat /\ consecutiveFailures \in Nat
      /\ results \in Seq(BOOLEAN) /\ callbacks \in Seq({"healthy", "unhealthy"} \X Nat)
  BY DEF ProbeInv, EndsIn
<1>1. CASE Ticks \/ StopLoop \/ Ends
  <2>1. UNCHANGED probeCounters
    BY <1>1 DEF Ticks, StopLoop, Ends
  <2> QED
    BY <2>1 DEF probeCounters, ProbeInv
<1>2. CASE ProbeSucceeds
  <2>1. PICK v : v = TRUE
    OBVIOUS
  <2>2. v \in BOOLEAN /\ results' = Append(results, v) /\ consecutiveSuccesses' = consecutiveSuccesses + 1 /\ consecutiveFailures' = 0
    BY <1>2, <2>1, Zenon DEF ProbeSucceeds
  <2>3. Len(results') = Len(results) + 1 /\ results' \in Seq(BOOLEAN)
    BY <1>b, <2>2
  <2>4. EndsIn(results', v, consecutiveSuccesses')
    <3>1. EndsIn(results, v, consecutiveSuccesses)
      BY <2>1, Zenon DEF ProbeInv
    <3> QED
      BY <1>b, <2>2, <3>1, EndsInGrows
  <2>5. EndsIn(results', FALSE, consecutiveFailures')
    <3>1. PICK f : f = FALSE
      OBVIOUS
    <3>2. v # f
      BY <2>1, <3>1
    <3>3. EndsIn(Append(results, v), f, 0)
      BY <1>b, <2>2, <3>2, EndsInStops
    <3> QED
      BY <2>2, <3>1, <3>3, Zenon
  <2>6. \A j \in 1..Len(callbacks) : Earned(callbacks[j], results', j)
    BY <1>b, <2>2, EarnedKept DEF ProbeInv
  <2>7. consecutiveFailures' \in Nat /\ consecutiveFailures' < failureThreshold /\ consecutiveSuccesses' \in Nat
    BY <1>a, <1>b, <2>2
  <2>8. CASE ~ lastResult /\ consecutiveSuccesses + 1 >= successThreshold
    <3> DEFINE cb == <<"healthy", Len(results) + 1>>
               k == Len(callbacks) + 1
    <3>1. lastResult' = TRUE /\ callbacks' = Append(callbacks, cb)
      BY <1>2, <2>8 DEF ProbeSucceeds, Reports
    <3>2. cb \in {"healthy", "unhealthy"} \X Nat /\ cb[1] = "healthy" /\ cb[2] = Len(results')
      BY <1>b, <2>3
    <3> HIDE DEF cb
    <3>3. Len(callbacks') = k /\ callbacks' \in Seq({"healthy", "unhealthy"} \X Nat) /\ callbacks'[k] = cb /\ \A j \in 1..Len(callbacks) : callbacks'[j] = callbacks[j]
      BY <1>b, <3>1, <3>2
    <3>4. k % 2 = 1
      <4>1. Len(callbacks) % 2 # 1
        BY <2>8, Zenon DEF ProbeInv
      <4> QED
        BY <1>b, <4>1, OddNext
    <3>5. Row(results', v, successThreshold, cb[2])
      BY <1>a, <1>b, <2>2, <2>3, <2>4, <2>8, <3>2, RowCounted
    <3>6. Row(results', TRUE, successThreshold, cb[2])
      BY <2>1, <3>5, Zenon
    <3>7. cb[2] \in Nat /\ cb[2] <= Len(results')
      BY <1>b, <2>3, <3>2
    <3>8. Earned(cb, results', k)
      BY <3>2, <3>4, <3>6, <3>7, Zenon DEF Earned
    <3>9. \A j \in 1..Len(callbacks') : Earned(callbacks'[j], results', j)
      <4>1. 1..Len(callbacks') = 1..Len(callbacks) \cup {k}
        BY <1>b, <3>3
      <4> QED
        BY <2>6, <3>3, <3>8, <4>1
    <3>10. EndsIn(results', TRUE, consecutiveSuccesses')
      BY <2>1, <2>4, Zenon
    <3>11. Len(callbacks') % 2 = 1
      BY <3>3, <3>4
    <3>12. ~ (consecutiveFailures' >= failureThreshold)
      BY <1>a, <2>7
    <3> QED
      BY <2>3, <2>5, <3>1, <3>3, <3>9, <3>10, <3>11, <3>12, Zenon DEF ProbeInv
  <2>9. CASE ~ (~ lastResult /\ consecutiveSuccesses + 1 >= successThreshold)
    <3>1. lastResult' = lastResult /\ callbacks' = callbacks
      BY <1>2, <2>9 DEF ProbeSucceeds
    <3>2. EndsIn(results', TRUE, consecutiveSuccesses')
      BY <2>1, <2>4, Zenon
    <3>3. consecutiveSuccesses' >= successThreshold => lastResult
      BY <2>2, <2>9
    <3>4. ~ (consecutiveFailures' >= failureThreshold)
      BY <1>a, <2>7
    <3>5. lastResult <=> Len(callbacks) % 2 = 1
      BY DEF ProbeInv
    <3> QED
      BY <1>b, <2>3, <2>5, <2>6, <3>1, <3>2, <3>3, <3>4, <3>5, Zenon DEF ProbeInv
  <2> QED
    BY <2>8, <2>9
<1>3. CASE ProbeFails
  <2>1. PICK v : v = FALSE
    OBVIOUS
  <2>2. v \in BOOLEAN /\ results' = Append(results, v) /\ consecutiveFailures' = consecutiveFailures + 1 /\ consecutiveSuccesses' = 0
    BY <1>3, <2>1, Zenon DEF ProbeFails
  <2>3. Len(results') = Len(results) + 1 /\ results' \in Seq(BOOLEAN)
    BY <1>b, <2>2
  <2>4. EndsIn(results', v, consecutiveFailures')
    <3>1. EndsIn(results, v, consecutiveFailures)
      BY <2>1, Zenon DEF ProbeInv
    <3> QED
      BY <1>b, <2>2, <3>1, EndsInGrows
  <2>5. EndsIn(results', TRUE, consecutiveSuccesses')
    <3>1. PICK f : f = TRUE
      OBVIOUS
    <3>2. v # f
      BY <2>1, <3>1
    <3>3. EndsIn(Append(results, v), f, 0)
      BY <1>b, <2>2, <3>2, EndsInStops
    <3> QED
      BY <2>2, <3>1, <3>3, Zenon
  <2>6. \A j \in 1..Len(callbacks) : Earned(callbacks[j], results', j)
    BY <1>b, <2>2, EarnedKept DEF ProbeInv
  <2>7. consecutiveSuccesses' \in Nat /\ consecutiveSuccesses' < successThreshold /\ consecutiveFailures' \in Nat
    BY <1>a, <1>b, <2>2
  <2>8. CASE lastResult /\ consecutiveFailures + 1 >= failureThreshold
    <3> DEFINE cb == <<"unhealthy", Len(results) + 1>>
               k == Len(callbacks) + 1
    <3>1. lastResult' = FALSE /\ callbacks' = Append(callbacks, cb)
      BY <1>3, <2>8 DEF ProbeFails, Reports
    <3>2. cb \in {"healthy", "unhealthy"} \X Nat /\ cb[1] = "unhealthy" /\ cb[2] = Len(results')
      BY <1>b, <2>3
    <3> HIDE DEF cb
    <3>3. Len(callbacks') = k /\ callbacks' \in Seq({"healthy", "unhealthy"} \X Nat) /\ callbacks'[k] = cb /\ \A j \in 1..Len(callbacks) : callbacks'[j] = callbacks[j]
      BY <1>b, <3>1, <3>2
    <3>4. k % 2 # 1
      <4>1. Len(callbacks) % 2 = 1
        BY <2>8, Zenon DEF ProbeInv
      <4> QED
        BY <1>b, <4>1, OddNext
    <3>5. Row(results', v, failureThreshold, cb[2])
      BY <1>a, <1>b, <2>2, <2>3, <2>4, <2>8, <3>2, RowCounted
    <3>6. Row(results', FALSE, failureThreshold, cb[2])
      BY <2>1, <3>5, Zenon
    <3>7. cb[2] \in Nat /\ cb[2] <= Len(results')
      BY <1>b, <2>3, <3>2
    <3>8. Earned(cb, results', k)
      BY <3>2, <3>4, <3>6, <3>7, Zenon DEF Earned
    <3>9. \A j \in 1..Len(callbacks') : Earned(callbacks'[j], results', j)
      <4>1. 1..Len(callbacks') = 1..Len(callbacks) \cup {k}
        BY <1>b, <3>3
      <4> QED
        BY <2>6, <3>3, <3>8, <4>1
    <3>10. EndsIn(results', FALSE, consecutiveFailures')
      BY <2>1, <2>4, Zenon
    <3>11. Len(callbacks') % 2 # 1
      BY <3>3, <3>4
    <3>12. ~ (consecutiveSuccesses' >= successThreshold)
      BY <1>a, <2>7
    <3> QED
      BY <2>3, <2>5, <3>1, <3>3, <3>9, <3>10, <3>11, <3>12, Zenon DEF ProbeInv
  <2>9. CASE ~ (lastResult /\ consecutiveFailures + 1 >= failureThreshold)
    <3>1. lastResult' = lastResult /\ callbacks' = callbacks
      BY <1>3, <2>9 DEF ProbeFails
    <3>2. EndsIn(results', FALSE, consecutiveFailures')
      BY <2>1, <2>4, Zenon
    <3>3. consecutiveFailures' >= failureThreshold => ~ lastResult
      BY <2>2, <2>9
    <3>4. ~ (consecutiveSuccesses' >= successThreshold)
      BY <1>a, <2>7
    <3>5. lastResult <=> Len(callbacks) % 2 = 1
      BY DEF ProbeInv
    <3> QED
      BY <1>b, <2>3, <2>5, <2>6, <3>1, <3>2, <3>3, <3>4, <3>5, Zenon DEF ProbeInv
  <2> QED
    BY <2>8, <2>9
<1> QED
  BY <1>1, <1>2, <1>3 DEF ProbeNext

\* What is reported is true.
THEOREM ReportsAlwaysSafe == ReportsSpec /\ ProbeSpec => []ReportsSafe
<1>1. ReportsInit => ReportsInv
  BY ReportsAssumption DEF ReportsInit, ReportsInv, HeartbeatHonest
<1>2. ProbeInit => ProbeInv
  <2> SUFFICES ASSUME ProbeInit PROVE ProbeInv
    OBVIOUS
  <2>1. results = <<>> /\ callbacks = <<>> /\ consecutiveSuccesses = 0 /\ consecutiveFailures = 0 /\ ~ lastResult
    BY DEF ProbeInit
  <2>2. \A r : EndsIn(results, r, 0)
    BY <2>1 DEF EndsIn, Row
  <2>3. Len(callbacks) = 0 /\ ~ (0 % 2 = 1) /\ 1..Len(callbacks) = {}
    BY <2>1
  <2>4. ~ (0 >= successThreshold) /\ ~ (0 >= failureThreshold)
    BY ProbeAssumption
  <2>5. results \in Seq(BOOLEAN) /\ callbacks \in Seq({"healthy", "unhealthy"} \X Nat)
    BY <2>1
  <2> QED
    BY <2>1, <2>2, <2>3, <2>4, <2>5, Zenon DEF ProbeInv
<1>3. ReportsInv /\ [ReportsNext]_reportVars => ReportsInv'
  BY ReportsStep
<1>4. ProbeInv /\ [ProbeNext]_probeVars => ProbeInv'
  <2>1. CASE UNCHANGED probeVars
    BY <2>1 DEF probeVars, ProbeInv
  <2> QED
    BY <2>1, ProbeStep
<1>5. ReportsInv /\ ProbeInv => ReportsSafe
  <2> SUFFICES ASSUME ReportsInv, ProbeInv PROVE ReportsSafe
    OBVIOUS
  <2>1. HeartbeatHonest /\ NeverOverstated
    BY DEF ReportsInv, NeverOverstated
  <2>2. ASSUME NEW j \in 1..Len(callbacks)
        PROVE  /\ callbacks[j][1] = IF j % 2 = 1 THEN "healthy" ELSE "unhealthy"
               /\ IF callbacks[j][1] = "healthy" THEN InARow(TRUE, successThreshold, callbacks[j][2])
                                                 ELSE InARow(FALSE, failureThreshold, callbacks[j][2])
    <3>1. Earned(callbacks[j], results, j)
      BY DEF ProbeInv
    <3>2. \A r, n, k : InARow(r, n, k) <=> Row(results, r, n, k)
      BY Zenon DEF InARow, Row
    <3>3. CASE j % 2 = 1
      BY <3>1, <3>2, <3>3, Zenon DEF Earned
    <3>4. CASE j % 2 # 1
      <4>1. callbacks[j][1] = "unhealthy" /\ "unhealthy" # "healthy"
        BY <3>1, <3>4 DEF Earned
      <4> QED
        BY <3>1, <3>2, <3>4, <4>1, Zenon DEF Earned
    <3> QED
      BY <3>3, <3>4
  <2>3. ASSUME InARow(TRUE, successThreshold, Len(results)) PROVE Len(callbacks) % 2 = 1
    <3>1. PICK v : v = TRUE
      OBVIOUS
    <3>2. Row(results, v, successThreshold, Len(results)) /\ EndsIn(results, v, consecutiveSuccesses)
      BY <2>3, <3>1, Zenon DEF InARow, Row, ProbeInv
    <3>3. successThreshold <= consecutiveSuccesses
      BY <3>2, RowCounted, ProbeAssumption DEF ProbeInv
    <3> QED
      BY <3>3, ProbeAssumption DEF ProbeInv, EndsIn
  <2>4. ASSUME InARow(FALSE, failureThreshold, Len(results)) PROVE Len(callbacks) % 2 = 0
    <3>1. PICK v : v = FALSE
      OBVIOUS
    <3>2. Row(results, v, failureThreshold, Len(results)) /\ EndsIn(results, v, consecutiveFailures)
      BY <2>4, <3>1, Zenon DEF InARow, Row, ProbeInv
    <3>3. failureThreshold <= consecutiveFailures
      BY <3>2, RowCounted, ProbeAssumption DEF ProbeInv
    <3>4. ~ lastResult
      BY <3>3 DEF ProbeInv
    <3>5. Len(callbacks) \in Nat /\ Len(callbacks) % 2 # 1
      BY <3>4 DEF ProbeInv
    <3> QED
      BY <3>5
  <2>5. CallbacksEarned
    BY <2>2, <2>3, <2>4, Zenon DEF CallbacksEarned
  <2> QED
    BY <2>1, <2>5 DEF ReportsSafe
<1> QED
  BY <1>1, <1>2, <1>3, <1>4, <1>5, PTL DEF ReportsSpec, ProbeSpec

-----------------------------------------------------------------------------
(* The image cache *)

ImagesTypes ==
    /\ pullers \in [Refs -> Pullers \cup {NoPuller}]
    /\ calls \in [Pullers -> [at : {"away", "fetching", "unpacking", "waiting"},
                              ref : Refs \cup {NoPuller}, waitsFor : Pullers \cup {NoPuller}]]

\* Whoever pulls, pulls an image, and what is being unpacked is in containerd unless
\* somebody has removed it since.
PullsAnImage ==
    \A c \in Pullers :
        /\ calls[c].at \in {"fetching", "unpacking"} => calls[c].ref \in Refs
        /\ calls[c].at = "unpacking" => calls[c].ref \in inDaemon \cup removed

ImagesInv == ImagesTypes /\ PullsAnImage /\ OnePull /\ CachedExists

\* Every step of PullImage, containerd and RemoveImage keeps the invariant.
LEMMA ImagesStep ==
    ASSUME ImagesAssumption, ImagesInv, [ImagesNext]_imageVars
    PROVE  ImagesInv'
<1> USE DEF ImagesAssumption, ImagesInv, ImagesTypes, PullsAnImage, OnePull, CachedExists
<1>1. ASSUME NEW c \in Pullers, NEW r \in Refs, PullImage(c, r) PROVE ImagesInv'
  <2>1. CASE pullers[r] = NoPuller
    <3>1. /\ calls' = [calls EXCEPT ![c] = [at |-> "fetching", ref |-> r, waitsFor |-> NoPuller]]
          /\ pullers' = [pullers EXCEPT ![r] = c]
      BY <1>1, <2>1 DEF PullImage, Becomes
    <3>2. images' = images /\ inDaemon' = inDaemon /\ removed' = removed
      BY <1>1 DEF PullImage
    <3>3. ImagesTypes'
      BY <3>1
    <3>4. OnePull'
      BY <3>1, <2>1
    <3>5. PullsAnImage'
      BY <3>1, <3>2
    <3> QED
      BY <3>2, <3>3, <3>4, <3>5
  <2>2. CASE pullers[r] # NoPuller
    <3>1. /\ calls' = [calls EXCEPT ![c] = [at |-> "waiting", ref |-> r, waitsFor |-> pullers[r]]]
          /\ pullers' = pullers
      BY <1>1, <2>2 DEF PullImage, Becomes
    <3> QED
      BY <1>1, <3>1 DEF PullImage
  <2> QED
    BY <2>1, <2>2
<1>2. ASSUME NEW c \in Pullers, Fetched(c) PROVE ImagesInv'
  BY <1>2 DEF Fetched, Becomes
<1>3. ASSUME NEW c \in Pullers, PullFails(c) PROVE ImagesInv'
  BY <1>3 DEF PullFails, Away, Woken
<1>4. ASSUME NEW c \in Pullers, PullSucceeds(c) PROVE ImagesInv'
  BY <1>4 DEF PullSucceeds, Away, Woken
<1>5. ASSUME NEW r \in Refs, RemoveImage(r) PROVE ImagesInv'
  <2>1. ASSUME NEW c \in Pullers, calls[c].at = "unpacking" PROVE calls[c].ref \in inDaemon' \cup removed'
    BY <1>5, <2>1 DEF RemoveImage
  <2> QED
    BY <1>5, <2>1 DEF RemoveImage
<1>6. CASE UNCHANGED imageVars
  BY <1>6 DEF imageVars
<1> QED
  BY <1>1, <1>2, <1>3, <1>4, <1>5, <1>6 DEF ImagesNext, Pulling

\* However pulls, failures and removals interleave: every pull under way is the one
\* that later callers find, and the cache names no image that containerd does not
\* have, but for those removed during a pull.
THEOREM ImagesAlwaysSafe == ImagesSpec => []ImagesSafe
<1>1. ImagesInit => ImagesInv
  BY ImagesAssumption DEF ImagesInit, ImagesInv, ImagesTypes, PullsAnImage, OnePull, CachedExists, Away
<1>2. ImagesInv => ImagesSafe
  BY DEF ImagesInv, ImagesSafe
<1>3. ImagesInv /\ [ImagesNext]_imageVars => ImagesInv'
  BY ImagesStep, ImagesAssumption
<1> QED
  BY <1>1, <1>2, <1>3, PTL DEF ImagesSpec

-----------------------------------------------------------------------------
(* The CRI server *)

\* What containerd keeps of a container.
CRIContainers ==
    [there : BOOLEAN, task : {"none", "created", "running", "stopped"}, signal : {"none", "TERM", "KILL"},
     exec : {"none", "running", "ended"}]

\* Where a handler can be between two calls to containerd.
Places == {"idle", "created", "podTask", "podStart", "start", "stopWait", "stop", "stopped", "removeTask", "remove", "exec"}

\* The daemon, the server's map and the handlers.
CRITypes ==
    /\ daemon \in [ContainerIds -> CRIContainers]
    /\ store \in [ContainerIds -> {"unknown", "created", "ready", "running", "notReady", "exited"}]
    /\ handler \in [id : ContainerIds \cup {NoId}, at : Places, gone : BOOLEAN]

\* What holds of the container d and the entry s of an id c, for the handler h.  A
\* handler that makes a container has one without an entry, the others have an entry
\* and with it a container; only the one that makes a pod sandbox knows of a container
\* without a task.
Agrees(c, d, s, h, us, ab) ==
    /\ s # "unknown" => d.there /\ c \in us
    /\ d.there /\ s = "unknown" /\ h.id # c => d.task # "none" \/ c \in ab
    /\ d.exec # "none" => (h.id = c /\ h.at = "exec") \/ c \in ab
    /\ h.id = c =>
          /\ h.at # "idle" /\ c \in us
          /\ h.at \in {"created", "podTask"} => d.there /\ d.task = "none" /\ s = "unknown"
          /\ h.at = "podStart" => d.there /\ s = "unknown"
          /\ h.at \in {"start", "stopWait", "stop", "stopped", "removeTask", "remove", "exec"} => s # "unknown"
          /\ h.gone => c \in ab

\* What the daemon has and what the map says agree, for one container.
CRIFor(c) == Agrees(c, daemon[c], store[c], handler, used, abandoned)

\* The inductive invariant.
CRIInv == CRITypes /\ \A c \in ContainerIds : CRIFor(c)

\* What containerd makes of a container.
LEMMA ContainerOps ==
    ASSUME NEW d \in CRIContainers
    PROVE  /\ Created(d) \in CRIContainers /\ Created(d).there /\ Created(d).task = "none" /\ Created(d).exec = "none"
           /\ TaskCreated(d) \in CRIContainers /\ (TaskCreated(d).there <=> d.there) /\ TaskCreated(d).exec = d.exec
           /\ Started(d) \in CRIContainers /\ (Started(d).there <=> d.there) /\ Started(d).exec = d.exec
           /\ ExecAdded(d) \in CRIContainers /\ (ExecAdded(d).there <=> d.there) /\ ExecAdded(d).task = d.task
  BY DEF CRIContainers, Created, NoContainer, TaskCreated, Started, ExecAdded

\* A signal leaves a container what it is but for the task it ends.
LEMMA KilledOp ==
    ASSUME NEW d \in CRIContainers, NEW s \in {"TERM", "KILL"}
    PROVE  /\ Killed(d, s) \in CRIContainers /\ (Killed(d, s).there <=> d.there)
           /\ Killed(d, s).exec = d.exec /\ Killed(d, s).task = d.task
  BY DEF CRIContainers, Killed

\* A deletion of the task or of the container takes away that and nothing more.
LEMMA DeleteOps ==
    ASSUME NEW d \in CRIContainers
    PROVE  /\ TaskDeleted(d) \in CRIContainers /\ (TaskDeleted(d).there <=> d.there) /\ TaskDeleted(d).exec \in {d.exec, "none"}
           /\ Deleted(d) \in CRIContainers /\ Deleted(d).exec \in {d.exec, "none"}
           /\ Deleted(d).there => d.there /\ Deleted(d).task # "none"
           /\ ExecDeleted(d) \in CRIContainers /\ (ExecDeleted(d).there <=> d.there) /\ ExecDeleted(d).task = d.task
           /\ d.exec = "ended" => ExecDeleted(d).exec = "none"
<1>1. /\ TaskDeleted(d) \in CRIContainers /\ (TaskDeleted(d).there <=> d.there) /\ TaskDeleted(d).exec \in {d.exec, "none"}
  BY DEF CRIContainers, TaskDeleted
<1>2. /\ ExecDeleted(d) \in CRIContainers /\ (ExecDeleted(d).there <=> d.there) /\ ExecDeleted(d).task = d.task
      /\ d.exec = "ended" => ExecDeleted(d).exec = "none"
  BY DEF CRIContainers, ExecDeleted
<1>3. NoContainer \in CRIContainers /\ ~ NoContainer.there /\ NoContainer.exec = "none"
  BY DEF CRIContainers, NoContainer
<1>4. /\ Deleted(d) \in CRIContainers /\ Deleted(d).exec \in {d.exec, "none"}
      /\ Deleted(d).there => d.there /\ Deleted(d).task # "none"
  BY <1>3 DEF Deleted, CanDelete
<1> QED
  BY <1>1, <1>2, <1>4

\* The states the server's map can give a container.
CRIStates == {"unknown", "created", "ready", "running", "notReady", "exited"}

\* A handler: the container, the call it is at, and whether its caller is gone.
Handlers == [id : ContainerIds \cup {NoId}, at : Places, gone : BOOLEAN]

\* A step of the handler h of the id c, or of containerd: the container is d and the
\* entry s afterwards.
LEMMA CRIStepFor ==
    ASSUME CRIInv, NEW c \in ContainerIds, NEW d \in CRIContainers, NEW s \in CRIStates, NEW h \in Handlers,
           daemon' = [daemon EXCEPT ![c] = d], store' = [store EXCEPT ![c] = s], handler' = h,
           h = handler \/ (handler.id \in {c, NoId} /\ h.id \in {c, NoId}),
           used \subseteq used', abandoned \subseteq abandoned',
           Agrees(c, d, s, h, used', abandoned')
    PROVE  CRIInv'
<1>1. CRITypes'
  BY DEF CRIInv, CRITypes, CRIStates, Handlers
<1>2. ASSUME NEW q \in ContainerIds, q # c PROVE CRIFor(q)'
  <2>1. daemon'[q] = daemon[q] /\ store'[q] = store[q]
    BY <1>2 DEF CRIInv, CRITypes
  <2>2. CASE handler' = handler
    BY <1>2, <2>1, <2>2 DEF CRIInv, CRIFor, Agrees
  <2>3. CASE handler.id # q /\ handler'.id # q
    BY <1>2, <2>1, <2>3 DEF CRIInv, CRIFor, Agrees
  <2> QED
    BY <1>2, <2>2, <2>3, CRIAssumption
<1>3. daemon'[c] = d /\ store'[c] = s
  BY DEF CRIInv, CRITypes
<1>4. CRIFor(c)'
  BY <1>3 DEF CRIFor
<1> QED
  BY <1>1, <1>2, <1>4 DEF CRIInv

\* What is known of the handler and of what it works on.
LEMMA CRIKnown ==
    ASSUME CRIInv, NEW c \in ContainerIds
    PROVE  /\ daemon[c] \in CRIContainers /\ store[c] \in CRIStates /\ handler \in Handlers
           /\ daemon = [daemon EXCEPT ![c] = daemon[c]] /\ store = [store EXCEPT ![c] = store[c]]
           /\ CRIFor(c) /\ c # NoId
           /\ NoHandler \in Handlers /\ NoHandler.id = NoId /\ ~ NoHandler.gone
           /\ \A p \in Places : /\ [handler EXCEPT !.at = p] \in Handlers
                                /\ [handler EXCEPT !.at = p].id = handler.id /\ [handler EXCEPT !.at = p].at = p
                                /\ [handler EXCEPT !.at = p].gone <=> handler.gone
           /\ \A p \in Places : LET h == [id |-> c, at |-> p, gone |-> FALSE] IN
                 h \in Handlers /\ h.id = c /\ h.at = p /\ ~ h.gone
<1>1. daemon[c] \in CRIContainers /\ store[c] \in CRIStates /\ handler \in Handlers /\ CRIFor(c)
  BY DEF CRIInv, CRITypes, CRIStates, Handlers
<1>2. daemon = [daemon EXCEPT ![c] = daemon[c]] /\ store = [store EXCEPT ![c] = store[c]]
  BY DEF CRIInv, CRITypes
<1>3. NoHandler \in Handlers /\ NoHandler.id = NoId /\ ~ NoHandler.gone
  BY DEF NoHandler, Handlers, Places
<1>4. ASSUME NEW p \in Places
      PROVE  /\ [handler EXCEPT !.at = p] \in Handlers
             /\ [handler EXCEPT !.at = p].id = handler.id /\ [handler EXCEPT !.at = p].at = p
             /\ [handler EXCEPT !.at = p].gone <=> handler.gone
  BY <1>1 DEF Handlers
<1>5. ASSUME NEW p \in Places, NEW h, h = [id |-> c, at |-> p, gone |-> FALSE]
      PROVE  h \in Handlers /\ h.id = c /\ h.at = p /\ ~ h.gone
  BY <1>5 DEF Handlers
<1> QED
  BY <1>1, <1>2, <1>3, <1>4, <1>5, CRIAssumption

\* The requests.
LEMMA RequestInv ==
    ASSUME CRIInv, NEW c \in ContainerIds, CRIRequest(c)
    PROVE  CRIInv'
<1> DEFINE d == daemon[c]
<1>a. /\ d \in CRIContainers /\ store[c] \in CRIStates /\ store = [store EXCEPT ![c] = store[c]]
      /\ daemon = [daemon EXCEPT ![c] = d] /\ CRIFor(c) /\ c # NoId
  BY CRIKnown
<1>b. handler.id = NoId
  BY CRIKnown DEF CRIRequest, NewContainer, StartNewTask, StopTask, RemoveKills, ExecSync
<1>c. abandoned' = abandoned /\ used \subseteq used' /\ store' = store
  BY DEF CRIRequest, NewContainer, StartNewTask, StopTask, RemoveKills, ExecSync
<1>d. /\ store[c] # "unknown" => d.there /\ c \in used
      /\ d.there /\ store[c] = "unknown" => d.task # "none" \/ c \in abandoned
      /\ d.exec # "none" => c \in abandoned
  BY <1>a, <1>b DEF CRIFor, Agrees
<1>e. PICK p \in Places : handler' = [id |-> c, at |-> p, gone |-> FALSE] /\
         \/ NewContainer(c) /\ p \in {"podTask", "created"}
         \/ StartNewTask(c) /\ p = "start"
         \/ StopTask(c) /\ p \in {"stop", "stopWait", "stopped"}
         \/ RemoveKills(c) /\ p \in {"removeTask", "remove"}
         \/ ExecSync(c) /\ p = "exec"
  BY DEF CRIRequest, NewContainer, StartNewTask, StopTask, RemoveKills, ExecSync, Serves, Places
<1> DEFINE h == [id |-> c, at |-> p, gone |-> FALSE]
<1>f. handler' = h /\ h \in Handlers /\ h.id = c /\ h.at = p /\ ~ h.gone
  BY <1>e, CRIKnown
<1> HIDE DEF h, d
<1>1. CASE NewContainer(c) /\ p \in {"podTask", "created"}
  <2>1. daemon' = [daemon EXCEPT ![c] = Created(d)] /\ c \in used' /\ store[c] = "unknown"
    BY <1>1, <1>d DEF NewContainer, d
  <2>2. Created(d) \in CRIContainers /\ Created(d).there /\ Created(d).task = "none" /\ Created(d).exec = "none"
    BY <1>a, ContainerOps
  <2>3. Agrees(c, Created(d), store[c], h, used', abandoned')
    BY <1>1, <1>f, <2>1, <2>2 DEF Agrees
  <2> QED
    BY <1>a, <1>b, <1>c, <1>f, <2>1, <2>2, <2>3, CRIStepFor
<1>2. CASE StartNewTask(c) /\ p = "start"
  <2>1. daemon' = [daemon EXCEPT ![c] = TaskCreated(d)] /\ store[c] # "unknown"
    BY <1>2 DEF StartNewTask, d
  <2>2. TaskCreated(d) \in CRIContainers /\ (TaskCreated(d).there <=> d.there) /\ TaskCreated(d).exec = d.exec
    BY <1>a, ContainerOps
  <2>3. PICK e : e = TaskCreated(d)
    OBVIOUS
  <2>4. daemon' = [daemon EXCEPT ![c] = e] /\ e \in CRIContainers /\ (e.there <=> d.there) /\ e.exec = d.exec
    BY <2>1, <2>2, <2>3
  <2>5. Agrees(c, e, store[c], h, used', abandoned')
    BY <1>2, <1>c, <1>d, <1>f, <2>1, <2>4 DEF Agrees
  <2> QED
    BY <1>a, <1>b, <1>c, <1>f, <2>4, <2>5, CRIStepFor
<1>3. CASE StopTask(c) /\ p \in {"stop", "stopWait", "stopped"}
  <2>1. PICK e \in {d, Killed(d, "TERM")} : daemon' = [daemon EXCEPT ![c] = e]
    BY <1>3, <1>a DEF StopTask, d
  <2>2. store[c] # "unknown"
    BY <1>3 DEF StopTask
  <2>3. e \in CRIContainers /\ (e.there <=> d.there) /\ e.exec = d.exec
    BY <1>a, KilledOp
  <2>4. Agrees(c, e, store[c], h, used', abandoned')
    BY <1>3, <1>c, <1>d, <1>f, <2>2, <2>3 DEF Agrees
  <2> QED
    BY <1>a, <1>b, <1>c, <1>f, <2>1, <2>3, <2>4, CRIStepFor
<1>4. CASE RemoveKills(c) /\ p \in {"removeTask", "remove"}
  <2>1. PICK e \in {d, Killed(d, "KILL")} : daemon' = [daemon EXCEPT ![c] = e]
    BY <1>4, <1>a DEF RemoveKills, d
  <2>2. store[c] # "unknown"
    BY <1>4 DEF RemoveKills
  <2>3. e \in CRIContainers /\ (e.there <=> d.there) /\ e.exec = d.exec
    BY <1>a, KilledOp
  <2>4. Agrees(c, e, store[c], h, used', abandoned')
    BY <1>4, <1>c, <1>d, <1>f, <2>2, <2>3 DEF Agrees
  <2> QED
    BY <1>a, <1>b, <1>c, <1>f, <2>1, <2>3, <2>4, CRIStepFor
<1>5. CASE ExecSync(c) /\ p = "exec"
  <2>1. daemon' = [daemon EXCEPT ![c] = ExecAdded(d)] /\ store[c] # "unknown"
    BY <1>5 DEF ExecSync, d
  <2>2. ExecAdded(d) \in CRIContainers /\ (ExecAdded(d).there <=> d.there) /\ ExecAdded(d).task = d.task
    BY <1>a, ContainerOps
  <2>3. PICK e : e = ExecAdded(d)
    OBVIOUS
  <2>4. daemon' = [daemon EXCEPT ![c] = e] /\ e \in CRIContainers /\ (e.there <=> d.there) /\ e.task = d.task
    BY <2>1, <2>2, <2>3
  <2>5. Agrees(c, e, store[c], h, used', abandoned')
    BY <1>5, <1>c, <1>d, <1>f, <2>1, <2>4 DEF Agrees
  <2> QED
    BY <1>a, <1>b, <1>c, <1>f, <2>4, <2>5, CRIStepFor
<1> QED
  BY <1>e, <1>1, <1>2, <1>3, <1>4, <1>5

\* The handlers of StopContainer, RemoveContainer and ExecSync, and those of a pod
\* sandbox: what each of them leaves.
LEMMA HandlerInv ==
    ASSUME CRIInv, NEW c \in ContainerIds, CRIHandler(c)
    PROVE  CRIInv'
<1> DEFINE d == daemon[c]
           s == store[c]
<1>a. /\ d \in CRIContainers /\ s \in CRIStates /\ store = [store EXCEPT ![c] = s]
      /\ daemon = [daemon EXCEPT ![c] = d] /\ CRIFor(c) /\ c # NoId /\ handler \in Handlers
  BY CRIKnown
<1>b. handler.id = c
  BY DEF CRIHandler, At, CreateContainer, PodNewTask, PodNewTaskFails, RunPodSandbox, StartFails, StartContainer,
         StopSeesExit, StopTimesOut, StopDeletes, StopReturns, RemoveDeletesTask, RemoveReturns, ExecReturns
<1>c. abandoned' = abandoned /\ used' = used
  BY DEF CRIHandler, CreateContainer, PodNewTask, PodNewTaskFails, RunPodSandbox, StartFails, StartContainer,
         StopSeesExit, StopTimesOut, StopDeletes, StopReturns, RemoveDeletesTask, RemoveReturns, ExecReturns
<1>d. /\ s # "unknown" => d.there /\ c \in used
      /\ d.exec # "none" => handler.at = "exec" \/ c \in abandoned
      /\ handler.at # "idle" /\ c \in used
      /\ handler.at \in {"created", "podTask"} => d.there /\ d.task = "none" /\ s = "unknown"
      /\ handler.at = "podStart" => d.there /\ s = "unknown"
      /\ handler.at \in {"start", "stopWait", "stop", "stopped", "removeTask", "remove", "exec"} => s # "unknown"
      /\ handler.gone => c \in abandoned
  BY <1>a, <1>b DEF CRIFor, Agrees
<1>n. NoHandler \in Handlers /\ NoHandler.id = NoId /\ ~ NoHandler.gone
  BY CRIKnown
<1> HIDE DEF d, s
<1>1. ASSUME NEW e \in CRIContainers, NEW t \in CRIStates, handler' = NoHandler,
             daemon' = [daemon EXCEPT ![c] = e], store' = [store EXCEPT ![c] = t],
             t # "unknown" => e.there /\ c \in used,
             e.there /\ t = "unknown" => e.task # "none" \/ c \in abandoned,
             e.exec # "none" => c \in abandoned
      PROVE  CRIInv'
  <2>1. Agrees(c, e, t, NoHandler, used', abandoned')
    BY <1>1, <1>a, <1>c, <1>n DEF Agrees
  <2> QED
    BY <1>1, <1>b, <1>c, <1>n, <2>1, CRIStepFor
<1>2. ASSUME NEW e \in CRIContainers, NEW p \in {"podStart", "stop", "stopped", "remove"}, handler' = [handler EXCEPT !.at = p],
             daemon' = [daemon EXCEPT ![c] = e], store' = store,
             handler.at # "exec", s = "unknown" <=> p = "podStart",
             e.there <=> d.there, d.there, e.exec \in {d.exec, "none"}
      PROVE  CRIInv'
  <2> DEFINE h == [handler EXCEPT !.at = p]
  <2>1. h \in Handlers /\ h.id = c /\ h.at = p /\ (h.gone <=> handler.gone)
    BY <1>a, <1>b DEF Handlers, Places
  <2>2. handler' = h
    BY <1>2
  <2> HIDE DEF h
  <2>3. Agrees(c, e, s, h, used', abandoned')
    BY <1>2, <1>c, <1>d, <2>1 DEF Agrees
  <2>4. store' = [store EXCEPT ![c] = s]
    BY <1>2, <1>a
  <2> QED
    BY <1>2, <1>a, <1>b, <1>c, <2>1, <2>2, <2>3, <2>4, CRIStepFor
<1>3. CASE CreateContainer(c)
  <2>1. handler' = NoHandler /\ daemon' = daemon /\ store' = [store EXCEPT ![c] = "created"] /\ handler.at = "created"
    BY <1>3 DEF CreateContainer, Return, At
  <2> QED
    BY <1>1, <1>a, <1>d, <2>1 DEF CRIStates
<1>4. CASE PodNewTask(c)
  <2>1. /\ handler' = [handler EXCEPT !.at = "podStart"] /\ daemon' = [daemon EXCEPT ![c] = TaskCreated(d)]
        /\ store' = store /\ handler.at = "podTask"
    BY <1>4 DEF PodNewTask, Goto, At, d
  <2>2. TaskCreated(d) \in CRIContainers /\ (TaskCreated(d).there <=> d.there) /\ TaskCreated(d).exec = d.exec
    BY <1>a, ContainerOps
  <2> QED
    BY <1>2, <1>d, <2>1, <2>2
<1>5. CASE PodNewTaskFails(c)
  <2>1. /\ handler' = NoHandler /\ store' = store /\ handler.at = "podTask"
        /\ daemon' = [daemon EXCEPT ![c] = IF ~ handler.gone THEN Deleted(d) ELSE d]
    BY <1>5 DEF PodNewTaskFails, Return, At, Put, Reached, d
  <2>2. Deleted(d) \in CRIContainers /\ Deleted(d).exec \in {d.exec, "none"} /\ (Deleted(d).there => Deleted(d).task # "none")
    BY <1>a, DeleteOps
  <2> QED
    BY <1>1, <1>a, <1>d, <2>1, <2>2
<1>6. CASE RunPodSandbox(c)
  <2>1. /\ handler' = NoHandler /\ store' = [store EXCEPT ![c] = "ready"] /\ handler.at = "podStart"
        /\ daemon' = [daemon EXCEPT ![c] = Started(d)]
    BY <1>6 DEF RunPodSandbox, Return, At, d
  <2>2. Started(d) \in CRIContainers /\ (Started(d).there <=> d.there) /\ Started(d).exec = d.exec
    BY <1>a, ContainerOps
  <2> QED
    BY <1>1, <1>d, <2>1, <2>2 DEF CRIStates
<1>7. CASE StartFails(c)
  <2>1. PICK t \in {"created", "stopped"} :
           LET x == [d EXCEPT !.task = t]  y == TaskDeleted(x) IN
           daemon' = [daemon EXCEPT ![c] =
                        IF handler.gone THEN x ELSE IF handler.at = "podStart" THEN Deleted(y) ELSE y]
    BY <1>7, <1>b DEF StartFails, At, Reached, d
  <2>2. handler' = NoHandler /\ store' = store /\ handler.at \in {"podStart", "start"}
    BY <1>7 DEF StartFails, Return, At
  <2> DEFINE x == [d EXCEPT !.task = t]
             y == TaskDeleted(x)
  <2>3. x \in CRIContainers /\ (x.there <=> d.there) /\ x.exec = d.exec
    BY <1>a DEF CRIContainers
  <2> HIDE DEF x
  <2>4. y \in CRIContainers /\ (y.there <=> d.there) /\ y.exec \in {d.exec, "none"}
    BY <2>3, DeleteOps
  <2> HIDE DEF y
  <2>5. Deleted(y) \in CRIContainers /\ Deleted(y).exec \in {y.exec, "none"} /\ (Deleted(y).there => Deleted(y).task # "none")
    BY <2>4, DeleteOps
  <2>6. daemon' = [daemon EXCEPT ![c] = IF handler.gone THEN x ELSE IF handler.at = "podStart" THEN Deleted(y) ELSE y]
    BY <2>1 DEF x, y
  <2>7. CASE handler.gone
    BY <1>1, <1>a, <1>d, <2>2, <2>3, <2>6, <2>7
  <2>8. CASE ~ handler.gone /\ handler.at = "podStart"
    BY <1>1, <1>a, <1>d, <2>2, <2>4, <2>5, <2>6, <2>8
  <2>9. CASE ~ handler.gone /\ handler.at = "start"
    BY <1>1, <1>a, <1>d, <2>2, <2>4, <2>6, <2>9
  <2> QED
    BY <2>2, <2>7, <2>8, <2>9
<1>8. CASE StartContainer(c)
  <2>1. /\ handler' = NoHandler /\ store' = [store EXCEPT ![c] = "running"] /\ handler.at = "start"
        /\ daemon' = [daemon EXCEPT ![c] = Started(d)]
    BY <1>8 DEF StartContainer, Return, At, d
  <2>2. Started(d) \in CRIContainers /\ (Started(d).there <=> d.there) /\ Started(d).exec = d.exec
    BY <1>a, ContainerOps
  <2> QED
    BY <1>1, <1>d, <2>1, <2>2 DEF CRIStates
<1>9. CASE StopSeesExit(c)
  <2>1. handler' = [handler EXCEPT !.at = "stop"] /\ daemon' = daemon /\ store' = store /\ handler.at = "stopWait"
    BY <1>9 DEF StopSeesExit, Goto, At
  <2> QED
    BY <1>2, <1>a, <1>d, <2>1
<1>10. CASE StopTimesOut(c)
  <2>1. /\ handler' = [handler EXCEPT !.at = "stop"] /\ store' = store /\ handler.at = "stopWait"
        /\ daemon' = [daemon EXCEPT ![c] = IF ~ handler.gone THEN Killed(d, "KILL") ELSE d]
    BY <1>10 DEF StopTimesOut, Goto, At, Put, Reached, d
  <2>2. Killed(d, "KILL") \in CRIContainers /\ (Killed(d, "KILL").there <=> d.there) /\ Killed(d, "KILL").exec = d.exec
    BY <1>a, KilledOp
  <2> QED
    BY <1>2, <1>a, <1>d, <2>1, <2>2
<1>11. CASE StopDeletes(c) \/ RemoveDeletesTask(c)
  <2>1. PICK p \in {"stopped", "remove"} : handler' = [handler EXCEPT !.at = p]
    BY <1>11 DEF StopDeletes, RemoveDeletesTask, Goto
  <2>2. /\ store' = store /\ handler.at \in {"stop", "removeTask"}
        /\ daemon' = [daemon EXCEPT ![c] = IF ~ handler.gone THEN TaskDeleted(d) ELSE d]
    BY <1>11 DEF StopDeletes, RemoveDeletesTask, At, Put, Reached, d
  <2>3. TaskDeleted(d) \in CRIContainers /\ (TaskDeleted(d).there <=> d.there) /\ TaskDeleted(d).exec \in {d.exec, "none"}
    BY <1>a, DeleteOps
  <2> QED
    BY <1>2, <1>a, <1>d, <2>1, <2>2, <2>3
<1>12. CASE StopReturns(c)
  <2>1. PICK t \in {"notReady", "exited"} : store' = [store EXCEPT ![c] = t]
    BY <1>12 DEF StopReturns
  <2>2. handler' = NoHandler /\ daemon' = daemon /\ handler.at = "stopped"
    BY <1>12 DEF StopReturns, Return, At
  <2> QED
    BY <1>1, <1>a, <1>d, <2>1, <2>2 DEF CRIStates
<1>13. CASE RemoveReturns(c)
  <2>1. /\ handler' = NoHandler /\ store' = [store EXCEPT ![c] = "unknown"] /\ handler.at = "remove"
        /\ daemon' = [daemon EXCEPT ![c] = IF ~ handler.gone THEN Deleted(d) ELSE d]
    BY <1>13 DEF RemoveReturns, Return, At, Put, Reached, d
  <2>2. Deleted(d) \in CRIContainers /\ Deleted(d).exec \in {d.exec, "none"} /\ (Deleted(d).there => Deleted(d).task # "none")
    BY <1>a, DeleteOps
  <2> QED
    BY <1>1, <1>a, <1>d, <2>1, <2>2 DEF CRIStates
<1>14. CASE ExecReturns(c)
  <2>1. /\ handler' = NoHandler /\ store' = store /\ handler.at = "exec"
        /\ d.exec = "ended" \/ handler.gone
        /\ daemon' = [daemon EXCEPT ![c] = IF ~ handler.gone THEN ExecDeleted(d) ELSE d]
    BY <1>14 DEF ExecReturns, Return, At, Put, Reached, d
  <2>2. /\ ExecDeleted(d) \in CRIContainers /\ (ExecDeleted(d).there <=> d.there)
        /\ d.exec = "ended" => ExecDeleted(d).exec = "none"
    BY <1>a, DeleteOps
  <2> QED
    BY <1>1, <1>a, <1>d, <2>1, <2>2
<1> QED
  BY <1>3, <1>4, <1>5, <1>6, <1>7, <1>8, <1>9, <1>10, <1>11, <1>12, <1>13, <1>14 DEF CRIHandler

\* A task or a command ends.
LEMMA DaemonInv ==
    ASSUME CRIInv, NEW c \in ContainerIds, DaemonStep(c)
    PROVE  CRIInv'
<1> DEFINE d == daemon[c]
<1>a. d \in CRIContainers /\ store[c] \in CRIStates /\ store = [store EXCEPT ![c] = store[c]] /\ CRIFor(c) /\ handler \in Handlers
  BY CRIKnown
<1>1. PICK e \in CRIContainers :
         /\ daemon' = [daemon EXCEPT ![c] = e] /\ (e.there <=> d.there)
         /\ d.task # "none" => e.task # "none"
         /\ d.task = "none" => e.task = "none"
         /\ d.exec = "none" => e.exec = "none"
  <2>1. CASE TaskEnds(c)
    <3> DEFINE e == [d EXCEPT !.task = "stopped", !.exec = IF d.exec = "running" THEN "ended" ELSE d.exec]
    <3>1. daemon' = [daemon EXCEPT ![c] = e]
      BY <2>1 DEF TaskEnds, CRIInv, CRITypes, CRIContainers
    <3>2. e \in CRIContainers /\ (e.there <=> d.there) /\ e.task = "stopped" /\ (d.exec = "none" => e.exec = "none")
      BY <1>a DEF CRIContainers
    <3>3. d.task # "none"
      BY <2>1 DEF TaskEnds
    <3> QED
      BY <3>1, <3>2, <3>3
  <2>2. CASE ExecEnds(c)
    <3> DEFINE e == [d EXCEPT !.exec = "ended"]
    <3>1. daemon' = [daemon EXCEPT ![c] = e] /\ d.exec = "running"
      BY <2>2 DEF ExecEnds, CRIInv, CRITypes, CRIContainers
    <3>2. e \in CRIContainers /\ (e.there <=> d.there) /\ e.task = d.task
      BY <1>a DEF CRIContainers
    <3> QED
      BY <3>1, <3>2
  <2> QED
    BY <2>1, <2>2 DEF DaemonStep
<1>2. store' = store /\ used' = used /\ handler' = handler /\ abandoned' = abandoned
  BY DEF DaemonStep
<1>3. Agrees(c, d, store[c], handler, used, abandoned)
  BY <1>a DEF CRIFor
<1> HIDE DEF d
<1>4. Agrees(c, e, store[c], handler, used', abandoned')
  BY <1>1, <1>2, <1>3 DEF Agrees
<1> QED
  BY <1>1, <1>2, <1>4, <1>a, CRIStepFor

\* For any ids: after every failure of a handler, and every caller that gives up, the
\* entries have their containers, what is left over is known, and a command can be run.
THEOREM CRIAlwaysSafe == CRISpec => []CRISafe
<1>1. CRIInit => CRIInv
  <2> SUFFICES ASSUME CRIInit PROVE CRIInv
    OBVIOUS
  <2>1. NoContainer \in CRIContainers /\ ~ NoContainer.there /\ NoContainer.exec = "none"
    BY DEF NoContainer, CRIContainers
  <2>2. NoHandler \in Handlers /\ NoHandler.id = NoId
    BY DEF NoHandler, Handlers, Places
  <2>3. CRITypes
    BY <2>1, <2>2 DEF CRIInit, DaemonInit, CRITypes, Handlers
  <2>4. ASSUME NEW c \in ContainerIds PROVE CRIFor(c)
    BY <2>1, <2>2, CRIAssumption DEF CRIInit, DaemonInit, CRIFor, Agrees
  <2> QED
    BY <2>3, <2>4 DEF CRIInv
<1>2. CRIInv => CRISafe
  BY DEF CRIInv, CRIFor, Agrees, At, CRISafe, ListedExists, LeftWithTask, ExecNameFree
<1>3. CRIInv /\ [CRINext]_criVars => CRIInv'
  <2> SUFFICES ASSUME CRIInv, [CRINext]_criVars PROVE CRIInv'
    OBVIOUS
  <2>1. CASE UNCHANGED criVars
    BY <2>1 DEF criVars, CRIInv, CRITypes, CRIFor, Agrees
  <2>2. CASE CallerGone
    <3>1. /\ daemon' = daemon /\ store' = store /\ used' = used
          /\ abandoned' = abandoned \cup {handler.id} /\ handler' = [handler EXCEPT !.gone = TRUE]
      BY <2>2 DEF CallerGone
    <3>2. handler \in Handlers
      BY DEF CRIInv, CRITypes, Handlers
    <3>3. handler' \in Handlers /\ handler'.id = handler.id /\ handler'.at = handler.at
      BY <3>1, <3>2 DEF Handlers
    <3>4. CRITypes'
      BY <3>1, <3>3 DEF CRIInv, CRITypes, Handlers
    <3>5. ASSUME NEW c \in ContainerIds PROVE CRIFor(c)'
      BY <3>1, <3>3 DEF CRIInv, CRIFor, Agrees
    <3> QED
      BY <3>4, <3>5 DEF CRIInv
  <2> QED
    BY <2>1, <2>2, RequestInv, HandlerInv, DaemonInv DEF CRINext
<1> QED
  BY <1>1, <1>2, <1>3, PTL DEF CRISpec

-----------------------------------------------------------------------------
(* Template pools *)

\* No element occurs twice.
Once(s) == \A i, j \in 1..Len(s) : s[i] = s[j] => i = j

Elems(s) == {s[i] : i \in 1..Len(s)}

\* One element more, at the end.
LEMMA OnceAppend ==
    ASSUME NEW V, NEW s \in Seq(V), NEW h \in V, Once(s), h \notin Elems(s)
    PROVE  /\ Append(s, h) \in Seq(V) /\ Once(Append(s, h)) /\ Len(Append(s, h)) = Len(s) + 1
           /\ Elems(Append(s, h)) = Elems(s) \cup {h}
<1>1. PICK n \in Nat : n = Len(s)
  OBVIOUS
<1>2. PICK t : t = Append(s, h)
  OBVIOUS
<1>3. t \in Seq(V) /\ Len(t) = n + 1 /\ t[n + 1] = h /\ \A i \in 1..n : t[i] = s[i]
  BY <1>1, <1>2
<1>4. \A i \in 1..(n + 1) : i = n + 1 \/ i \in 1..n
  OBVIOUS
<1>5. \A i \in 1..n : t[i] # h /\ i # n + 1 /\ i \in 1..(n + 1)
  BY <1>1, <1>3 DEF Elems
<1>6. Once(t)
  BY <1>1, <1>3, <1>4, <1>5 DEF Once
<1>7. n + 1 \in 1..(n + 1)
  OBVIOUS
<1>8. Elems(t) = Elems(s) \cup {h}
  <2>1. ASSUME NEW x \in Elems(t) PROVE x \in Elems(s) \cup {h}
    BY <1>1, <1>3, <1>4, <2>1 DEF Elems
  <2>2. ASSUME NEW x \in Elems(s) PROVE x \in Elems(t)
    BY <1>1, <1>3, <1>5, <2>2 DEF Elems
  <2>3. h \in Elems(t)
    BY <1>3, <1>7 DEF Elems
  <2> QED
    BY <2>1, <2>2, <2>3
<1> QED
  BY <1>1, <1>2, <1>3, <1>6, <1>8

\* The first is taken.
LEMMA OnceTail ==
    ASSUME NEW V, NEW s \in Seq(V), Once(s), s # <<>>
    PROVE  /\ Head(s) \in V /\ Head(s) \in Elems(s)
           /\ Tail(s) \in Seq(V) /\ Once(Tail(s)) /\ Len(Tail(s)) = Len(s) - 1
           /\ Elems(Tail(s)) = Elems(s) \ {Head(s)}
<1>1. PICK n \in Nat : n = Len(s)
  OBVIOUS
<1>2. PICK t : t = Tail(s)
  OBVIOUS
<1>3. PICK h : h = Head(s)
  OBVIOUS
<1>4. n > 0 /\ h = s[1] /\ h \in V
  BY <1>1, <1>3
<1>5. t \in Seq(V) /\ Len(t) = n - 1 /\ \A i \in 1..(n - 1) : t[i] = s[i + 1]
  BY <1>1, <1>2, <1>4
<1>6. \A i \in 1..(n - 1) : i + 1 \in 1..n /\ i + 1 # 1
  BY <1>4
<1>7. \A i \in 1..n : i = 1 \/ (i - 1 \in 1..(n - 1) /\ (i - 1) + 1 = i)
  BY <1>4
<1>8. 1 \in 1..n
  BY <1>4
<1>9. Once(t)
  <2> SUFFICES ASSUME NEW i \in 1..(n - 1), NEW j \in 1..(n - 1), t[i] = t[j] PROVE i = j
    BY <1>5 DEF Once
  <2>1. i + 1 = j + 1
    BY <1>1, <1>5, <1>6 DEF Once
  <2> QED
    BY <2>1
<1>10. Elems(t) = Elems(s) \ {h}
  <2>1. ASSUME NEW x \in Elems(t) PROVE x \in Elems(s) /\ x # h
    <3>1. PICK i \in 1..(n - 1) : x = s[i + 1]
      BY <1>5 DEF Elems
    <3> QED
      BY <1>1, <1>4, <1>6, <1>8, <3>1 DEF Elems, Once
  <2>2. ASSUME NEW x \in Elems(s), x # h PROVE x \in Elems(t)
    <3>1. PICK i \in 1..n : x = s[i]
      BY <1>1 DEF Elems
    <3>2. i - 1 \in 1..(n - 1) /\ t[i - 1] = x
      BY <1>4, <1>5, <1>7, <2>2, <3>1
    <3> QED
      BY <1>5, <3>2 DEF Elems
  <2> QED
    BY <2>1, <2>2
<1>11. h \in Elems(s)
  BY <1>1, <1>4, <1>8 DEF Elems
<1> QED
  BY <1>1, <1>2, <1>3, <1>4, <1>5, <1>9, <1>10, <1>11

\* One is removed: what comes after it moves down.
LEMMA RemoveAtMoves ==
    ASSUME NEW V, NEW s \in Seq(V), NEW i \in 1..Len(s)
    PROVE  /\ RemoveAt(s, i) \in Seq(V) /\ Len(RemoveAt(s, i)) = Len(s) - 1
           /\ \A j \in 1..(Len(s) - 1) : RemoveAt(s, i)[j] = IF j < i THEN s[j] ELSE s[j + 1]
<1>1. PICK n \in Nat : n = Len(s)
  OBVIOUS
<1>2. PICK a, b : a = SubSeq(s, 1, i - 1) /\ b = SubSeq(s, i + 1, n)
  OBVIOUS
<1>3. a \in Seq(V) /\ Len(a) = i - 1 /\ \A j \in 1..(i - 1) : a[j] = s[j]
  BY <1>1, <1>2
<1>4. b \in Seq(V) /\ Len(b) = n - i /\ \A j \in 1..(n - i) : b[j] = s[i + j]
  BY <1>1, <1>2
<1>5. RemoveAt(s, i) = a \o b
  BY <1>1, <1>2 DEF RemoveAt
<1>6. PICK t : t = a \o b
  OBVIOUS
<1>7. t \in Seq(V) /\ Len(t) = n - 1 /\ \A j \in 1..(n - 1) : t[j] = IF j <= i - 1 THEN a[j] ELSE b[j - (i - 1)]
  <2>1. PICK k \in Nat, m \in Nat : k = Len(a) /\ m = Len(b)
    BY <1>3, <1>4
  <2>2. t \in Seq(V) /\ Len(t) = k + m /\ \A j \in 1..(k + m) : t[j] = IF j <= k THEN a[j] ELSE b[j - k]
    <3>1. /\ a \o b \in Seq(V) /\ Len(a \o b) = Len(a) + Len(b)
          /\ \A j \in 1..(Len(a) + Len(b)) : (a \o b)[j] = IF j <= Len(a) THEN a[j] ELSE b[j - Len(a)]
      <4>1. a \in Seq(V) /\ b \in Seq(V)
        BY <1>3, <1>4
      <4> QED
        BY <4>1, ConcatProperties
    <3> QED
      BY <1>6, <2>1, <3>1
  <2>3. k = i - 1 /\ k + m = n - 1
    BY <1>1, <1>3, <1>4, <2>1
  <2> QED
    BY <2>2, <2>3
<1>8. ASSUME NEW j \in 1..(n - 1) PROVE t[j] = IF j < i THEN s[j] ELSE s[j + 1]
  <2>1. CASE j < i
    <3>1. j \in 1..(i - 1) /\ j <= i - 1
      BY <1>1, <2>1
    <3>2. t[j] = a[j] /\ a[j] = s[j]
      BY <1>3, <1>7, <3>1
    <3> QED
      BY <2>1, <3>2
  <2>2. CASE ~ (j < i)
    <3>1. j - (i - 1) \in 1..(n - i) /\ i + (j - (i - 1)) = j + 1 /\ ~ (j <= i - 1)
      BY <1>1, <2>2
    <3> QED
      BY <1>4, <1>7, <2>2, <3>1
  <2> QED
    BY <2>1, <2>2
<1> QED
  BY <1>1, <1>5, <1>6, <1>7, <1>8

\* What Unexpired has kept of the first i entries.
IsKept(f, s) ==
    f[0] = <<>> /\ \A i \in 1..Len(s) : f[i] = IF s[i] \in fresh THEN Append(f[i - 1], s[i]) ELSE f[i - 1]

LEMMA UnexpiredRuns ==
    ASSUME NEW V, NEW s \in Seq(V)
    PROVE  \E f \in [0..Len(s) -> Seq(V)] : IsKept(f, s) /\ Unexpired(s) = f[Len(s)]
<1>1. PICK n \in Nat : n = Len(s)
  OBVIOUS
<1> DEFINE keep(d, h) == IF h \in fresh THEN Append(d, h) ELSE d
           st == [z \in (1..n) \X Seq(V) |-> keep(z[2], s[z[1]])]
           G(f) == [i \in 0..n |-> IF i = 0 THEN <<>> ELSE IF s[i] \in fresh THEN Append(f[i - 1], s[i]) ELSE f[i - 1]]
           F == CHOOSE f : f = G(f)
<1>2. st \in [(1..n) \X Seq(V) -> Seq(V)]
  <2>1. ASSUME NEW z \in (1..n) \X Seq(V) PROVE keep(z[2], s[z[1]]) \in Seq(V)
    <3>1. z[2] \in Seq(V) /\ s[z[1]] \in V
      BY <1>1
    <3> QED
      BY <3>1
  <2> QED
    BY <2>1
<1>3. \A i \in 1..n : \A d \in Seq(V) : st[<<i, d>>] = IF s[i] \in fresh THEN Append(d, s[i]) ELSE d
  OBVIOUS
<1> HIDE DEF st
<1>4. <<>> \in Seq(V)
  OBVIOUS
<1>5. PICK g \in [0..n -> Seq(V)] : Recurs(g, <<>>, st, n)
  BY <1>2, <1>4, RecursionExists
<1>6. \A i \in 1..n : g[i] = IF s[i] \in fresh THEN Append(g[i - 1], s[i]) ELSE g[i - 1]
  <2> SUFFICES ASSUME NEW i \in 1..n PROVE g[i] = IF s[i] \in fresh THEN Append(g[i - 1], s[i]) ELSE g[i - 1]
    OBVIOUS
  <2>1. g[i - 1] \in Seq(V) /\ g[i] = st[<<i, g[i - 1]>>]
    BY <1>5 DEF Recurs
  <2> QED
    BY <2>1, <1>3
<1>7. g = G(g)
  <2>1. g[0] = <<>>
    BY <1>5 DEF Recurs
  <2>2. \A i \in 0..n : g[i] = IF i = 0 THEN <<>> ELSE IF s[i] \in fresh THEN Append(g[i - 1], s[i]) ELSE g[i - 1]
    <3> SUFFICES ASSUME NEW i \in 0..n
                 PROVE  g[i] = IF i = 0 THEN <<>> ELSE IF s[i] \in fresh THEN Append(g[i - 1], s[i]) ELSE g[i - 1]
      OBVIOUS
    <3>1. i = 0 \/ i \in 1..n
      OBVIOUS
    <3> QED
      BY <2>1, <1>6, <3>1
  <2> QED
    BY <1>5, <2>2
<1>8. F = G(F)
  BY <1>7
<1>9. Unexpired(s) = F[n]
  BY <1>1 DEF Unexpired
<1>10. F[0] = <<>> /\ \A i \in 1..n : F[i] = IF s[i] \in fresh THEN Append(F[i - 1], s[i]) ELSE F[i - 1]
  <2> HIDE DEF F
  <2>1. F[0] = <<>>
    BY <1>8
  <2>2. ASSUME NEW i \in 1..n PROVE F[i] = IF s[i] \in fresh THEN Append(F[i - 1], s[i]) ELSE F[i - 1]
    <3>1. i \in 0..n /\ i # 0
      OBVIOUS
    <3> QED
      BY <1>8, <3>1
  <2> QED
    BY <2>1, <2>2
<1>11. F \in [0..n -> Seq(V)]
  <2> DEFINE S == {i \in 0..n : F[i] \in Seq(V)}
  <2> HIDE DEF F, G
  <2>1. 0 \in S
    <3>1. F[0] \in Seq(V)
      BY <1>4, <1>10
    <3>2. 0 \in 0..n
      OBVIOUS
    <3> QED
      BY <3>1, <3>2
  <2>2. ASSUME NEW i \in Nat, i < n, i \in S PROVE i + 1 \in S
    <3>1. i + 1 \in 1..n /\ (i + 1) - 1 = i /\ F[i] \in Seq(V)
      BY <2>2
    <3>2. s[i + 1] \in V
      BY <3>1, <1>1
    <3>3. F[i + 1] = IF s[i + 1] \in fresh THEN Append(F[i], s[i + 1]) ELSE F[i]
      BY <3>1, <1>10
    <3>4. F[i + 1] \in Seq(V)
      BY <3>1, <3>2, <3>3
    <3> QED
      BY <3>1, <3>4
  <2>3. \A i \in 0..n : i \in S
    <3> HIDE DEF S
    <3> QED
      BY <2>1, <2>2, UpTo
  <2>4. DOMAIN F = 0..n /\ F = [i \in DOMAIN F |-> F[i]]
    <3>1. F = [i \in 0..n |-> IF i = 0 THEN <<>> ELSE IF s[i] \in fresh THEN Append(F[i - 1], s[i]) ELSE F[i - 1]]
      BY <1>8 DEF G
    <3> QED
      BY <3>1
  <2> QED
    BY <2>3, <2>4
<1> QED
  BY <1>1, <1>9, <1>10, <1>11 DEF IsKept

\* Those that are not expired, each once.
LEMMA UnexpiredFacts ==
    ASSUME NEW V, NEW s \in Seq(V), Once(s)
    PROVE  /\ Unexpired(s) \in Seq(V) /\ Once(Unexpired(s)) /\ Len(Unexpired(s)) <= Len(s)
           /\ Elems(Unexpired(s)) = Elems(s) \cap fresh
<1>1. PICK n \in Nat : n = Len(s)
  OBVIOUS
<1>2. PICK f \in [0..n -> Seq(V)] : IsKept(f, s) /\ Unexpired(s) = f[n]
  BY <1>1, UnexpiredRuns
<1> DEFINE S == {i \in 0..n : /\ Once(f[i]) /\ Len(f[i]) <= i
                              /\ \A x : x \in Elems(f[i]) <=> x \in fresh /\ \E j \in 1..i : s[j] = x}
<1>3. 0 \in S
  <2>1. f[0] = <<>>
    BY <1>2 DEF IsKept
  <2>2. Once(<<>>) /\ Len(<<>>) <= 0 /\ Elems(<<>>) = {}
    BY DEF Once, Elems
  <2> QED
    BY <2>1, <2>2
<1>4. ASSUME NEW i \in Nat, i < n, i \in S PROVE i + 1 \in S
  <2>1. i + 1 \in 1..n /\ i + 1 \in 0..n /\ (i + 1) - 1 = i
    BY <1>4
  <2>2. PICK d \in Seq(V), h \in V : d = f[i] /\ h = s[i + 1]
    <3>1. f[i] \in Seq(V) /\ s[i + 1] \in V
      BY <1>1, <1>2, <1>4, <2>1
    <3> QED
      BY <3>1
  <2>3. /\ Once(d) /\ Len(d) <= i
        /\ \A x : x \in Elems(d) <=> x \in fresh /\ \E j \in 1..i : s[j] = x
    BY <1>4, <2>2
  <2>4. f[i + 1] = IF h \in fresh THEN Append(d, h) ELSE d
    BY <1>1, <1>2, <2>1, <2>2 DEF IsKept
  <2>5. h \notin Elems(d)
    <3>1. \A j \in 1..i : s[j] # h
      <4> SUFFICES ASSUME NEW j \in 1..i, s[j] = s[i + 1] PROVE FALSE
        BY <2>2
      <4>1. j \in 1..n /\ j # i + 1
        BY <2>1
      <4> QED
        BY <1>1, <2>1, <4>1 DEF Once
    <3> QED
      BY <2>3, <3>1
  <2>6. \A x : (\E j \in 1..(i + 1) : s[j] = x) <=> (\E j \in 1..i : s[j] = x) \/ x = h
    <3>1. \A j \in 1..(i + 1) : j \in 1..i \/ j = i + 1
      OBVIOUS
    <3>2. \A j \in 1..i : j \in 1..(i + 1)
      OBVIOUS
    <3>3. i + 1 \in 1..(i + 1)
      OBVIOUS
    <3> QED
      BY <2>2, <3>1, <3>2, <3>3
  <2>7. CASE h \in fresh
    <3>1. PICK e : e = Append(d, h)
      OBVIOUS
    <3>2. e \in Seq(V) /\ Once(e) /\ Len(e) = Len(d) + 1 /\ Elems(e) = Elems(d) \cup {h}
      BY <2>3, <2>5, <3>1, OnceAppend
    <3>3. f[i + 1] = e
      BY <2>4, <2>7, <3>1
    <3>4. Len(e) <= i + 1
      BY <2>3, <3>2
    <3>5. \A x : x \in Elems(e) <=> x \in fresh /\ \E j \in 1..(i + 1) : s[j] = x
      BY <2>3, <2>6, <2>7, <3>2
    <3> QED
      BY <2>1, <3>2, <3>3, <3>4, <3>5
  <2>8. CASE h \notin fresh
    <3>1. f[i + 1] = d
      BY <2>4, <2>8
    <3>2. Len(d) <= i + 1
      BY <2>3
    <3>3. \A x : x \in Elems(d) <=> x \in fresh /\ \E j \in 1..(i + 1) : s[j] = x
      BY <2>3, <2>6, <2>8
    <3> QED
      BY <2>1, <2>3, <3>1, <3>2, <3>3
  <2> QED
    BY <2>7, <2>8
<1>5. n \in S
  <2> HIDE DEF S
  <2>1. \A i \in 0..n : i \in S
    BY <1>3, <1>4, UpTo
  <2> QED
    BY <2>1
<1>6. PICK t : t = f[n]
  OBVIOUS
<1>7. /\ Once(t) /\ Len(t) <= n
      /\ \A x : x \in Elems(t) <=> x \in fresh /\ \E j \in 1..n : s[j] = x
  BY <1>5, <1>6
<1>8. t \in Seq(V)
  BY <1>2, <1>6
<1>9. Elems(t) = Elems(s) \cap fresh
  BY <1>1, <1>7 DEF Elems
<1> QED
  BY <1>1, <1>2, <1>6, <1>7, <1>8, <1>9

-----------------------------------------------------------------------------

Pool ==
    [available : Seq(TemplateHandles), inUse : [PoolKeys -> TemplateHandles \cup {NoHandle}], creating : Int]

\* The handles under a key, and those of a pool.
InUse(u) == {u[k] : k \in PoolKeys} \ {NoHandle}
Has(p) == Elems(p.available) \cup InUse(p.inUse)

\* A handle has one place in the pool.
PoolFine(p) ==
    /\ p \in Pool
    /\ Len(p.available) <= MaxSize /\ Once(p.available)
    /\ \A k, l \in PoolKeys : p.inUse[k] = p.inUse[l] /\ p.inUse[k] # NoHandle => k = l
    /\ Elems(p.available) \cap InUse(p.inUse) = {}

Creator == [pool : Nat, handle : TemplateHandles \cup {NoHandle}]

\* The handles that creators are about to put into pools.
Coming(cs) == {cs[i].handle : i \in 1..Len(cs)} \ {NoHandle}

CreatorsFine(cs, n) ==
    /\ cs \in Seq(Creator)
    /\ \A i \in 1..Len(cs) : cs[i].pool <= n /\ (cs[i].handle # NoHandle => cs[i].pool # 0)
    /\ \A i, j \in 1..Len(cs) : cs[i].handle = cs[j].handle /\ cs[i].handle # NoHandle => i = j

\* Every handle that is alive has exactly one place.
Placed(ps, cs, alive) ==
    /\ \A p, q \in 1..Len(ps) : p # q => Has(ps[p]) \cap Has(ps[q]) = {}
    /\ \A p \in 1..Len(ps) : Has(ps[p]) \cap Coming(cs) = {}
    /\ \A h : h \in alive <=> h \in Coming(cs) \/ \E p \in 1..Len(ps) : h \in Has(ps[p])

\* A client that holds nothing has no entry in the registered pool.
Entries(us, hs) == \A k \in PoolKeys : hs[k] = NoHandle => us[k] = NoHandle

TemplateInv ==
    /\ pools \in Seq(Pool) /\ Len(pools) > 0
    /\ \A p \in 1..Len(pools) : PoolFine(pools[p])
    /\ CreatorsFine(creators, Len(pools))
    /\ Placed(pools, creators, live)
    /\ DOMAIN holds = PoolKeys /\ Entries(pools[Len(pools)].inUse, holds)

\* One pool changes to r, creators to cs, and the handles of gone are cleaned up.
Changes(p, r, cs, gone) ==
    /\ pools' = [pools EXCEPT ![p] = r] /\ creators' = cs /\ live' = live \ gone
    /\ PoolFine(r) /\ CreatorsFine(cs, Len(pools))
    /\ Has(r) \cap Coming(cs) = {} /\ Coming(cs) \subseteq Coming(creators)
    /\ Has(r) \cup Coming(cs) = (Has(pools[p]) \cup Coming(creators)) \ gone
    /\ \A q \in 1..Len(pools) : q # p => Has(pools[q]) \cap gone = {}
    /\ DOMAIN holds' = PoolKeys
    /\ p = Len(pools) => Entries(r.inUse, holds')
    /\ p # Len(pools) => holds' = holds

LEMMA PoolChanges ==
    ASSUME TemplateInv, NEW p \in 1..Len(pools), NEW r, NEW cs, NEW gone, Changes(p, r, cs, gone)
    PROVE  TemplateInv'
<1>1. PICK n \in Nat : n = Len(pools) /\ n > 0
  BY DEF TemplateInv
<1>2. r \in Pool
  BY DEF Changes, PoolFine
<1>3. /\ pools' \in Seq(Pool) /\ Len(pools') = n /\ pools'[p] = r
      /\ \A q \in 1..n : q # p => pools'[q] = pools[q]
  BY <1>1, <1>2 DEF TemplateInv, Changes
<1>4. \A q \in 1..n : PoolFine(pools'[q])
  BY <1>1, <1>3 DEF TemplateInv, Changes
<1>5. CreatorsFine(creators', n)
  BY <1>1 DEF Changes
<1> DEFINE H(q) == Has(pools[q])
           K(q) == Has(pools'[q])
           C == Coming(creators)
           D == Coming(cs)
<1>6. /\ creators' = cs /\ live' = live \ gone
      /\ K(p) \cap D = {} /\ D \subseteq C /\ K(p) \cup D = (H(p) \cup C) \ gone
      /\ \A q \in 1..n : q # p => H(q) \cap gone = {}
  BY <1>1, <1>3 DEF Changes
<1>7. \A q \in 1..n : q # p => K(q) = H(q)
  BY <1>3
<1>8. /\ \A q, o \in 1..n : q # o => H(q) \cap H(o) = {}
      /\ \A q \in 1..n : H(q) \cap C = {}
      /\ \A h : h \in live <=> h \in C \/ \E q \in 1..n : h \in H(q)
  BY <1>1 DEF TemplateInv, Placed
<1>9. Placed(pools', creators', live')
  <2> SUFFICES /\ \A q, o \in 1..n : q # o => K(q) \cap K(o) = {}
               /\ \A q \in 1..n : K(q) \cap D = {}
               /\ \A h : h \in live' <=> h \in D \/ \E q \in 1..n : h \in K(q)
    BY <1>3, <1>6 DEF Placed
  <2> HIDE DEF H, K, C, D
  <2>0. p \in 1..n
    BY <1>1
  <2>1. \A q \in 1..n : q # p => K(p) \cap K(q) = {}
    <3> SUFFICES ASSUME NEW q \in 1..n, q # p, NEW x, x \in K(p), x \in K(q) PROVE FALSE
      OBVIOUS
    <3>1. x \in H(q) /\ (x \in H(p) \/ x \in C)
      BY <1>6, <1>7
    <3> QED
      BY <1>8, <2>0, <3>1
  <2>2. \A q, o \in 1..n : q # o => K(q) \cap K(o) = {}
    <3> SUFFICES ASSUME NEW q \in 1..n, NEW o \in 1..n, q # o PROVE K(q) \cap K(o) = {}
      OBVIOUS
    <3>1. CASE q = p
      BY <2>1, <3>1
    <3>2. CASE o = p
      BY <2>1, <3>2
    <3>3. CASE q # p /\ o # p
      BY <1>7, <1>8, <3>3
    <3> QED
      BY <3>1, <3>2, <3>3
  <2>3. \A q \in 1..n : K(q) \cap D = {}
    <3> SUFFICES ASSUME NEW q \in 1..n PROVE K(q) \cap D = {}
      OBVIOUS
    <3>1. CASE q = p
      BY <1>6, <3>1
    <3>2. CASE q # p
      BY <1>6, <1>7, <1>8, <3>2
    <3> QED
      BY <3>1, <3>2
  <2>4. ASSUME NEW h, h \in live' PROVE h \in D \/ \E q \in 1..n : h \in K(q)
    <3>1. h \in live /\ h \notin gone
      BY <1>6, <2>4
    <3>2. CASE h \in C
      BY <1>6, <2>0, <3>1, <3>2
    <3>3. ASSUME NEW q \in 1..n, h \in H(q) PROVE h \in D \/ \E o \in 1..n : h \in K(o)
      <4>1. CASE q = p
        BY <1>6, <2>0, <3>1, <3>3, <4>1
      <4>2. CASE q # p
        BY <1>7, <3>3, <4>2
      <4> QED
        BY <4>1, <4>2
    <3> QED
      BY <1>8, <3>1, <3>2, <3>3
  <2>5. ASSUME NEW h, h \in D \/ h \in K(p) PROVE h \in live'
    <3>1. (h \in H(p) \/ h \in C) /\ h \notin gone
      BY <1>6, <2>5
    <3>2. h \in live
      BY <1>8, <2>0, <3>1
    <3> QED
      BY <1>6, <3>1, <3>2
  <2>6. ASSUME NEW h, NEW q \in 1..n, q # p, h \in K(q) PROVE h \in live'
    <3>1. h \in H(q) /\ h \notin gone
      BY <1>6, <1>7, <2>6
    <3>2. h \in live
      BY <1>8, <3>1
    <3> QED
      BY <1>6, <3>1, <3>2
  <2> QED
    BY <2>2, <2>3, <2>4, <2>5, <2>6
<1>10. DOMAIN holds' = PoolKeys /\ Entries(pools'[n].inUse, holds')
  <2>1. CASE p = n
    BY <1>1, <1>3, <2>1 DEF Changes
  <2>2. CASE p # n
    <3>1. pools'[n] = pools[n] /\ holds' = holds
      BY <1>1, <1>3, <2>2 DEF Changes
    <3> QED
      BY <1>1, <3>1 DEF TemplateInv
  <2> QED
    BY <2>1, <2>2
<1> QED
  BY <1>1, <1>3, <1>4, <1>5, <1>9, <1>10 DEF TemplateInv

\* A pool of its three parts, with its handles in their places.
PoolOf(a, u, c) == [available |-> a, inUse |-> u, creating |-> c]

PlaceFine(a, u) ==
    /\ a \in Seq(TemplateHandles) /\ u \in [PoolKeys -> TemplateHandles \cup {NoHandle}]
    /\ Len(a) <= MaxSize /\ Once(a)
    /\ \A k, l \in PoolKeys : u[k] = u[l] /\ u[k] # NoHandle => k = l
    /\ Elems(a) \cap InUse(u) = {}

LEMMA PoolShape ==
    ASSUME NEW a, NEW u, NEW c \in Int, PlaceFine(a, u)
    PROVE  PoolFine(PoolOf(a, u, c)) /\ Has(PoolOf(a, u, c)) = Elems(a) \cup InUse(u)
<1>1. PICK r : r = PoolOf(a, u, c)
  OBVIOUS
<1>2. r.available = a /\ r.inUse = u
  BY <1>1 DEF PoolOf
<1>3. r \in Pool
  BY <1>1 DEF PoolOf, PlaceFine, Pool
<1>4. PoolFine(r)
  BY <1>2, <1>3 DEF PlaceFine, PoolFine
<1> QED
  BY <1>1, <1>2, <1>4 DEF Has

LEMMA PoolShapes ==
    ASSUME TemplateInv, NEW p \in 1..Len(pools)
    PROVE  \E a, u : \E c \in Int : pools[p] = PoolOf(a, u, c) /\ PlaceFine(a, u)
<1>1. PICK r : r = pools[p]
  OBVIOUS
<1>2. PoolFine(r)
  BY <1>1 DEF TemplateInv
<1>3. r = PoolOf(r.available, r.inUse, r.creating) /\ r.creating \in Int
  BY <1>2 DEF PoolFine, Pool, PoolOf
<1>4. PlaceFine(r.available, r.inUse)
  BY <1>2 DEF PoolFine, Pool, PlaceFine
<1> QED
  BY <1>1, <1>3, <1>4

\* A handle of one pool is in no other, nor is it coming.
LEMMA HandlePlaces ==
    ASSUME TemplateInv, NEW p \in 1..Len(pools)
    PROVE  /\ Has(pools[p]) \cap Coming(creators) = {}
           /\ \A gone : gone \subseteq Has(pools[p]) \cup Coming(creators) \cup {NoHandle} =>
                \A q \in 1..Len(pools) : q # p => Has(pools[q]) \cap gone = {}
           /\ Has(pools[p]) \subseteq live /\ Coming(creators) \subseteq live
           /\ NoHandle \notin Has(pools[p]) /\ NoHandle \notin Coming(creators)
<1>1. \A q \in 1..Len(pools) : NoHandle \notin Has(pools[q])
  <2> SUFFICES ASSUME NEW q \in 1..Len(pools) PROVE NoHandle \notin Has(pools[q])
    OBVIOUS
  <2>1. PICK a, u : \E c \in Int : pools[q] = PoolOf(a, u, c) /\ PlaceFine(a, u)
    BY PoolShapes
  <2>2. Has(pools[q]) = Elems(a) \cup InUse(u)
    BY <2>1, PoolShape
  <2>3. NoHandle \notin InUse(u)
    BY DEF InUse
  <2>4. Elems(a) \subseteq TemplateHandles
    <3>1. a \in Seq(TemplateHandles)
      BY <2>1 DEF PlaceFine
    <3> QED
      BY <3>1 DEF Elems
  <2> QED
    BY <2>2, <2>3, <2>4, TemplateAssumption
<1>2. NoHandle \notin Coming(creators)
  BY DEF Coming
<1>3. Placed(pools, creators, live)
  BY DEF TemplateInv
<1>4. \A q \in 1..Len(pools) : Has(pools[q]) \cap Coming(creators) = {}
  BY <1>3 DEF Placed
<1>5. \A q \in 1..Len(pools) : q # p => Has(pools[q]) \cap Has(pools[p]) = {}
  BY <1>3 DEF Placed
<1>6. Has(pools[p]) \subseteq live /\ Coming(creators) \subseteq live
  BY <1>3 DEF Placed
<1>7. ASSUME NEW gone, gone \subseteq Has(pools[p]) \cup Coming(creators) \cup {NoHandle},
             NEW q \in 1..Len(pools), q # p
      PROVE  Has(pools[q]) \cap gone = {}
  <2>1. Has(pools[q]) \cap Has(pools[p]) = {}
    BY <1>5, <1>7
  <2>2. Has(pools[q]) \cap Coming(creators) = {} /\ NoHandle \notin Has(pools[q])
    BY <1>1, <1>4
  <2> QED
    BY <1>7, <2>1, <2>2
<1> QED
  BY <1>1, <1>2, <1>4, <1>6, <1>7

\* A creator ends.
LEMMA CreatorRemoved ==
    ASSUME NEW cs, NEW n, CreatorsFine(cs, n), NEW i \in 1..Len(cs)
    PROVE  /\ CreatorsFine(RemoveAt(cs, i), n)
           /\ Coming(RemoveAt(cs, i)) = Coming(cs) \ {cs[i].handle}
<1>1. PICK m \in Nat : m = Len(cs)
  BY DEF CreatorsFine
<1>2. PICK t : t = RemoveAt(cs, i)
  OBVIOUS
<1>3. /\ t \in Seq(Creator) /\ Len(t) = m - 1
      /\ \A j \in 1..(m - 1) : t[j] = IF j < i THEN cs[j] ELSE cs[j + 1]
  BY <1>1, <1>2, RemoveAtMoves DEF CreatorsFine
<1> DEFINE back(j) == IF j < i THEN j ELSE j + 1
<1>4. \A j \in 1..(m - 1) : back(j) \in 1..m /\ back(j) # i
  BY <1>1
<1>5. \A j, k \in 1..(m - 1) : back(j) = back(k) => j = k
  BY <1>1
<1>6. ASSUME NEW k \in 1..m, k # i PROVE \E j \in 1..(m - 1) : back(j) = k
  <2>1. CASE k < i
    <3>1. k \in 1..(m - 1) /\ back(k) = k
      BY <1>1, <2>1
    <3> QED
      BY <3>1
  <2>2. CASE ~ (k < i)
    <3>1. k - 1 \in 1..(m - 1) /\ back(k - 1) = k
      BY <1>1, <1>6, <2>2
    <3> QED
      BY <3>1
  <2> QED
    BY <2>1, <2>2
<1>7. \A j \in 1..(m - 1) : t[j] = cs[back(j)]
  BY <1>3
<1> HIDE DEF back
<1>8. /\ \A j \in 1..m : cs[j].pool <= n /\ (cs[j].handle # NoHandle => cs[j].pool # 0)
      /\ \A j, k \in 1..m : cs[j].handle = cs[k].handle /\ cs[j].handle # NoHandle => j = k
  BY <1>1 DEF CreatorsFine
<1>9. CreatorsFine(t, n)
  <2>1. \A j \in 1..(m - 1) : t[j].pool <= n /\ (t[j].handle # NoHandle => t[j].pool # 0)
    BY <1>4, <1>7, <1>8
  <2>2. ASSUME NEW j \in 1..(m - 1), NEW k \in 1..(m - 1), t[j].handle = t[k].handle, t[j].handle # NoHandle
        PROVE  j = k
    <3>1. back(j) = back(k)
      BY <1>4, <1>7, <1>8, <2>2
    <3> QED
      BY <1>5, <3>1
  <2> QED
    BY <1>3, <2>1, <2>2 DEF CreatorsFine
<1>10. Coming(t) = Coming(cs) \ {cs[i].handle}
  <2>1. ASSUME NEW x \in Coming(t) PROVE x \in Coming(cs) /\ x # cs[i].handle
    <3>1. PICK j \in 1..(m - 1) : x = t[j].handle /\ x # NoHandle
      BY <1>3, <2>1 DEF Coming
    <3>2. x = cs[back(j)].handle /\ back(j) \in 1..m /\ back(j) # i
      BY <1>4, <1>7, <3>1
    <3> QED
      BY <1>1, <1>8, <3>1, <3>2 DEF Coming
  <2>2. ASSUME NEW x \in Coming(cs), x # cs[i].handle PROVE x \in Coming(t)
    <3>1. PICK k \in 1..m : x = cs[k].handle /\ x # NoHandle
      BY <1>1, <2>2 DEF Coming
    <3>2. PICK j \in 1..(m - 1) : back(j) = k
      BY <1>6, <2>2, <3>1
    <3>3. x = t[j].handle
      BY <1>7, <3>1, <3>2
    <3> QED
      BY <1>3, <3>1, <3>3 DEF Coming
  <2> QED
    BY <2>1, <2>2
<1> QED
  BY <1>2, <1>9, <1>10

\* Creators that have not begun come with nothing.
LEMMA CreatorsAdded ==
    ASSUME NEW cs, NEW n \in Nat, CreatorsFine(cs, n), NEW m \in Nat
    PROVE  /\ CreatorsFine(cs \o [i \in 1..m |-> NewCreator], n)
           /\ Coming(cs \o [i \in 1..m |-> NewCreator]) = Coming(cs)
<1>1. PICK l \in Nat : l = Len(cs)
  BY DEF CreatorsFine
<1>2. PICK b : b = [i \in 1..m |-> NewCreator]
  OBVIOUS
<1>3. NewCreator \in Creator /\ NewCreator.pool = 0 /\ NewCreator.handle = NoHandle
  BY DEF NewCreator, Creator
<1>4. b \in Seq(Creator) /\ Len(b) = m /\ \A i \in 1..m : b[i] = NewCreator
  BY <1>2, <1>3
<1>5. PICK t : t = cs \o b
  OBVIOUS
<1>6. t \in Seq(Creator) /\ Len(t) = l + m /\ \A j \in 1..(l + m) : t[j] = IF j <= l THEN cs[j] ELSE b[j - l]
  <2>1. /\ cs \o b \in Seq(Creator) /\ Len(cs \o b) = Len(cs) + Len(b)
        /\ \A j \in 1..(Len(cs) + Len(b)) : (cs \o b)[j] = IF j <= Len(cs) THEN cs[j] ELSE b[j - Len(cs)]
    <3>1. cs \in Seq(Creator) /\ b \in Seq(Creator)
      BY <1>4 DEF CreatorsFine
    <3> QED
      BY <3>1, ConcatProperties
  <2> QED
    BY <1>1, <1>4, <1>5, <2>1
<1>7. \A j \in 1..(l + m) : (j \in 1..l /\ t[j] = cs[j]) \/ (j \notin 1..l /\ t[j] = NewCreator)
  <2> SUFFICES ASSUME NEW j \in 1..(l + m)
               PROVE  (j \in 1..l /\ t[j] = cs[j]) \/ (j \notin 1..l /\ t[j] = NewCreator)
    OBVIOUS
  <2>1. CASE j <= l
    BY <1>6, <2>1
  <2>2. CASE ~ (j <= l)
    <3>1. j - l \in 1..m /\ j \notin 1..l
      BY <2>2
    <3> QED
      BY <1>4, <1>6, <2>2, <3>1
  <2> QED
    BY <2>1, <2>2
<1>8. \A j \in 1..l : j \in 1..(l + m) /\ t[j] = cs[j]
  BY <1>6
<1>9. /\ \A j \in 1..l : cs[j].pool <= n /\ (cs[j].handle # NoHandle => cs[j].pool # 0)
      /\ \A j, k \in 1..l : cs[j].handle = cs[k].handle /\ cs[j].handle # NoHandle => j = k
  BY <1>1 DEF CreatorsFine
<1>10. CreatorsFine(t, n)
  <2>1. 0 <= n
    OBVIOUS
  <2>2. \A j \in 1..(l + m) : t[j].pool <= n /\ (t[j].handle # NoHandle => t[j].pool # 0)
    BY <1>3, <1>7, <1>9, <2>1
  <2>3. \A j, k \in 1..(l + m) : t[j].handle = t[k].handle /\ t[j].handle # NoHandle => j = k
    BY <1>3, <1>7, <1>9
  <2> QED
    BY <1>6, <2>2, <2>3 DEF CreatorsFine
<1>11. Coming(t) = Coming(cs)
  <2>1. ASSUME NEW x \in Coming(t) PROVE x \in Coming(cs)
    BY <1>1, <1>3, <1>6, <1>7, <2>1 DEF Coming
  <2>2. ASSUME NEW x \in Coming(cs) PROVE x \in Coming(t)
    BY <1>1, <1>6, <1>8, <2>2 DEF Coming
  <2> QED
    BY <2>1, <2>2
<1> QED
  BY <1>2, <1>5, <1>10, <1>11

-----------------------------------------------------------------------------

LEMMA TemplateStarts == TemplateInit => TemplateInv
<1> SUFFICES ASSUME TemplateInit PROVE TemplateInv
  OBVIOUS
<1> USE DEF TemplateInit
<1>1. PICK a, u : a = <<>> /\ u = [k \in PoolKeys |-> NoHandle]
  OBVIOUS
<1>2. Elems(a) = {} /\ InUse(u) = {}
  BY <1>1 DEF Elems, InUse
<1>3. PlaceFine(a, u)
  <2>1. a \in Seq(TemplateHandles) /\ Len(a) <= MaxSize /\ Once(a)
    BY <1>1, TemplateAssumption DEF Once
  <2> QED
    BY <1>1, <1>2, <2>1 DEF PlaceFine
<1>4. PICK r : r = NewPool
  OBVIOUS
<1>5. PoolFine(r) /\ Has(r) = {}
  <2>1. r = PoolOf(a, u, 0)
    BY <1>1, <1>4 DEF NewPool, PoolOf
  <2> QED
    BY <1>2, <1>3, <2>1, PoolShape
<1>6. pools \in Seq(Pool) /\ Len(pools) = 1 /\ pools[1] = r
  BY <1>4, <1>5 DEF PoolFine
<1>7. CreatorsFine(creators, 1) /\ Coming(creators) = {}
  BY DEF CreatorsFine, Coming
<1>8. \A p \in 1..1 : PoolFine(pools[p]) /\ Has(pools[p]) = {}
  BY <1>5, <1>6
<1>9. Placed(pools, creators, live)
  BY <1>6, <1>7, <1>8 DEF Placed
<1>10. DOMAIN holds = PoolKeys /\ Entries(pools[1].inUse, holds)
  BY <1>4, <1>6 DEF Entries, NewPool
<1> QED
  BY <1>6, <1>7, <1>8, <1>9, <1>10 DEF TemplateInv

\* The template is registered again.
LEMMA Registers == TemplateInv /\ RegisterTemplatePool => TemplateInv'
<1> SUFFICES ASSUME TemplateInv, RegisterTemplatePool PROVE TemplateInv'
  OBVIOUS
<1>1. PICK n \in Nat : n = Len(pools) /\ n > 0
  BY DEF TemplateInv
<1>2. PICK r : r = NewPool
  OBVIOUS
<1>3. PoolFine(r) /\ Has(r) = {} /\ r.inUse = [k \in PoolKeys |-> NoHandle]
  <2>1. PICK a, u : a = <<>> /\ u = [k \in PoolKeys |-> NoHandle]
    OBVIOUS
  <2>2. Elems(a) = {} /\ InUse(u) = {}
    BY <2>1 DEF Elems, InUse
  <2>3. PlaceFine(a, u)
    <3>1. a \in Seq(TemplateHandles) /\ Len(a) <= MaxSize /\ Once(a)
      BY <2>1, TemplateAssumption DEF Once
    <3> QED
      BY <2>1, <2>2, <3>1 DEF PlaceFine
  <2>4. r = PoolOf(a, u, 0)
    BY <1>2, <2>1 DEF NewPool, PoolOf
  <2> QED
    BY <1>2, <2>1, <2>2, <2>3, <2>4, PoolShape DEF NewPool
<1>4. /\ pools' \in Seq(Pool) /\ Len(pools') = n + 1 /\ pools'[n + 1] = r
      /\ \A p \in 1..n : pools'[p] = pools[p]
  BY <1>1, <1>2, <1>3 DEF RegisterTemplatePool, TemplateInv, PoolFine
<1>5. creators' = creators /\ live' = live /\ holds' = holds
  BY DEF RegisterTemplatePool
<1>6. \A p \in 1..(n + 1) : p \in 1..n \/ p = n + 1
  OBVIOUS
<1>7. \A p \in 1..n : p \in 1..(n + 1)
  OBVIOUS
<1>8. \A p \in 1..(n + 1) : PoolFine(pools'[p])
  BY <1>1, <1>3, <1>4, <1>6 DEF TemplateInv
<1>9. CreatorsFine(creators', n + 1)
  <2>1. CreatorsFine(creators, n)
    BY <1>1 DEF TemplateInv
  <2>2. creators \in Seq(Creator)
    BY <2>1 DEF CreatorsFine
  <2>3. ASSUME NEW i \in 1..Len(creators) PROVE creators[i].pool <= n + 1
    <3>1. creators[i] \in Creator /\ creators[i].pool <= n
      BY <2>1, <2>2 DEF CreatorsFine
    <3>2. PICK m \in Nat : m = creators[i].pool
      BY <3>1 DEF Creator
    <3> QED
      BY <3>1, <3>2
  <2> QED
    BY <1>5, <2>1, <2>3 DEF CreatorsFine
<1>10. Placed(pools', creators', live')
  <2>1. /\ \A p, q \in 1..n : p # q => Has(pools[p]) \cap Has(pools[q]) = {}
        /\ \A p \in 1..n : Has(pools[p]) \cap Coming(creators) = {}
        /\ \A h : h \in live <=> h \in Coming(creators) \/ \E p \in 1..n : h \in Has(pools[p])
    BY <1>1 DEF TemplateInv, Placed
  <2> DEFINE K(p) == Has(pools'[p])
             H(p) == Has(pools[p])
  <2>2. K(n + 1) = {} /\ \A p \in 1..n : K(p) = H(p)
    BY <1>3, <1>4
  <2>3. /\ \A p, q \in 1..n : p # q => H(p) \cap H(q) = {}
        /\ \A p \in 1..n : H(p) \cap Coming(creators) = {}
        /\ \A h : h \in live <=> h \in Coming(creators) \/ \E p \in 1..n : h \in H(p)
    BY <2>1
  <2>4. /\ \A p, q \in 1..(n + 1) : p # q => K(p) \cap K(q) = {}
        /\ \A p \in 1..(n + 1) : K(p) \cap Coming(creators) = {}
        /\ \A h : h \in live <=> h \in Coming(creators) \/ \E p \in 1..(n + 1) : h \in K(p)
    <3> HIDE DEF H, K
    <3>1. \A p \in 1..(n + 1) : K(p) \cap Coming(creators) = {}
      BY <1>6, <2>2, <2>3
    <3>2. \A p, q \in 1..(n + 1) : p # q => K(p) \cap K(q) = {}
      <4> SUFFICES ASSUME NEW p \in 1..(n + 1), NEW q \in 1..(n + 1), p # q PROVE K(p) \cap K(q) = {}
        OBVIOUS
      <4>1. CASE p = n + 1 \/ q = n + 1
        BY <2>2, <4>1
      <4>2. CASE p \in 1..n /\ q \in 1..n
        BY <2>2, <2>3, <4>2
      <4> QED
        BY <1>6, <4>1, <4>2
    <3>3. ASSUME NEW h PROVE h \in live <=> h \in Coming(creators) \/ \E p \in 1..(n + 1) : h \in K(p)
      <4>1. (\E p \in 1..(n + 1) : h \in K(p)) <=> \E p \in 1..n : h \in H(p)
        BY <1>6, <1>7, <2>2
      <4> QED
        BY <2>3, <4>1
    <3> QED
      BY <3>1, <3>2, <3>3
  <2> QED
    BY <1>4, <1>5, <2>4 DEF Placed
<1>11. DOMAIN holds' = PoolKeys /\ Entries(pools'[n + 1].inUse, holds')
  BY <1>3, <1>4, <1>5 DEF Entries, TemplateInv
<1> QED
  BY <1>4, <1>8, <1>9, <1>10, <1>11 DEF TemplateInv

\* Nothing changes but the creators, of which there are more.
LEMMA CreatorsStart ==
    ASSUME TemplateInv, NEW m \in Nat, Creators(m), UNCHANGED <<pools, live, holds>>
    PROVE  TemplateInv'
<1>1. PICK n \in Nat : n = Len(pools)
  BY DEF TemplateInv
<1>2. CreatorsFine(creators', n) /\ Coming(creators') = Coming(creators)
  BY <1>1, CreatorsAdded DEF Creators, TemplateInv
<1>3. Placed(pools', creators', live')
  BY <1>2 DEF TemplateInv, Placed
<1> QED
  BY <1>1, <1>2, <1>3 DEF TemplateInv

\* How many are missing is a number.
LEMMA SizeIsNat == ASSUME TemplateInv PROVE Size(Now) \in Nat /\ pools[Now].creating \in Int
<1>1. Now \in 1..Len(pools)
  BY DEF TemplateInv, Now
<1>2. PoolFine(pools[Now])
  BY <1>1 DEF TemplateInv
<1>3. pools[Now].available \in Seq(TemplateHandles) /\ pools[Now].creating \in Int
  BY <1>2 DEF PoolFine, Pool
<1>4. Cardinality(Used(Now)) \in Nat
  <2>1. Used(Now) \subseteq PoolKeys
    BY DEF Used
  <2> QED
    BY <2>1, FS_Subset, FS_CardinalityType, TemplateAssumption
<1>5. Len(pools[Now].available) \in Nat
  BY <1>3
<1> QED
  BY <1>3, <1>4, <1>5 DEF Size

LEMMA MissingIsNat == ASSUME NEW size \in Nat, NEW total \in Int PROVE Missing(size, total) \in Nat
  BY DEF Missing

LEMMA TimersStep ==
    ASSUME TemplateInv, warmUpAll \/ replenishAll \/ scalePools
    PROVE  TemplateInv'
<1>1. Size(Now) + pools[Now].creating \in Int
  BY SizeIsNat
<1>2. CASE warmUpAll
  <2>1. PICK m : m = Missing(TargetSize, Size(Now) + pools[Now].creating)
    OBVIOUS
  <2>2. m \in Nat
    BY <1>1, <2>1, MissingIsNat, TemplateAssumption
  <2> QED
    BY <1>2, <2>1, <2>2, CreatorsStart DEF warmUpAll
<1>3. CASE replenishAll
  <2>1. PICK m : m = Missing(MinSize, Size(Now) + pools[Now].creating)
    OBVIOUS
  <2>2. m \in Nat
    BY <1>1, <2>1, MissingIsNat, TemplateAssumption
  <2> QED
    BY <1>3, <2>1, <2>2, CreatorsStart DEF replenishAll
<1>4. CASE scalePools
  <2>1. PICK m \in Nat : Creators(m)
    BY <1>4 DEF scalePools
  <2> QED
    BY <1>4, <2>1, CreatorsStart DEF scalePools
<1> QED
  BY <1>2, <1>3, <1>4

\* Only the number of sandboxes that are being created changes in a pool.
LEMMA PoolCounts ==
    ASSUME TemplateInv, NEW p \in 1..Len(pools), NEW c \in Int, NEW cs,
           pools' = [pools EXCEPT ![p].creating = c], creators' = cs,
           CreatorsFine(cs, Len(pools)), Coming(cs) = Coming(creators), UNCHANGED <<live, holds>>
    PROVE  TemplateInv'
<1>1. PICK a, u : \E d \in Int : pools[p] = PoolOf(a, u, d) /\ PlaceFine(a, u)
  BY PoolShapes
<1>2. PICK r : r = PoolOf(a, u, c)
  OBVIOUS
<1>3. pools' = [pools EXCEPT ![p] = r]
  <2>1. pools' = [pools EXCEPT ![p] = [pools[p] EXCEPT !.creating = c]]
    OBVIOUS
  <2>2. [PoolOf(a, u, pools[p].creating) EXCEPT !.creating = c] = PoolOf(a, u, c)
    BY DEF PoolOf
  <2>3. pools[p] = PoolOf(a, u, pools[p].creating)
    BY <1>1 DEF PoolOf
  <2> QED
    BY <1>2, <2>1, <2>2, <2>3
<1>4. PoolFine(r) /\ Has(r) = Has(pools[p])
  BY <1>1, <1>2, PoolShape
<1>5. r.inUse = pools[p].inUse
  BY <1>1, <1>2 DEF PoolOf
<1>6. Has(r) \cap Coming(cs) = {}
  BY <1>4, HandlePlaces
<1>7. Changes(p, r, cs, {})
  <2>1. live' = live \ {} /\ holds' = holds
    OBVIOUS
  <2>2. DOMAIN holds' = PoolKeys /\ (p = Len(pools) => Entries(r.inUse, holds'))
    BY <1>5, <2>1 DEF TemplateInv
  <2> QED
    BY <1>3, <1>4, <1>6, <2>1, <2>2 DEF Changes
<1> QED
  BY <1>7, PoolChanges

LEMMA Begins == ASSUME TemplateInv, NEW i \in DOMAIN creators, CreateBegins(i) PROVE TemplateInv'
<1>1. PICK n \in Nat, m \in Nat : n = Len(pools) /\ n > 0 /\ m = Len(creators)
  BY DEF TemplateInv, CreatorsFine
<1>2. CreatorsFine(creators, n)
  BY <1>1 DEF TemplateInv
<1>3. i \in 1..m /\ creators \in Seq(Creator)
  BY <1>1, <1>2 DEF CreatorsFine
<1>4. creators[i].pool = 0 /\ creators[i].handle = NoHandle /\ creators[i] \in Creator
  <2>1. creators[i].pool = 0 /\ creators[i] \in Creator
    BY <1>1, <1>3 DEF CreateBegins
  <2> QED
    BY <1>1, <1>2, <1>3, <2>1 DEF CreatorsFine
<1>5. PICK b : b = [pool |-> n, handle |-> NoHandle]
  OBVIOUS
<1>6. PICK cs : cs = [creators EXCEPT ![i] = b]
  OBVIOUS
<1>7. b \in Creator
  BY <1>5 DEF Creator
<1>8. cs \in Seq(Creator) /\ Len(cs) = m /\ cs[i] = b /\ \A j \in 1..m : j # i => cs[j] = creators[j]
  BY <1>1, <1>3, <1>6, <1>7
<1>9. creators' = cs
  <2>1. creators' = [creators EXCEPT ![i] = [creators[i] EXCEPT !.pool = n]]
    BY <1>1 DEF CreateBegins, Now
  <2>2. [creators[i] EXCEPT !.pool = n] = b
    BY <1>4, <1>5 DEF Creator
  <2> QED
    BY <1>6, <2>1, <2>2
<1>10. b.pool = n /\ b.handle = NoHandle
  BY <1>5
<1>11. \A j \in 1..m : cs[j].handle = creators[j].handle
  BY <1>4, <1>8, <1>10
<1>12. CreatorsFine(cs, n)
  <2>1. /\ \A j \in 1..m : creators[j].pool <= n /\ (creators[j].handle # NoHandle => creators[j].pool # 0)
        /\ \A j, k \in 1..m : creators[j].handle = creators[k].handle /\ creators[j].handle # NoHandle => j = k
    BY <1>1, <1>2 DEF CreatorsFine
  <2>2. ASSUME NEW j \in 1..m PROVE cs[j].pool <= n /\ (cs[j].handle # NoHandle => cs[j].pool # 0)
    <3>1. n <= n
      OBVIOUS
    <3>2. CASE j = i
      BY <1>8, <1>10, <3>1, <3>2
    <3>3. CASE j # i
      BY <1>8, <2>1, <3>3
    <3> QED
      BY <3>2, <3>3
  <2> QED
    BY <1>8, <1>11, <2>1, <2>2 DEF CreatorsFine
<1>13. Coming(cs) = Coming(creators)
  BY <1>1, <1>8, <1>11 DEF Coming
<1>14. PICK c \in Int : c = pools[n].creating + 1
  <2>1. pools[n].creating \in Int
    BY <1>1, SizeIsNat DEF Now
  <2> QED
    BY <2>1
<1>15. pools' = [pools EXCEPT ![n].creating = c] /\ live' = live /\ holds' = holds
  BY <1>1, <1>14 DEF CreateBegins, Now
<1>16. n \in 1..Len(pools)
  BY <1>1
<1> QED
  BY <1>1, <1>9, <1>12, <1>13, <1>15, <1>16, PoolCounts

LEMMA Fails == ASSUME TemplateInv, NEW i \in DOMAIN creators, ProviderFails(i) PROVE TemplateInv'
<1>1. PICK n \in Nat, m \in Nat : n = Len(pools) /\ m = Len(creators)
  BY DEF TemplateInv, CreatorsFine
<1>2. CreatorsFine(creators, n)
  BY <1>1 DEF TemplateInv
<1>3. i \in 1..m /\ creators \in Seq(Creator)
  BY <1>1, <1>2 DEF CreatorsFine
<1>4. PICK p : p = creators[i].pool
  OBVIOUS
<1>5. p \in 1..n /\ creators[i].handle = NoHandle
  <2>1. creators[i] \in Creator
    BY <1>1, <1>3
  <2>2. p \in Nat /\ p # 0 /\ p <= n /\ creators[i].handle = NoHandle
    BY <1>1, <1>2, <1>3, <1>4, <2>1 DEF CreatorsFine, ProviderFails, Creator
  <2> QED
    BY <2>2
<1>6. PICK cs : cs = RemoveAt(creators, i)
  OBVIOUS
<1>7. CreatorsFine(cs, n) /\ Coming(cs) = Coming(creators)
  <2>1. CreatorsFine(cs, n) /\ Coming(cs) = Coming(creators) \ {NoHandle}
    BY <1>1, <1>2, <1>3, <1>5, <1>6, CreatorRemoved
  <2> QED
    BY <2>1 DEF Coming
<1>8. PICK c \in Int : c = pools[p].creating - 1
  <2>1. PoolFine(pools[p])
    BY <1>1, <1>5 DEF TemplateInv
  <2>2. pools[p].creating \in Int
    BY <2>1 DEF PoolFine, Pool
  <2> QED
    BY <2>2
<1>9. /\ pools' = [pools EXCEPT ![p].creating = c] /\ creators' = cs
      /\ live' = live /\ holds' = holds
  BY <1>4, <1>6, <1>8 DEF ProviderFails
<1> QED
  BY <1>1, <1>5, <1>7, <1>9, PoolCounts

-----------------------------------------------------------------------------
\* One key, and a part of a pool or a whole one, set to another value.
KeySet(u, k, h) == [u EXCEPT ![k] = h]
PoolSet(ps, p, r) == [ps EXCEPT ![p] = r]
ListOfSet(ps, p, b) == [ps EXCEPT ![p].available = b]
KeyOfSet(ps, p, k, h) == [ps EXCEPT ![p].inUse[k] = h]
CountOfSet(ps, p, d) == [ps EXCEPT ![p].creating = d]

\* Pool p turns into the list b, the keys v and the count d.
Turns(p, b, v, d, cs, gone) ==
    /\ d \in Int /\ PlaceFine(b, v) /\ CreatorsFine(cs, Len(pools))
    /\ pools' = PoolSet(pools, p, PoolOf(b, v, d)) /\ creators' = cs /\ live' = live \ gone
    /\ gone \subseteq Has(pools[p]) \cup Coming(creators) \cup {NoHandle}
    /\ Coming(cs) \subseteq Coming(creators)
    /\ (Elems(b) \cup InUse(v)) \cap Coming(cs) = {}
    /\ (Elems(b) \cup InUse(v)) \cup Coming(cs) = (Has(pools[p]) \cup Coming(creators)) \ gone
    /\ DOMAIN holds' = PoolKeys
    /\ p = Len(pools) => Entries(v, holds')
    /\ p # Len(pools) => holds' = holds

LEMMA PoolTurns ==
    ASSUME TemplateInv, NEW p \in 1..Len(pools), NEW b, NEW v, NEW d, NEW cs, NEW gone,
           Turns(p, b, v, d, cs, gone)
    PROVE  TemplateInv'
<1>1. PICK r : r = PoolOf(b, v, d)
  OBVIOUS
<1>2. PoolFine(r) /\ Has(r) = Elems(b) \cup InUse(v) /\ r.inUse = v
  BY <1>1, PoolShape DEF Turns, PoolOf
<1>3. \A q \in 1..Len(pools) : q # p => Has(pools[q]) \cap gone = {}
  BY HandlePlaces DEF Turns
<1>4. Changes(p, r, cs, gone)
  <2>1. /\ pools' = [pools EXCEPT ![p] = r] /\ creators' = cs /\ live' = live \ gone
        /\ Coming(cs) \subseteq Coming(creators) /\ CreatorsFine(cs, Len(pools))
    BY <1>1 DEF Turns, PoolSet
  <2>2. /\ Has(r) \cap Coming(cs) = {}
        /\ Has(r) \cup Coming(cs) = (Has(pools[p]) \cup Coming(creators)) \ gone
    BY <1>2 DEF Turns
  <2>3. /\ DOMAIN holds' = PoolKeys
        /\ p = Len(pools) => Entries(r.inUse, holds')
        /\ p # Len(pools) => holds' = holds
    BY <1>2 DEF Turns
  <2> QED
    BY <1>2, <1>3, <2>1, <2>2, <2>3 DEF Changes
<1> QED
  BY <1>4, PoolChanges

\* A key gets a handle, and loses it.
LEMMA KeyTakes ==
    ASSUME NEW a, NEW u, PlaceFine(a, u), NEW k \in PoolKeys, u[k] = NoHandle,
           NEW h \in TemplateHandles, h \notin InUse(u), NEW v, v = KeySet(u, k, h)
    PROVE  /\ v \in [PoolKeys -> TemplateHandles \cup {NoHandle}]
           /\ \A l, m \in PoolKeys : v[l] = v[m] /\ v[l] # NoHandle => l = m
           /\ InUse(v) = InUse(u) \cup {h}
<1>1. /\ v \in [PoolKeys -> TemplateHandles \cup {NoHandle}] /\ v[k] = h
      /\ \A l \in PoolKeys : l # k => v[l] = u[l]
  BY DEF PlaceFine, KeySet
<1>2. h # NoHandle
  BY TemplateAssumption
<1>3. \A l \in PoolKeys : u[l] # h
  BY <1>2 DEF InUse
<1>4. \A l, m \in PoolKeys : v[l] = v[m] /\ v[l] # NoHandle => l = m
  BY <1>1, <1>3 DEF PlaceFine
<1>5. InUse(v) = InUse(u) \cup {h}
  BY <1>1, <1>2 DEF InUse
<1> QED
  BY <1>1, <1>4, <1>5

LEMMA KeyGives ==
    ASSUME NEW a, NEW u, PlaceFine(a, u), NEW k \in PoolKeys, NEW v, v = KeySet(u, k, NoHandle)
    PROVE  /\ v \in [PoolKeys -> TemplateHandles \cup {NoHandle}]
           /\ \A l, m \in PoolKeys : v[l] = v[m] /\ v[l] # NoHandle => l = m
           /\ InUse(v) = InUse(u) \ {u[k]}
<1>1. /\ v \in [PoolKeys -> TemplateHandles \cup {NoHandle}] /\ v[k] = NoHandle
      /\ \A l \in PoolKeys : l # k => v[l] = u[l]
  BY DEF PlaceFine, KeySet
<1>2. \A l, m \in PoolKeys : u[l] = u[m] /\ u[l] # NoHandle => l = m
  BY DEF PlaceFine
<1>3. \A l, m \in PoolKeys : v[l] = v[m] /\ v[l] # NoHandle => l = m
  BY <1>1, <1>2
<1>4. InUse(v) = InUse(u) \ {u[k]}
  <2>1. ASSUME NEW x \in InUse(v) PROVE x \in InUse(u) /\ x # u[k]
    <3>1. PICK l \in PoolKeys : x = v[l] /\ x # NoHandle
      BY <2>1 DEF InUse
    <3>2. l # k /\ x = u[l]
      BY <1>1, <3>1
    <3> QED
      BY <1>2, <3>1, <3>2 DEF InUse
  <2>2. ASSUME NEW x \in InUse(u), x # u[k] PROVE x \in InUse(v)
    <3>1. PICK l \in PoolKeys : x = u[l] /\ x # NoHandle
      BY <2>2 DEF InUse
    <3>2. l # k /\ x = v[l]
      BY <1>1, <2>2, <3>1
    <3> QED
      BY <3>1, <3>2 DEF InUse
  <2> QED
    BY <2>1, <2>2
<1> QED
  BY <1>1, <1>3, <1>4

\* What is in the list is not under a key.
LEMMA PlacesApart ==
    ASSUME TemplateInv, NEW p \in 1..Len(pools), NEW a, NEW u, NEW c \in Int,
           pools[p] = PoolOf(a, u, c), PlaceFine(a, u)
    PROVE  /\ Has(pools[p]) = Elems(a) \cup InUse(u) /\ Elems(a) \cap InUse(u) = {}
           /\ Elems(a) \subseteq TemplateHandles
           /\ Elems(a) \cap Coming(creators) = {} /\ InUse(u) \cap Coming(creators) = {}
<1>1. Has(pools[p]) = Elems(a) \cup InUse(u)
  BY PoolShape
<1>2. a \in Seq(TemplateHandles) /\ Elems(a) \cap InUse(u) = {}
  BY DEF PlaceFine
<1>3. Elems(a) \subseteq TemplateHandles
  BY <1>2 DEF Elems
<1>4. Has(pools[p]) \cap Coming(creators) = {}
  BY HandlePlaces
<1> QED
  BY <1>1, <1>2, <1>3, <1>4

\* What a step that changes a part of a pool does to the pools.
LEMMA ListChanges ==
    ASSUME NEW ps, NEW p, NEW a, NEW u, NEW c, ps[p] = PoolOf(a, u, c), NEW b
    PROVE  ListOfSet(ps, p, b) = PoolSet(ps, p, PoolOf(b, u, c))
<1>1. ListOfSet(ps, p, b) = [ps EXCEPT ![p] = [ps[p] EXCEPT !.available = b]]
  BY DEF ListOfSet
<1>2. [PoolOf(a, u, c) EXCEPT !.available = b] = PoolOf(b, u, c)
  BY DEF PoolOf
<1> QED
  BY <1>1, <1>2 DEF PoolSet

LEMMA KeyChanges ==
    ASSUME NEW ps, NEW p, NEW a, NEW u, NEW c, ps[p] = PoolOf(a, u, c), NEW k, NEW h
    PROVE  KeyOfSet(ps, p, k, h) = PoolSet(ps, p, PoolOf(a, KeySet(u, k, h), c))
<1>1. PICK v : v = KeySet(u, k, h)
  OBVIOUS
<1>2. KeyOfSet(ps, p, k, h) = [ps EXCEPT ![p] = [ps[p] EXCEPT !.inUse = [ps[p].inUse EXCEPT ![k] = h]]]
  BY DEF KeyOfSet
<1>3. ps[p].inUse = u
  BY DEF PoolOf
<1>4. [PoolOf(a, u, c) EXCEPT !.inUse = v] = PoolOf(a, v, c)
  BY DEF PoolOf
<1>5. v = [u EXCEPT ![k] = h]
  BY <1>1 DEF KeySet
<1>6. KeyOfSet(ps, p, k, h) = [ps EXCEPT ![p] = PoolOf(a, v, c)]
  BY <1>2, <1>3, <1>4, <1>5
<1> QED
  BY <1>1, <1>6 DEF PoolSet

LEMMA CountChanges ==
    ASSUME NEW ps, NEW p, NEW a, NEW u, NEW c, ps[p] = PoolOf(a, u, c), NEW d
    PROVE  CountOfSet(ps, p, d) = PoolSet(ps, p, PoolOf(a, u, d))
<1>1. CountOfSet(ps, p, d) = [ps EXCEPT ![p] = [ps[p] EXCEPT !.creating = d]]
  BY DEF CountOfSet
<1>2. [PoolOf(a, u, c) EXCEPT !.creating = d] = PoolOf(a, u, d)
  BY DEF PoolOf
<1> QED
  BY <1>1, <1>2 DEF PoolSet

LEMMA ChangedAgain ==
    ASSUME NEW ps, NEW p \in DOMAIN ps, NEW x, NEW y
    PROVE  PoolSet(ps, p, x)[p] = x /\ PoolSet(PoolSet(ps, p, x), p, y) = PoolSet(ps, p, y)
  BY DEF PoolSet

LEMMA Acquires == ASSUME TemplateInv, NEW k \in PoolKeys, Acquire(k) PROVE TemplateInv'
<1>1. PICK n \in Nat : n = Len(pools) /\ n > 0 /\ n = Now
  BY DEF TemplateInv, Now
<1>2. n \in 1..Len(pools)
  BY <1>1
<1>3. PICK a, u, c : c \in Int /\ pools[n] = PoolOf(a, u, c) /\ PlaceFine(a, u)
  BY <1>2, PoolShapes
<1>4. pools[n].available = a /\ pools[n].inUse = u
  BY <1>3 DEF PoolOf
<1>5. PICK h : h = Head(a)
  OBVIOUS
<1>6. PICK b, v : b = Tail(a) /\ v = KeySet(u, k, h)
  OBVIOUS
<1>7. a \in Seq(TemplateHandles) /\ Once(a) /\ a # <<>> /\ Len(a) <= MaxSize
  BY <1>1, <1>3, <1>4 DEF Acquire, PlaceFine
<1>8. /\ h \in TemplateHandles /\ h \in Elems(a)
      /\ b \in Seq(TemplateHandles) /\ Once(b) /\ Len(b) = Len(a) - 1
      /\ Elems(b) = Elems(a) \ {h}
  BY <1>5, <1>6, <1>7, OnceTail
<1>9. Has(pools[n]) = Elems(a) \cup InUse(u) /\ Elems(a) \cap InUse(u) = {} /\ (Elems(a) \cup InUse(u)) \cap Coming(creators) = {}
  BY <1>2, <1>3, PlacesApart
<1>10. u[k] = NoHandle
  BY <1>1, <1>4 DEF Acquire, TemplateInv, Entries
<1>11. /\ v \in [PoolKeys -> TemplateHandles \cup {NoHandle}]
       /\ \A l, m \in PoolKeys : v[l] = v[m] /\ v[l] # NoHandle => l = m
       /\ InUse(v) = InUse(u) \cup {h}
  <2>1. h \notin InUse(u)
    BY <1>8, <1>9
  <2> QED
    BY <1>3, <1>6, <1>8, <1>10, <2>1, KeyTakes
<1>12. PlaceFine(b, v)
  <2>1. Len(b) <= MaxSize
    <3>1. Len(a) \in Nat /\ MaxSize \in Nat
      BY <1>7, TemplateAssumption
    <3> QED
      BY <1>7, <1>8, <3>1
  <2>2. Elems(b) \cap InUse(v) = {}
    BY <1>8, <1>9, <1>11
  <2> QED
    BY <1>8, <1>11, <2>1, <2>2 DEF PlaceFine
<1>13. pools' = PoolSet(pools, n, PoolOf(b, v, c))
  <2>1. PICK w : w = ListOfSet(pools, n, b)
    OBVIOUS
  <2>2. pools' = KeyOfSet(w, n, k, h)
    BY <1>1, <1>4, <1>5, <1>6, <2>1 DEF Acquire, ListOfSet, KeyOfSet
  <2>3. w = PoolSet(pools, n, PoolOf(b, u, c))
    BY <1>3, <2>1, ListChanges
  <2>4. n \in DOMAIN pools
    BY <1>2 DEF TemplateInv
  <2>5. w[n] = PoolOf(b, u, c)
    BY <2>3, <2>4, ChangedAgain
  <2>6. pools' = PoolSet(w, n, PoolOf(b, v, c))
    BY <1>6, <2>2, <2>5, KeyChanges
  <2> QED
    BY <2>3, <2>4, <2>6, ChangedAgain
<1>14. holds' = [holds EXCEPT ![k] = h] /\ live' = live /\ creators' = creators
  BY <1>1, <1>4, <1>5 DEF Acquire
<1>15. DOMAIN holds' = PoolKeys /\ Entries(v, holds')
  <2>1. DOMAIN holds = PoolKeys /\ Entries(u, holds)
    BY <1>1, <1>4 DEF TemplateInv
  <2>2. DOMAIN holds' = PoolKeys /\ holds'[k] = h /\ \A l \in PoolKeys : l # k => holds'[l] = holds[l]
    BY <1>14, <2>1
  <2>3. h # NoHandle /\ \A l \in PoolKeys : l # k => v[l] = u[l]
    BY <1>3, <1>6, <1>8, TemplateAssumption DEF PlaceFine, KeySet
  <2> QED
    BY <2>1, <2>2, <2>3 DEF Entries
<1>16. Turns(n, b, v, c, creators, {})
  <2>1. CreatorsFine(creators, Len(pools))
    BY DEF TemplateInv
  <2>2. live' = live \ {}
    BY <1>14
  <2>3. Elems(b) \cup InUse(v) = Elems(a) \cup InUse(u)
    BY <1>8, <1>11
  <2>4. /\ (Elems(b) \cup InUse(v)) \cap Coming(creators) = {}
        /\ (Elems(b) \cup InUse(v)) \cup Coming(creators) = (Has(pools[n]) \cup Coming(creators)) \ {}
    BY <1>9, <2>3
  <2> QED
    BY <1>1, <1>3, <1>12, <1>13, <1>14, <1>15, <2>1, <2>2, <2>4 DEF Turns
<1> QED
  BY <1>2, <1>16, PoolTurns

LEMMA Releases ==
    ASSUME TemplateInv, NEW k \in PoolKeys, NEW recycle \in BOOLEAN, Release(k, recycle)
    PROVE  TemplateInv'
<1>1. PICK n \in Nat : n = Len(pools) /\ n > 0 /\ n = Now
  BY DEF TemplateInv, Now
<1>2. n \in 1..Len(pools) /\ n \in DOMAIN pools
  <2>1. pools \in Seq(Pool)
    BY DEF TemplateInv
  <2>2. DOMAIN pools = 1..Len(pools)
    BY <2>1
  <2> QED
    BY <1>1, <2>2
<1>3. PICK a, u, c : c \in Int /\ pools[n] = PoolOf(a, u, c) /\ PlaceFine(a, u)
  BY <1>2, PoolShapes
<1>4. pools[n].available = a /\ pools[n].inUse = u
  BY <1>3 DEF PoolOf
<1>5. PICK h, v : h = u[k] /\ v = KeySet(u, k, NoHandle)
  OBVIOUS
<1>6. /\ v \in [PoolKeys -> TemplateHandles \cup {NoHandle}]
      /\ \A l, m \in PoolKeys : v[l] = v[m] /\ v[l] # NoHandle => l = m
      /\ InUse(v) = InUse(u) \ {h}
  BY <1>3, <1>5, KeyGives
<1>7. /\ Has(pools[n]) = Elems(a) \cup InUse(u) /\ Elems(a) \cap InUse(u) = {}
      /\ Elems(a) \cap Coming(creators) = {} /\ InUse(u) \cap Coming(creators) = {}
      /\ Elems(a) \subseteq TemplateHandles
  BY <1>2, <1>3, PlacesApart
<1>8. h = NoHandle \/ (h \in InUse(u) /\ h \in TemplateHandles)
  BY <1>3, <1>5 DEF InUse, PlaceFine
<1>9. NoHandle \notin Elems(a) /\ NoHandle \notin InUse(u) /\ NoHandle \notin Coming(creators)
  BY <1>2, <1>7, HandlePlaces
<1>10. creators' = creators /\ CreatorsFine(creators, Len(pools))
  BY DEF TemplateInv, Release
<1>11. DOMAIN holds' = PoolKeys /\ Entries(v, holds')
  <2>1. DOMAIN holds = PoolKeys /\ Entries(u, holds)
    BY <1>1, <1>4 DEF TemplateInv
  <2>2. holds' = [holds EXCEPT ![k] = NoHandle]
    BY DEF Release
  <2>3. DOMAIN holds' = PoolKeys /\ \A l \in PoolKeys : l # k => holds'[l] = holds[l]
    BY <2>1, <2>2
  <2>4. v[k] = NoHandle /\ \A l \in PoolKeys : l # k => v[l] = u[l]
    BY <1>3, <1>5 DEF PlaceFine, KeySet
  <2> QED
    BY <2>1, <2>3, <2>4 DEF Entries
<1>12. a \in Seq(TemplateHandles) /\ Once(a) /\ Len(a) \in Nat /\ Len(a) <= MaxSize /\ MaxSize \in Nat
  BY <1>3, TemplateAssumption DEF PlaceFine
<1>13. CASE h # NoHandle /\ recycle /\ Len(a) < MaxSize
  <2>1. PICK b : b = Append(a, h)
    OBVIOUS
  <2>2. h \notin Elems(a)
    BY <1>7, <1>8, <1>13
  <2>3. /\ b \in Seq(TemplateHandles) /\ Once(b) /\ Len(b) = Len(a) + 1
        /\ Elems(b) = Elems(a) \cup {h}
    BY <1>8, <1>12, <1>13, <2>1, <2>2, OnceAppend
  <2>4. PlaceFine(b, v)
    <3>1. Len(b) <= MaxSize
      BY <1>12, <1>13, <2>3
    <3>2. Elems(b) \cap InUse(v) = {}
      BY <1>6, <1>7, <2>3
    <3> QED
      BY <1>6, <2>3, <3>1, <3>2 DEF PlaceFine
  <2>5. /\ pools' = [pools EXCEPT ![n].inUse[k] = NoHandle, ![n].available = Append(@, h)]
        /\ live' = live
    BY <1>1, <1>4, <1>5, <1>13 DEF Release
  <2>6. pools' = PoolSet(pools, n, PoolOf(b, v, c))
    <3>1. PICK w : w = KeyOfSet(pools, n, k, NoHandle)
      OBVIOUS
    <3>2. w = PoolSet(pools, n, PoolOf(a, v, c))
      BY <1>3, <1>5, <3>1, KeyChanges
    <3>3. w[n] = PoolOf(a, v, c)
      BY <1>2, <3>2, ChangedAgain
    <3>4. w[n].available = a
      BY <3>3 DEF PoolOf
    <3>5. pools' = ListOfSet(w, n, b)
      <4>1. pools' = [w EXCEPT ![n].available = Append(w[n].available, h)]
        BY <2>5, <3>1 DEF KeyOfSet
      <4> QED
        BY <2>1, <3>4, <4>1 DEF ListOfSet
    <3>6. ListOfSet(w, n, b) = PoolSet(w, n, PoolOf(b, v, c))
      BY <3>3, ListChanges
    <3> QED
      BY <1>2, <3>2, <3>5, <3>6, ChangedAgain
  <2>7. Elems(b) \cup InUse(v) = Elems(a) \cup InUse(u)
    BY <1>6, <1>8, <1>13, <2>3
  <2>8. Turns(n, b, v, c, creators, {})
    <3>1. live' = live \ {}
      BY <2>5
    <3>2. /\ (Elems(b) \cup InUse(v)) \cap Coming(creators) = {}
          /\ (Elems(b) \cup InUse(v)) \cup Coming(creators) = (Has(pools[n]) \cup Coming(creators)) \ {}
      BY <1>7, <2>7
    <3> QED
      BY <1>1, <1>3, <1>10, <1>11, <2>4, <2>6, <3>1, <3>2 DEF Turns
  <2> QED
    BY <1>2, <2>8, PoolTurns
<1>14. CASE ~ (h # NoHandle /\ recycle /\ Len(a) < MaxSize)
  <2>1. pools' = KeyOfSet(pools, n, k, NoHandle) /\ live' = live \ {h}
    <3>1. /\ pools' = [pools EXCEPT ![Now].inUse[k] = NoHandle]
          /\ CleanUp({pools[Now].inUse[k]})
      <4>1. ~ (/\ pools[Now].inUse[k] # NoHandle /\ recycle /\ Len(pools[Now].available) < MaxSize)
        BY <1>1, <1>4, <1>5, <1>14
      <4> QED
        BY <4>1 DEF Release
    <3>2. Now = n /\ pools[n].inUse[k] = h
      BY <1>1, <1>4, <1>5
    <3>3. pools' = KeyOfSet(pools, n, k, NoHandle) /\ CleanUp({h})
      BY <3>1, <3>2 DEF KeyOfSet
    <3> QED
      BY <3>3 DEF CleanUp
  <2>2. pools' = PoolSet(pools, n, PoolOf(a, v, c))
    BY <1>3, <1>5, <2>1, KeyChanges
  <2>3. PlaceFine(a, v)
    BY <1>3, <1>6 DEF PlaceFine
  <2>4. Turns(n, a, v, c, creators, {h})
    <3>1. /\ (Elems(a) \cup InUse(v)) \cap Coming(creators) = {}
          /\ (Elems(a) \cup InUse(v)) \cup Coming(creators) = (Has(pools[n]) \cup Coming(creators)) \ {h}
      BY <1>6, <1>7, <1>8, <1>9
    <3>2. {h} \subseteq Has(pools[n]) \cup Coming(creators) \cup {NoHandle}
      BY <1>7, <1>8
    <3> QED
      BY <1>1, <1>3, <1>10, <1>11, <2>1, <2>2, <2>3, <3>1, <3>2 DEF Turns
  <2> QED
    BY <1>2, <2>4, PoolTurns
<1> QED
  BY <1>13, <1>14

LEMMA Expires == TemplateInv /\ evictExpired => TemplateInv'
<1> SUFFICES ASSUME TemplateInv, evictExpired PROVE TemplateInv'
  OBVIOUS
<1>1. PICK n \in Nat : n = Len(pools) /\ n > 0 /\ n = Now
  BY DEF TemplateInv, Now
<1>2. n \in 1..Len(pools)
  BY <1>1
<1>3. PICK a, u, c : c \in Int /\ pools[n] = PoolOf(a, u, c) /\ PlaceFine(a, u)
  BY <1>2, PoolShapes
<1>4. pools[n].available = a /\ pools[n].inUse = u
  BY <1>3 DEF PoolOf
<1>5. a \in Seq(TemplateHandles) /\ Once(a) /\ Len(a) \in Nat /\ Len(a) <= MaxSize /\ MaxSize \in Nat
  BY <1>3, TemplateAssumption DEF PlaceFine
<1>6. PICK b, gone : b = Unexpired(a) /\ gone = Elems(a) \ fresh
  OBVIOUS
<1>7. b \in Seq(TemplateHandles) /\ Once(b) /\ Len(b) <= Len(a) /\ Elems(b) = Elems(a) \cap fresh
  BY <1>5, <1>6, UnexpiredFacts
<1>8. ToSet(a) = Elems(a)
  BY <1>5 DEF ToSet, Elems
<1>9. /\ pools' = ListOfSet(pools, n, b) /\ live' = live \ gone
      /\ creators' = creators /\ holds' = holds
  BY <1>1, <1>4, <1>6, <1>8 DEF evictExpired, CleanUp, ListOfSet
<1>10. pools' = PoolSet(pools, n, PoolOf(b, u, c))
  BY <1>3, <1>9, ListChanges
<1>11. /\ Has(pools[n]) = Elems(a) \cup InUse(u) /\ Elems(a) \cap InUse(u) = {}
       /\ Elems(a) \cap Coming(creators) = {} /\ InUse(u) \cap Coming(creators) = {}
  BY <1>2, <1>3, PlacesApart
<1>12. PlaceFine(b, u)
  <2>1. Len(b) <= MaxSize
    <3>1. Len(b) \in Nat
      BY <1>7
    <3> QED
      BY <1>5, <1>7, <3>1
  <2>2. Elems(b) \cap InUse(u) = {}
    BY <1>7, <1>11
  <2> QED
    BY <1>3, <1>7, <2>1, <2>2 DEF PlaceFine
<1>13. Turns(n, b, u, c, creators, gone)
  <2>1. CreatorsFine(creators, Len(pools)) /\ DOMAIN holds = PoolKeys /\ Entries(u, holds)
    BY <1>1, <1>4 DEF TemplateInv
  <2>2. /\ (Elems(b) \cup InUse(u)) \cap Coming(creators) = {}
        /\ (Elems(b) \cup InUse(u)) \cup Coming(creators) = (Has(pools[n]) \cup Coming(creators)) \ gone
    BY <1>6, <1>7, <1>11
  <2>3. gone \subseteq Has(pools[n])
    BY <1>6, <1>11
  <2> QED
    BY <1>1, <1>3, <1>9, <1>10, <1>12, <2>1, <2>2, <2>3 DEF Turns
<1> QED
  BY <1>2, <1>13, PoolTurns

LEMMA Drains == TemplateInv /\ drainAll => TemplateInv'
<1> SUFFICES ASSUME TemplateInv, drainAll PROVE TemplateInv'
  OBVIOUS
<1>1. PICK n \in Nat : n = Len(pools) /\ n > 0 /\ n = Now
  BY DEF TemplateInv, Now
<1>2. n \in 1..Len(pools)
  BY <1>1
<1>3. PICK a, u, c : c \in Int /\ pools[n] = PoolOf(a, u, c) /\ PlaceFine(a, u)
  BY <1>2, PoolShapes
<1>4. pools[n].available = a /\ pools[n].inUse = u /\ pools[n].creating = c
  BY <1>3 DEF PoolOf
<1>5. PICK b, v : b = <<>> /\ v = [k \in PoolKeys |-> NoHandle]
  OBVIOUS
<1>6. Elems(b) = {} /\ InUse(v) = {}
  BY <1>5 DEF Elems, InUse
<1>7. PlaceFine(b, v)
  <2>1. b \in Seq(TemplateHandles) /\ Len(b) <= MaxSize /\ Once(b)
    BY <1>5, TemplateAssumption DEF Once
  <2> QED
    BY <1>5, <1>6, <2>1 DEF PlaceFine
<1>8. PICK gone : gone = ToSet(a) \cup {u[k] : k \in PoolKeys}
  OBVIOUS
<1>9. /\ pools' = [pools EXCEPT ![n] = [NewPool EXCEPT !.creating = c]] /\ live' = live \ gone
      /\ creators' = creators /\ holds' = holds
  BY <1>1, <1>4, <1>8 DEF drainAll, CleanUp
<1>10. [NewPool EXCEPT !.creating = c] = PoolOf(b, v, c)
  BY <1>5 DEF NewPool, PoolOf
<1>11. /\ Has(pools[n]) = Elems(a) \cup InUse(u)
       /\ Elems(a) \cap Coming(creators) = {} /\ InUse(u) \cap Coming(creators) = {}
  BY <1>2, <1>3, PlacesApart
<1>12. /\ Elems(a) \cup InUse(u) \subseteq gone
       /\ gone \subseteq Elems(a) \cup InUse(u) \cup {NoHandle}
  <2>1. ToSet(a) = Elems(a)
    <3>1. a \in Seq(TemplateHandles)
      BY <1>3 DEF PlaceFine
    <3> QED
      BY <3>1 DEF ToSet, Elems
  <2> QED
    BY <1>8, <2>1 DEF InUse
<1>13. NoHandle \notin Coming(creators)
  BY <1>2, HandlePlaces
<1>14. Turns(n, b, v, c, creators, gone)
  <2>1. CreatorsFine(creators, Len(pools)) /\ DOMAIN holds = PoolKeys /\ Entries(v, holds)
    BY <1>5 DEF TemplateInv, Entries
  <2>2. /\ (Elems(b) \cup InUse(v)) \cap Coming(creators) = {}
        /\ (Elems(b) \cup InUse(v)) \cup Coming(creators) = (Has(pools[n]) \cup Coming(creators)) \ gone
    BY <1>6, <1>11, <1>12, <1>13
  <2>3. gone \subseteq Has(pools[n]) \cup Coming(creators) \cup {NoHandle}
    BY <1>11, <1>12
  <2>4. pools' = PoolSet(pools, n, PoolOf(b, v, c))
    BY <1>9, <1>10 DEF PoolSet
  <2> QED
    BY <1>1, <1>3, <1>7, <1>9, <2>1, <2>2, <2>3, <2>4 DEF Turns
<1> QED
  BY <1>2, <1>14, PoolTurns

LEMMA CreatorEnds == ASSUME TemplateInv, NEW i \in DOMAIN creators, CreateEnds(i) PROVE TemplateInv'
<1>1. PICK n \in Nat, m \in Nat : n = Len(pools) /\ m = Len(creators)
  BY DEF TemplateInv, CreatorsFine
<1>2. CreatorsFine(creators, n)
  BY <1>1 DEF TemplateInv
<1>3. i \in 1..m /\ creators \in Seq(Creator)
  BY <1>1, <1>2 DEF CreatorsFine
<1>4. PICK p, h : p = creators[i].pool /\ h = creators[i].handle
  OBVIOUS
<1>5. p \in 1..n /\ h \in TemplateHandles /\ h # NoHandle
  <2>1. creators[i] \in Creator
    BY <1>1, <1>3
  <2>2. p \in Nat /\ p # 0 /\ p <= n /\ h \in TemplateHandles \cup {NoHandle} /\ h # NoHandle
    BY <1>1, <1>2, <1>3, <1>4, <2>1 DEF CreatorsFine, CreateEnds, Creator
  <2> QED
    BY <2>2
<1>6. h \in Coming(creators)
  BY <1>1, <1>3, <1>4, <1>5 DEF Coming
<1>7. PICK cs : cs = RemoveAt(creators, i)
  OBVIOUS
<1>8. CreatorsFine(cs, n) /\ Coming(cs) = Coming(creators) \ {h}
  BY <1>1, <1>2, <1>3, <1>4, <1>7, CreatorRemoved
<1>9. p \in 1..Len(pools) /\ p \in DOMAIN pools
  <2>1. pools \in Seq(Pool)
    BY DEF TemplateInv
  <2>2. DOMAIN pools = 1..Len(pools)
    BY <2>1
  <2> QED
    BY <1>1, <1>5, <2>2
<1>10. PICK a, u, c : c \in Int /\ pools[p] = PoolOf(a, u, c) /\ PlaceFine(a, u)
  BY <1>9, PoolShapes
<1>11. pools[p].available = a /\ pools[p].inUse = u /\ pools[p].creating = c
  BY <1>10 DEF PoolOf
<1>12. /\ Has(pools[p]) = Elems(a) \cup InUse(u) /\ Elems(a) \cap InUse(u) = {}
       /\ Elems(a) \cap Coming(creators) = {} /\ InUse(u) \cap Coming(creators) = {}
  BY <1>9, <1>10, PlacesApart
<1>13. a \in Seq(TemplateHandles) /\ Once(a) /\ Len(a) \in Nat /\ Len(a) <= MaxSize /\ MaxSize \in Nat
  BY <1>10, TemplateAssumption DEF PlaceFine
<1>14. PICK b, gone : /\ b = IF Len(a) < MaxSize THEN Append(a, h) ELSE a
                      /\ gone = IF Len(a) < MaxSize THEN {} ELSE {h}
  OBVIOUS
<1>15. creators' = cs /\ live' = live \ gone /\ holds' = holds
  <2>1. creators' = cs /\ holds' = holds
    BY <1>7 DEF CreateEnds
  <2>2. IF Len(a) < MaxSize THEN UNCHANGED <<live, fresh>> ELSE CleanUp({h})
    BY <1>4, <1>11 DEF CreateEnds
  <2>3. live' = live \ gone
    <3>1. CASE Len(a) < MaxSize
      BY <1>14, <2>2, <3>1
    <3>2. CASE ~ (Len(a) < MaxSize)
      BY <1>14, <2>2, <3>2 DEF CleanUp
    <3> QED
      BY <3>1, <3>2
  <2> QED
    BY <2>1, <2>3
<1>16. pools' = PoolSet(pools, p, PoolOf(b, u, c - 1))
  <2>1. PICK w : w = CountOfSet(pools, p, c - 1)
    OBVIOUS
  <2>2. w = PoolSet(pools, p, PoolOf(a, u, c - 1))
    BY <1>10, <2>1, CountChanges
  <2>3. w[p] = PoolOf(a, u, c - 1)
    BY <1>9, <2>2, ChangedAgain
  <2>4. w[p].available = a
    BY <2>3 DEF PoolOf
  <2>5. pools' = ListOfSet(w, p, b)
    <3>1. pools' = [w EXCEPT ![p].available = IF Len(a) < MaxSize THEN Append(w[p].available, h) ELSE w[p].available]
      BY <1>4, <1>11, <2>1 DEF CreateEnds, CountOfSet
    <3> QED
      BY <1>14, <2>4, <3>1 DEF ListOfSet
  <2>6. ListOfSet(w, p, b) = PoolSet(w, p, PoolOf(b, u, c - 1))
    BY <2>3, ListChanges
  <2> QED
    BY <1>9, <2>2, <2>5, <2>6, ChangedAgain
<1>17. /\ PlaceFine(b, u)
       /\ Elems(b) = IF Len(a) < MaxSize THEN Elems(a) \cup {h} ELSE Elems(a)
  <2>1. CASE Len(a) < MaxSize
    <3>1. b = Append(a, h)
      BY <1>14, <2>1
    <3>2. h \notin Elems(a) /\ h \notin InUse(u)
      BY <1>6, <1>12
    <3>3. /\ b \in Seq(TemplateHandles) /\ Once(b) /\ Len(b) = Len(a) + 1
          /\ Elems(b) = Elems(a) \cup {h}
      BY <1>5, <1>13, <3>1, <3>2, OnceAppend
    <3>4. Len(b) <= MaxSize
      BY <1>13, <2>1, <3>3
    <3>5. Elems(b) \cap InUse(u) = {}
      BY <1>12, <3>2, <3>3
    <3> QED
      BY <1>10, <2>1, <3>3, <3>4, <3>5 DEF PlaceFine
  <2>2. CASE ~ (Len(a) < MaxSize)
    BY <1>10, <1>14, <2>2
  <2> QED
    BY <2>1, <2>2
<1>18. Turns(p, b, u, c - 1, cs, gone)
  <2>1. DOMAIN holds' = PoolKeys /\ (p = Len(pools) => Entries(u, holds'))
    BY <1>11, <1>15 DEF TemplateInv
  <2>2. c - 1 \in Int
    BY <1>10
  <2>3. gone \subseteq Coming(creators)
    BY <1>6, <1>14
  <2>4. /\ (Elems(b) \cup InUse(u)) \cap Coming(cs) = {}
        /\ (Elems(b) \cup InUse(u)) \cup Coming(cs) = (Has(pools[p]) \cup Coming(creators)) \ gone
    <3>1. CASE Len(a) < MaxSize
      BY <1>6, <1>8, <1>12, <1>14, <1>17, <3>1
    <3>2. CASE ~ (Len(a) < MaxSize)
      BY <1>6, <1>8, <1>12, <1>14, <1>17, <3>2
    <3> QED
      BY <3>1, <3>2
  <2>5. Coming(cs) \subseteq Coming(creators)
    BY <1>8
  <2> QED
    BY <1>1, <1>8, <1>15, <1>16, <1>17, <2>1, <2>2, <2>3, <2>4, <2>5 DEF Turns
<1> QED
  BY <1>9, <1>18, PoolTurns

\* The provider makes a handle that nothing refers to.
LEMMA Creates == ASSUME TemplateInv, NEW i \in DOMAIN creators, ProviderCreates(i) PROVE TemplateInv'
<1>1. PICK n \in Nat, m \in Nat : n = Len(pools) /\ m = Len(creators)
  BY DEF TemplateInv, CreatorsFine
<1>2. CreatorsFine(creators, n)
  BY <1>1 DEF TemplateInv
<1>3. i \in 1..m /\ creators \in Seq(Creator)
  BY <1>1, <1>2 DEF CreatorsFine
<1>4. PICK h : /\ h = CHOOSE g \in TemplateHandles \ Referred : TRUE
               /\ h \in TemplateHandles \ Referred
  BY DEF ProviderCreates
<1>5. h \in TemplateHandles /\ h \notin live /\ h # NoHandle
  BY <1>4, TemplateAssumption DEF Referred
<1>6. PICK b : b = [pool |-> creators[i].pool, handle |-> h]
  OBVIOUS
<1>7. creators[i] \in Creator /\ creators[i].pool # 0 /\ creators[i].handle = NoHandle
  BY <1>1, <1>3 DEF ProviderCreates
<1>8. b \in Creator /\ b.pool = creators[i].pool /\ b.handle = h
  BY <1>5, <1>6, <1>7 DEF Creator
<1>9. PICK cs : cs = [creators EXCEPT ![i] = b]
  OBVIOUS
<1>10. cs \in Seq(Creator) /\ Len(cs) = m /\ cs[i] = b /\ \A j \in 1..m : j # i => cs[j] = creators[j]
  BY <1>1, <1>3, <1>8, <1>9
<1>11. creators' = cs
  <2>1. creators' = [creators EXCEPT ![i] = [creators[i] EXCEPT !.handle = h]]
    BY <1>4 DEF ProviderCreates
  <2>2. [creators[i] EXCEPT !.handle = h] = b
    BY <1>6, <1>7 DEF Creator
  <2> QED
    BY <1>9, <2>1, <2>2
<1>12. live' = live \cup {h} /\ pools' = pools /\ holds' = holds
  BY <1>4 DEF ProviderCreates
<1>13. h \notin Coming(creators) /\ \A p \in 1..n : h \notin Has(pools[p])
  BY <1>1, <1>5 DEF TemplateInv, Placed
<1>14. \A j \in 1..m : creators[j].handle # h
  BY <1>1, <1>5, <1>13 DEF Coming
<1>15. CreatorsFine(cs, n)
  <2>1. /\ \A j \in 1..m : creators[j].pool <= n /\ (creators[j].handle # NoHandle => creators[j].pool # 0)
        /\ \A j, k \in 1..m : creators[j].handle = creators[k].handle /\ creators[j].handle # NoHandle => j = k
    BY <1>1, <1>2 DEF CreatorsFine
  <2>2. ASSUME NEW j \in 1..m PROVE cs[j].pool <= n /\ (cs[j].handle # NoHandle => cs[j].pool # 0)
    <3>1. CASE j = i
      BY <1>7, <1>8, <1>10, <2>1, <3>1
    <3>2. CASE j # i
      BY <1>10, <2>1, <3>2
    <3> QED
      BY <3>1, <3>2
  <2>3. ASSUME NEW j \in 1..m, NEW k \in 1..m, cs[j].handle = cs[k].handle, cs[j].handle # NoHandle PROVE j = k
    <3>1. CASE j = i /\ k # i
      BY <1>8, <1>10, <1>14, <2>3, <3>1
    <3>2. CASE k = i /\ j # i
      BY <1>8, <1>10, <1>14, <2>3, <3>2
    <3>3. CASE j # i /\ k # i
      BY <1>10, <2>1, <2>3, <3>3
    <3> QED
      BY <3>1, <3>2, <3>3
  <2> QED
    BY <1>10, <2>2, <2>3 DEF CreatorsFine
<1>16. Coming(cs) = Coming(creators) \cup {h}
  <2>1. ASSUME NEW x \in Coming(cs) PROVE x \in Coming(creators) \cup {h}
    <3>1. PICK j \in 1..m : x = cs[j].handle /\ x # NoHandle
      BY <1>10, <2>1 DEF Coming
    <3>2. x = h \/ x = creators[j].handle
      BY <1>8, <1>10, <3>1
    <3> QED
      BY <1>1, <3>1, <3>2 DEF Coming
  <2>2. ASSUME NEW x \in Coming(creators) PROVE x \in Coming(cs)
    <3>1. PICK j \in 1..m : x = creators[j].handle /\ x # NoHandle
      BY <1>1, <2>2 DEF Coming
    <3>2. x = cs[j].handle
      BY <1>7, <1>10, <3>1
    <3> QED
      BY <1>10, <3>1, <3>2 DEF Coming
  <2>3. h \in Coming(cs)
    BY <1>3, <1>5, <1>8, <1>10 DEF Coming
  <2> QED
    BY <2>1, <2>2, <2>3
<1>17. Placed(pools, cs, live')
  <2>1. /\ \A p, q \in 1..n : p # q => Has(pools[p]) \cap Has(pools[q]) = {}
        /\ \A p \in 1..n : Has(pools[p]) \cap Coming(creators) = {}
        /\ \A x : x \in live <=> x \in Coming(creators) \/ \E p \in 1..n : x \in Has(pools[p])
    BY <1>1 DEF TemplateInv, Placed
  <2>2. \A p \in 1..n : Has(pools[p]) \cap Coming(cs) = {}
    BY <1>13, <1>16, <2>1
  <2>3. \A x : x \in live' <=> x \in Coming(cs) \/ \E p \in 1..n : x \in Has(pools[p])
    BY <1>12, <1>16, <2>1
  <2> QED
    BY <1>1, <2>1, <2>2, <2>3 DEF Placed
<1> QED
  BY <1>1, <1>11, <1>12, <1>15, <1>17 DEF TemplateInv

LEMMA TemplateSame == ASSUME TemplateInv, UNCHANGED <<pools, creators, live, holds>> PROVE TemplateInv'
  BY DEF TemplateInv

LEMMA TemplateStep == TemplateInv /\ [TemplateNext]_templateVars => TemplateInv'
<1> SUFFICES ASSUME TemplateInv, [TemplateNext]_templateVars PROVE TemplateInv'
  OBVIOUS
<1>1. CASE RegisterTemplatePool
  BY <1>1, Registers
<1>2. ASSUME NEW k \in PoolKeys, Acquire(k) PROVE TemplateInv'
  BY <1>2, Acquires
<1>3. ASSUME NEW k \in PoolKeys, NEW recycle \in BOOLEAN, Release(k, recycle) PROVE TemplateInv'
  BY <1>3, Releases
<1>4. ASSUME NEW i \in DOMAIN creators, CreateBegins(i) PROVE TemplateInv'
  BY <1>4, Begins
<1>5. ASSUME NEW i \in DOMAIN creators, ProviderCreates(i) PROVE TemplateInv'
  BY <1>5, Creates
<1>6. ASSUME NEW i \in DOMAIN creators, ProviderFails(i) PROVE TemplateInv'
  BY <1>6, Fails
<1>7. ASSUME NEW i \in DOMAIN creators, CreateEnds(i) PROVE TemplateInv'
  BY <1>7, CreatorEnds
<1>8. CASE warmUpAll \/ replenishAll \/ scalePools
  BY <1>8, TimersStep
<1>9. CASE evictExpired
  BY <1>9, Expires
<1>10. CASE drainAll
  BY <1>10, Drains
<1>11. CASE StartPools
  BY <1>11, TemplateSame DEF StartPools
<1>12. ASSUME NEW h \in TemplateHandles, Ages(h) PROVE TemplateInv'
  BY <1>12, TemplateSame DEF Ages
<1>13. CASE StopPools
  BY <1>13, TemplateSame DEF StopPools
<1>14. CASE UNCHANGED templateVars
  BY <1>14, TemplateSame DEF templateVars
<1>15. Creating => \E i \in DOMAIN creators : CreateBegins(i) \/ ProviderCreates(i) \/ ProviderFails(i) \/ CreateEnds(i)
  BY DEF Creating
<1>16. Maintenance => replenishAll \/ evictExpired \/ scalePools
  BY DEF Maintenance
<1> QED
  BY <1>1, <1>2, <1>3, <1>4, <1>5, <1>6, <1>7, <1>8, <1>9, <1>10, <1>11, <1>12, <1>13, <1>14, <1>15, <1>16 DEF TemplateNext

LEMMA TemplateInvIsSafe == TemplateInv => TemplatesSafe
<1> SUFFICES ASSUME TemplateInv PROVE TemplatesSafe
  OBVIOUS
<1>1. DOMAIN pools = 1..Len(pools) /\ DOMAIN creators = 1..Len(creators)
  BY DEF TemplateInv, CreatorsFine
<1>2. /\ \A p, q \in 1..Len(pools) : p # q => Has(pools[p]) \cap Has(pools[q]) = {}
      /\ \A h : h \in live <=> h \in Coming(creators) \/ \E p \in 1..Len(pools) : h \in Has(pools[p])
  BY DEF TemplateInv, Placed
<1>3. ASSUME NEW p \in 1..Len(pools)
      PROVE  /\ pools[p].available \in Seq(TemplateHandles) /\ Once(pools[p].available)
             /\ DOMAIN pools[p].available = 1..Len(pools[p].available)
             /\ Len(pools[p].available) <= MaxSize
             /\ \A k, l \in PoolKeys : pools[p].inUse[k] = pools[p].inUse[l] /\ pools[p].inUse[k] # NoHandle => k = l
             /\ Elems(pools[p].available) \cap InUse(pools[p].inUse) = {}
             /\ Has(pools[p]) = Elems(pools[p].available) \cup InUse(pools[p].inUse)
             /\ NoHandle \notin Elems(pools[p].available)
             /\ \A i \in 1..Len(pools[p].available) : pools[p].available[i] \in Elems(pools[p].available)
             /\ \A k \in Used(p) : k \in PoolKeys /\ pools[p].inUse[k] # NoHandle /\ pools[p].inUse[k] \in InUse(pools[p].inUse)
  <2>1. PoolFine(pools[p])
    BY DEF TemplateInv
  <2>2. PICK a : a = pools[p].available
    OBVIOUS
  <2>3. a \in Seq(TemplateHandles)
    BY <2>1, <2>2 DEF PoolFine, Pool
  <2>4. DOMAIN a = 1..Len(a) /\ NoHandle \notin Elems(a) /\ \A i \in 1..Len(a) : a[i] \in Elems(a)
    BY <2>3, TemplateAssumption DEF Elems
  <2>5. \A k \in Used(p) : k \in PoolKeys /\ pools[p].inUse[k] # NoHandle /\ pools[p].inUse[k] \in InUse(pools[p].inUse)
    BY DEF Used, InUse
  <2> QED
    BY <2>1, <2>2, <2>3, <2>4, <2>5 DEF PoolFine, Has
<1> DEFINE A(p) == pools[p].available
           U(p) == pools[p].inUse
           L(p) == 1..Len(pools[p].available)
<1>4. ASSUME NEW p \in 1..Len(pools)
      PROVE  DOMAIN A(p) = L(p) /\ \A i \in L(p) : A(p)[i] \in Has(pools[p]) /\ A(p)[i] \in Elems(A(p))
  <2>1. DOMAIN A(p) = L(p) /\ \A i \in L(p) : A(p)[i] \in Elems(A(p))
    BY <1>3
  <2>2. Elems(A(p)) \subseteq Has(pools[p])
    BY DEF Has
  <2> QED
    BY <2>1, <2>2
<1>5. \A p \in 1..Len(pools) : \A k \in Used(p) : k \in PoolKeys /\ U(p)[k] \in Has(pools[p])
  BY <1>3
<1>6. \A p \in 1..Len(pools) : Has(pools[p]) \subseteq live
  BY <1>2
<1>7. \A p, q \in 1..Len(pools) : \A x : x \in Has(pools[p]) /\ x \in Has(pools[q]) => p = q
  BY <1>2
<1>8. ASSUME NEW p \in 1..Len(pools), NEW q \in 1..Len(pools), NEW i \in L(p), NEW j \in L(q), A(p)[i] = A(q)[j]
      PROVE  p = q /\ i = j
  <2>1. p = q
    BY <1>4, <1>7, <1>8
  <2> QED
    BY <1>3, <1>8, <2>1 DEF Once
<1>9. ASSUME NEW p \in 1..Len(pools), NEW q \in 1..Len(pools), NEW i \in L(p), NEW k \in PoolKeys
      PROVE  U(q)[k] # A(p)[i]
  <2> SUFFICES ASSUME U(q)[k] = A(p)[i] PROVE FALSE
    OBVIOUS
  <2>1. A(p)[i] \in Elems(A(p)) /\ A(p)[i] \in Has(pools[p]) /\ A(p)[i] # NoHandle
    BY <1>3, <1>4
  <2>2. U(q)[k] \in InUse(U(q))
    BY <2>1 DEF InUse
  <2>3. p = q
    <3>1. InUse(U(q)) \subseteq Has(pools[q])
      BY <1>3
    <3> QED
      BY <1>7, <2>1, <2>2, <3>1
  <2> QED
    BY <1>3, <2>1, <2>2, <2>3
<1>10. ASSUME NEW p \in 1..Len(pools), NEW q \in 1..Len(pools), NEW k \in Used(p), NEW l \in Used(q), U(p)[k] = U(q)[l]
       PROVE  p = q /\ k = l
  <2>1. p = q
    BY <1>5, <1>7, <1>10
  <2> QED
    BY <1>3, <1>10, <2>1
<1>11. HandlesUsable
  <2>1. ASSUME NEW p \in 1..Len(pools), NEW q \in 1..Len(pools)
        PROVE  /\ \A i \in L(p) : /\ A(p)[i] \in live
                                  /\ \A j \in L(q) : A(p)[i] = A(q)[j] => p = q /\ i = j
                                  /\ \A k \in PoolKeys : U(q)[k] # A(p)[i]
               /\ \A k \in Used(p) : /\ U(p)[k] \in live
                                     /\ \A l \in Used(q) : U(p)[k] = U(q)[l] => p = q /\ k = l
    <3>1. \A i \in L(p) : A(p)[i] \in live
      BY <1>4, <1>6
    <3>2. \A k \in Used(p) : U(p)[k] \in live
      BY <1>5, <1>6
    <3> HIDE DEF A, U, L
    <3> QED
      BY <1>8, <1>9, <1>10, <3>1, <3>2
  <2>2. \A p \in DOMAIN pools : p \in 1..Len(pools) /\ DOMAIN A(p) = L(p)
    BY <1>1, <1>4
  <2>3. \A p, q \in DOMAIN pools :
            /\ \A i \in DOMAIN A(p) : /\ A(p)[i] \in live
                                      /\ \A j \in DOMAIN A(q) : A(p)[i] = A(q)[j] => p = q /\ i = j
                                      /\ \A k \in PoolKeys : U(q)[k] # A(p)[i]
            /\ \A k \in Used(p) : /\ U(p)[k] \in live
                                  /\ \A l \in Used(q) : U(p)[k] = U(q)[l] => p = q /\ k = l
    <3> HIDE DEF A, U, L
    <3> QED
      BY <2>1, <2>2
  <2> QED
    BY <2>3 DEF HandlesUsable
<1>12. WithinMaxSize
  BY <1>1, <1>3 DEF WithinMaxSize
<1>13. NothingLost
  <2> DEFINE T(p) == ToSet(pools[p].available) \cup {pools[p].inUse[k] : k \in PoolKeys}
  <2>1. ASSUME NEW h \in live PROVE h \in {creators[i].handle : i \in DOMAIN creators} \/ \E p \in DOMAIN pools : h \in T(p)
    <3>1. CASE h \in Coming(creators)
      BY <1>1, <3>1 DEF Coming
    <3>2. ASSUME NEW p \in 1..Len(pools), h \in Has(pools[p]) PROVE h \in T(p)
      <4>1. h \in Elems(pools[p].available) \cup InUse(pools[p].inUse)
        BY <3>2 DEF Has
      <4>2. Elems(pools[p].available) = ToSet(pools[p].available)
        BY <1>3 DEF Elems, ToSet
      <4> QED
        BY <4>1, <4>2 DEF InUse
    <3> HIDE DEF T
    <3> QED
      BY <1>1, <1>2, <3>1, <3>2
  <2>2. PICK G, C : G = UNION {T(p) : p \in DOMAIN pools} /\ C = {creators[i].handle : i \in DOMAIN creators}
    OBVIOUS
  <2>3. \A p \in DOMAIN pools : T(p) \subseteq G
    <3> HIDE DEF T
    <3> QED
      BY <2>2, ZenonT(20)
  <2>4. live \subseteq C \cup G
    <3> HIDE DEF T
    <3> QED
      BY <2>1, <2>2, <2>3
  <2> QED
    BY <2>2, <2>4 DEF NothingLost
<1> QED
  BY <1>11, <1>12, <1>13 DEF TemplatesSafe

\* Every sandbox of a template's pools has exactly one place, in one list or under
\* one key or with the goroutine that creates it, is alive there, and none that is
\* alive has been forgotten (Acquire, Release, createPooledSandbox, evictExpired,
\* drainAll and RegisterTemplatePool of template_pool.go, in any order).
THEOREM TemplatesAlwaysSafe == TemplateSpec => []TemplatesSafe
<1>1. TemplateInit => TemplateInv
  BY TemplateStarts
<1>2. TemplateInv /\ [TemplateNext]_templateVars => TemplateInv'
  BY TemplateStep
<1>3. TemplateInv => TemplatesSafe
  BY TemplateInvIsSafe
<1> QED
  BY <1>1, <1>2, <1>3, PTL DEF TemplateSpec
=============================================================================
