--------------------------- MODULE EventRecorder ---------------------------
(***************************************************************************)
(* The event recorder (pkg/event/recorder.go).  RecordEvent holds the lock *)
(* all along and is one action.  An event is known by its reason and its   *)
(* object; messages and times are left out.                                *)
(***************************************************************************)
EXTENDS Integers, Sequences, FiniteSetsExt

CONSTANTS
    Reasons, Involved,   \* reasons of events and the objects they are about
    maxEvents,
    MaxRecorded          \* bound on the calls of RecordEvent

ASSUME RecorderAssumption == maxEvents \in Nat \ {0} /\ MaxRecorded \in Nat

VARIABLES
    recorded,   \* er.events
    counters,   \* er.counters, by reason
    trimmed     \* history: the counts of events that were trimmed, by reason

recorderVars == <<recorded, counters, trimmed>>

RecorderInit ==
    /\ recorded = <<>>
    /\ counters = [r \in Reasons |-> 0]
    /\ trimmed = [r \in Reasons |-> 0]

\* Mutant: only the last event is compared.
existingEventLast(r, o) ==
    {i \in DOMAIN recorded : i = Len(recorded) /\ recorded[i].reason = r /\ recorded[i].object = o}

\* The event that is there already, the first if there were several.
existingEvent(r, o) ==
    LET same == {i \in DOMAIN recorded : recorded[i].reason = r /\ recorded[i].object = o} IN
    {i \in same : \A j \in same : i <= j}

\* The events beyond maxEvents, from the oldest on, go.
Trim(es) ==
    IF Len(es) > maxEvents THEN SubSeq(es, Len(es) - maxEvents + 1, Len(es)) ELSE es

RecordEvent(r, o) ==
    /\ counters' = [counters EXCEPT ![r] = @ + 1]
    /\ IF existingEvent(r, o) # {}
       THEN /\ \E i \in existingEvent(r, o) : recorded' = [recorded EXCEPT ![i].count = @ + 1]
            /\ UNCHANGED trimmed
       ELSE LET es == Append(recorded, [reason |-> r, object |-> o, count |-> 1]) IN
            /\ recorded' = Trim(es)
            /\ trimmed' = IF Len(es) > maxEvents
                          THEN [trimmed EXCEPT ![es[1].reason] = @ + es[1].count]
                          ELSE trimmed

RecorderNext ==
    \E r \in Reasons, o \in Involved :
        /\ MapThenSumSet(LAMBDA q : counters[q], Reasons) < MaxRecorded
        /\ RecordEvent(r, o)

RecorderSpec == RecorderInit /\ [][RecorderNext]_recorderVars

-----------------------------------------------------------------------------
\* An event that comes again is counted where it is, however many others came in
\* between, so that an object's history has each reason once, and there are never
\* more than maxEvents.
RecordedOnce ==
    /\ Len(recorded) <= maxEvents
    /\ \A i, j \in DOMAIN recorded :
          recorded[i].reason = recorded[j].reason /\ recorded[i].object = recorded[j].object => i = j

\* GetEventCount says how often a reason was recorded: what the events say, and
\* those that were trimmed in the meantime.
CountsAddUp ==
    \A r \in Reasons :
        counters[r] = trimmed[r] + MapThenSumSet(LAMBDA i : recorded[i].count,
                                                 {i \in DOMAIN recorded : recorded[i].reason = r})

\* Counting up and trimming together neither list an event twice nor lose a count.
EventsSafe == RecordedOnce /\ CountsAddUp
=============================================================================
