------------------------------ MODULE FairShare ------------------------------
(***************************************************************************)
(* What "fair work distribution" promises: the scan of assignImages() over *)
(* operatorIdleMap_ serves the operator first that has been idle longest.  *)
(* ImageServer with a history variable that counts, for an operator that   *)
(* waits, how often each other one was served meanwhile.                   *)
(***************************************************************************)
EXTENDS ImageServer

VARIABLE passed     \* [p][o]: images o was given since p began to wait

varsF == <<vars, passed>>

\* An operator waits from the time its tpAvailableTime was taken, as long as
\* it is AVAILABLE.
Waits(p) ==
    /\ opState[p] = "AVAILABLE" /\ opState'[p] = "AVAILABLE"
    /\ tpAvailableTime'[p] = tpAvailableTime[p]

Served(o) == opState[o] = "AVAILABLE" /\ opState'[o] = "BUSY"

Count ==
    passed' = [p \in OperatorId |-> [o \in OperatorId |->
                  IF ~Waits(p) THEN 0
                  ELSE IF Served(o) THEN passed[p][o] + 1 ELSE passed[p][o]]]

InitF == Init /\ passed = [p \in OperatorId |-> [o \in OperatorId |-> 0]]

SpecF == InitF /\ [][Next /\ Count]_varsF

-----------------------------------------------------------------------------

\* An operator that waits is passed over by each other one at most once,
\* however their decisions, losses and registrations interleave with the
\* images, unless the clock is set back.
NoOvertaking ==
    Absent({"clock_back"}) => \A p, o \in OperatorId : passed[p][o] <= 1

\* What is inductive: an operator that passed another one is behind it from
\* then on, and no idle time lies in the future.
OvertakersBehind ==
    /\ passed \in [OperatorId -> [OperatorId -> Nat]]
    /\ Absent({"clock_back"}) =>
         /\ \A o \in OperatorId : tpAvailableTime[o] <= clock
         /\ \A p, o \in OperatorId :
               /\ opState[p] # "AVAILABLE" => passed[p][o] = 0
               /\ passed[p][o] # 0 => passed[p][o] = 1 /\ tpAvailableTime[p] < tpAvailableTime[o]
=============================================================================
