----------------------------- MODULE MCSkwControl -----------------------------
(***************************************************************************)
(* The networks skwifi takes part in: the station's association, the       *)
(* access point's clients, their recovery after a crash of the chip, and   *)
(* the interfaces below them.                                              *)
(*                                                                         *)
(* These components share no state that either of them models, so they are *)
(* checked as a sum: a behaviour is one of one component, chosen at the    *)
(* start, and the variables of the others keep the first values of one of  *)
(* their behaviours.  An invariant or a property of a component holds of   *)
(* the sum exactly if it holds of the component's own specification.       *)
(*                                                                         *)
(* A component whose record of a known defect is set (Misapplied, overlap, *)
(* late) takes no further step: what may follow such a defect is not what  *)
(* the properties are about.                                               *)
(***************************************************************************)
EXTENDS SkwSta, SkwAp, SkwRecovery, SkwIface

OneOfEach == <<"sta", "ap", "dev">>

Limits == [station |-> 2, ap |-> 1]

VARIABLE side  \* the component that takes the steps

vars == <<StaVars, ApVars, RecVars, IfaceVars, side>>

Init ==
    /\ side \in {"station", "ap", "recovery", "iface"}
    /\ StaInit
    /\ ApInit /\ (side # "ap" => sme_external)
    /\ RecInit
    /\ IfaceInit

Next ==
    \/ /\ side = "station" /\ ~Misapplied /\ StaNext
       /\ UNCHANGED <<ApVars, RecVars, IfaceVars, side>>
    \/ /\ side = "ap" /\ ~overlap /\ ApNext
       /\ UNCHANGED <<StaVars, RecVars, IfaceVars, side>>
    \/ /\ side = "recovery" /\ RecNext
       /\ UNCHANGED <<StaVars, ApVars, IfaceVars, side>>
    \/ /\ side = "iface" /\ ~late /\ IfaceNext
       /\ UNCHANGED <<StaVars, ApVars, RecVars, side>>

\* The fairness of each component's specification, for the component that is active.
Fairness ==
    /\ WF_StaVars(side = "station" /\ StaStep("user") /\ staFuel' = staFuel)
    /\ WF_StaVars(side = "station" /\ ((StaStep("event") \/ StepQuiet) /\ staFuel' = staFuel))
    /\ WF_StaVars(side = "station" /\ skw_sta_timer)
    /\ WF_StaVars(side = "station" /\ StaEvent /\ staFuel' = staFuel)
    /\ WF_StaVars(side = "station" /\ skw_sta_work /\ staFuel' = staFuel)
    /\ \A t \in ApThreads :
          <>[](side = "ap" /\ ~ApIdle(t)) => []<><<apTodo'[t] # apTodo[t]>>_ApVars
    /\ <>[](side = "ap" /\ acl_work /\ ApIdle("work")) => []<><<~acl_work'>>_ApVars
    /\ WF_RecVars(side = "recovery" /\ RecoveryWork)
    /\ WF_RecVars(side = "recovery" /\ ChipComesBack)
    /\ WF_IfaceVars(side = "iface" /\ IfaceCaller)
    /\ \A i \in Insts : WF_IfaceVars(side = "iface" /\ WorkerGoes(i))

Spec == Init /\ [][Next]_vars /\ Fairness

\* Every attempt to connect, request, recovery and interface operation ends,
\* and a station that is shut out leaves, under the fairness of each component.
ControlProgress ==
    /\ StaAttemptEnds /\ StaAnswered /\ ApDeniedLeaves /\ RecoveryEnds /\ IfaceOpsEnd
===============================================================================
