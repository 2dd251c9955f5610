------------------------------- MODULE MCRdcBus -------------------------------
(***************************************************************************)
(* Instances of RdcBus: the tasks of arm.c, pole.c and rtu_com_hmi.c with  *)
(* their priorities, of configMAX_PRIORITIES = 5.                          *)
(***************************************************************************)
EXTENDS RdcBus

MCChips == {"arm", "pole"}

\* Two positions that differ in both bytes.
MCPositions == {[hi |-> 0, lo |-> 0], [hi |-> 1, lo |-> 1]}

MCPriority == [t \in Tasks |-> CASE t \in {"arm_task", "pole_task"} -> 4
                                 [] t = "tcp_thread" -> 3
                                 [] OTHER -> 2]

\* NetValuesToSendFromRTU asks for the status of pole and arm, then for their positions.
MCReadsOf == [t \in Tasks |-> CASE t \in {"arm_task", "arm_supervisor"} -> <<"arm">>
                                [] t \in {"pole_task", "pole_supervisor"} -> <<"pole">>
                                [] OTHER -> <<"pole", "arm", "arm", "pole">>]
================================================================================
