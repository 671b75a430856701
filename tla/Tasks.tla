------------------------------- MODULE Tasks -------------------------------
(***************************************************************************)
(* The tasks of the program: what Sys::GetTaskId() tells apart, and the    *)
(* null id that is no task's.                                              *)
(***************************************************************************)
EXTENDS Integers, FiniteSets, TaskCount

CONSTANTS Thread,
          NoThread  \* none of them
=============================================================================
