-------------------------------- MODULE MCSched --------------------------------
(***************************************************************************)
(* The scheduler some time after boot, when the ring-3 process is over and *)
(* the compositor has the CPU.  From there the interesting launches are    *)
(* few steps away and leave room for device interrupts and liveness.       *)
(***************************************************************************)
EXTENDS Sched

InitDesktop ==
  /\ state = [i \in Slots |-> CASE i = 1 -> "RUNNING" [] i = 2 -> "TERMINATED"
                                 [] OTHER -> "READY"]
  /\ num = 3
  /\ cur = 1
  /\ isYield = FALSE
  /\ path = [i \in Slots |-> NoPath]
  /\ fpu = [i \in Slots |-> IF i < 3 THEN "own" ELSE "zero"]
  /\ stack = {1, 2}
  /\ windows = {}
  /\ pc = [i \in Slots |-> CASE i = 0 -> "int32" [] i = 2 -> "hlt" [] OTHER -> "loop"]
  /\ job = [i \in Slots |-> NoJob]
  /\ frame = [i \in Slots |-> <<>>]
  /\ inService = FALSE
  /\ app = [i \in Slots |-> NoApp]
  /\ wild = {}

SpecDesktop == InitDesktop /\ [][Next]_vars /\ Fairness
===============================================================================
