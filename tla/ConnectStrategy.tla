------------------------- MODULE ConnectStrategy -------------------------
(***************************************************************************)
(* The Wi-Fi reconnect strategy of main/app_event.c: which of the three    *)
(* phases the next attempt belongs to, how many attempts of it failed, and *)
(* whether the station has an address.  The phase decides how long the     *)
(* reconnect timer waits: phase 0 retries at once, phases 1 and 2 slowly.  *)
(***************************************************************************)
EXTENDS Integers

CONSTANT connect_max    \* attempts of each phase before it is left

PHASE_0 == 0
PHASE_1 == 1
PHASE_2 == 2
Phases  == PHASE_0..PHASE_2

ASSUME StrategyAssumption == connect_max \in [Phases -> Nat \ {0}]

VARIABLES is_connected, cur_phase, connect_cnt

strategyVars == <<is_connected, cur_phase, connect_cnt>>

StrategyTypeOK ==
    /\ is_connected \in BOOLEAN
    /\ cur_phase \in Phases
    /\ connect_cnt \in [Phases -> Nat]

StrategyInit ==
    /\ is_connected = FALSE
    /\ cur_phase = PHASE_0
    /\ connect_cnt = [p \in Phases |-> 0]

\* Phase 0 is never returned to by failing; 1 and 2 alternate.
NextPhase(p) == IF p = PHASE_1 THEN PHASE_2 ELSE PHASE_1

\* Mutant: the phase is left one attempt too late.
connect_fail_late ==
    /\ is_connected' = FALSE
    /\ IF connect_cnt[cur_phase] >= connect_max[cur_phase]
       THEN /\ connect_cnt' = [connect_cnt EXCEPT ![cur_phase] = 0]
            /\ cur_phase' = NextPhase(cur_phase)
       ELSE /\ connect_cnt' = [connect_cnt EXCEPT ![cur_phase] = @ + 1]
            /\ UNCHANGED cur_phase

\* Mutant: the connected flag is not cleared.
connect_fail_keeps_flag ==
    /\ UNCHANGED is_connected
    /\ connect_cnt' = [connect_cnt EXCEPT ![cur_phase] = 0]
    /\ cur_phase' = NextPhase(cur_phase)

\* An attempt failed, or an established connection was lost.
connect_fail ==
    /\ is_connected' = FALSE
    /\ IF connect_cnt[cur_phase] + 1 >= connect_max[cur_phase]
       THEN /\ connect_cnt' = [connect_cnt EXCEPT ![cur_phase] = 0]
            /\ cur_phase' = NextPhase(cur_phase)
       ELSE /\ connect_cnt' = [connect_cnt EXCEPT ![cur_phase] = @ + 1]
            /\ UNCHANGED cur_phase

\* The station got an address.
connect_success ==
    /\ is_connected' = TRUE
    /\ cur_phase' = PHASE_0
    /\ connect_cnt' = [p \in Phases |-> 0]

\* No phase holds as many failed attempts as end it, and the phases that are
\* not current hold none: the next phase always starts its count afresh.
CountersInRange ==
    /\ \A p \in Phases : connect_cnt[p] < connect_max[p]
    /\ \A p \in Phases \ {cur_phase} : connect_cnt[p] = 0
=============================================================================
