------------------------- MODULE EngineStateMachine -------------------------
(***************************************************************************)
(* The lifecycle table of the agent engine, orchestration/engine/state/    *)
(* machine.py, as constant-level operators.  The machine is a table from   *)
(* (state, trigger) to the next state; the engine only ever advances it    *)
(* with try_transition, which does nothing when the table has no entry.    *)
(***************************************************************************)

EngineStates == {"UNINITIALIZED", "IDLE", "RUNNING", "AWAITING_SUB_AGENTS",
                 "INTERRUPTED", "FAILED", "PENDING_RETRY", "SHUTTING_DOWN"}

Triggers == {"START", "USER_MESSAGE", "RUN_COMPLETED", "RUN_INTERRUPTED",
             "RUN_FAILED", "RETRY_REQUESTED", "RETRY_STARTED",
             "RESTORE_INTERRUPTED", "RESTORE_FAILED", "SHUTDOWN",
             "SUB_AGENT_PAUSED", "SUB_AGENT_RESOLVED"}

\* The table, by trigger: the states that accept it and where each one goes.
Transitions ==
  [START               |-> [UNINITIALIZED |-> "IDLE"],
   USER_MESSAGE        |-> [IDLE |-> "RUNNING", INTERRUPTED |-> "RUNNING",
                            FAILED |-> "RUNNING", PENDING_RETRY |-> "RUNNING"],
   RUN_COMPLETED       |-> [RUNNING |-> "IDLE", PENDING_RETRY |-> "RUNNING",
                            AWAITING_SUB_AGENTS |-> "IDLE"],
   RUN_INTERRUPTED     |-> [RUNNING |-> "INTERRUPTED", PENDING_RETRY |-> "RUNNING",
                            AWAITING_SUB_AGENTS |-> "INTERRUPTED"],
   RUN_FAILED          |-> [RUNNING |-> "FAILED", PENDING_RETRY |-> "FAILED",
                            AWAITING_SUB_AGENTS |-> "FAILED"],
   RETRY_REQUESTED     |-> [RUNNING |-> "PENDING_RETRY"],
   RETRY_STARTED       |-> [INTERRUPTED |-> "RUNNING", FAILED |-> "RUNNING"],
   RESTORE_INTERRUPTED |-> [IDLE |-> "INTERRUPTED"],
   RESTORE_FAILED      |-> [IDLE |-> "FAILED"],
   SHUTDOWN            |-> [s \in EngineStates \ {"SHUTTING_DOWN"} |-> "SHUTTING_DOWN"],
   SUB_AGENT_PAUSED    |-> [RUNNING |-> "AWAITING_SUB_AGENTS",
                            PENDING_RETRY |-> "AWAITING_SUB_AGENTS"],
   SUB_AGENT_RESOLVED  |-> [AWAITING_SUB_AGENTS |-> "RUNNING"]]

TryTransition(state, trigger) ==
  IF state \in DOMAIN Transitions[trigger] THEN Transitions[trigger][state] ELSE state

\* A run is logically in flight, a sub-agent decision or a queued retry included.
IsRunning(state) == state \in {"RUNNING", "PENDING_RETRY", "AWAITING_SUB_AGENTS"}

\* coordinator._fresh_prompt_fsm_accepts
AcceptsFreshPrompt(state) == state \in {"UNINITIALIZED", "IDLE", "INTERRUPTED", "FAILED"}

=============================================================================
