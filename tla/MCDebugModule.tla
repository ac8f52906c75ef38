--------------------------- MODULE MCDebugModule ---------------------------
(* A debugger that halts, resumes, steps, clears its requests and turns    *)
(* the debug module off, and programs that interrupts break into.          *)
EXTENDS DebugModule, MCBackEnd

Ask(requests) ==
  [dm_active |-> "active" \in requests, haltreq_r |-> "halt" \in requests,
   resumereq_r |-> "resume" \in requests, step_r |-> "step" \in requests]

MCControlWrites ==
  {Ask(r) : r \in {{}, {"active", "halt"}, {"active", "resume"}, {"active", "resume", "step"},
                   {"active", "step"}}}

DebugMenu == {Plain("alu"), MieWrite(TRUE)}
=============================================================================
