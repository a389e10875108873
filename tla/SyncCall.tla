------------------------------- MODULE SyncCall -------------------------------
(***************************************************************************)
(* What the server expects of its thread pool: threadpool_add followed by  *)
(* threadpool_wait is a procedure call.  One task at a time is called; it  *)
(* starts once, ends once, and the caller goes on with its own result.     *)
(***************************************************************************)
CONSTANTS Tasks, NoTask

VARIABLES
  called,    \* the tasks called so far
  current,   \* the task of the latest call
  stage,     \* where that call is
  returned   \* the value each call gave back

vars == <<called, current, stage, returned>>

Init ==
  /\ called = {} /\ current = NoTask /\ stage = "idle"
  /\ returned = [t \in Tasks |-> NoTask]

Call(t) ==
  /\ stage = "idle" /\ t \notin called
  /\ stage' = "called" /\ current' = t
  /\ called' = called \cup {t}
  /\ UNCHANGED returned

Start ==
  /\ stage = "called" /\ stage' = "executing"
  /\ UNCHANGED <<called, current, returned>>

End ==
  /\ stage = "executing" /\ stage' = "executed"
  /\ UNCHANGED <<called, current, returned>>

Return ==
  /\ stage = "executed" /\ stage' = "idle"
  /\ returned' = [returned EXCEPT ![current] = current]
  /\ UNCHANGED <<called, current>>

Next == (\E t \in Tasks : Call(t)) \/ Start \/ End \/ Return

Spec == Init /\ [][Next]_vars
===============================================================================
