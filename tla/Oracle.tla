------------------------------- MODULE Oracle -------------------------------
(***************************************************************************)
(* What the client is promised by the oracle, whatever the pipes, tasks,   *)
(* caches and retries behind it: a request is answered with a preimage of  *)
(* the key that was asked for, or the client is told that it failed and    *)
(* may go on, or the program ends; one of these happens.                   *)
(***************************************************************************)
CONSTANTS Key, Meaning(_), None, Failed

VARIABLES
  request,   \* the key asked for, None, or Failed when the program has ended
  answer     \* the last answer: None or a key with its value, Failed if there was none

Init == request \in Key \cup {None} /\ answer = None

Ask == request = None /\ request' \in Key /\ UNCHANGED answer

Serve ==
  /\ request \in Key
  /\ \E v \in Meaning(request) : answer' = [key |-> request, value |-> v]
  /\ request' \in Key \cup {None}

Fail ==
  /\ request \in Key
  /\ answer' = [key |-> request, value |-> Failed]
  /\ request' \in Key \cup {None}

End == request # Failed /\ request' = Failed /\ UNCHANGED answer

Next == Ask \/ Serve \/ Fail \/ End

\* What may happen, without what must.
Safety == Init /\ [][Next]_<<request, answer>>

Spec == Safety /\ WF_<<request, answer>>(Serve \/ Fail \/ (request \in Key /\ End))
=============================================================================
