---------------------------- MODULE RequestLifecycle ----------------------------
(***************************************************************************)
(* What the asynchronous pipeline promises a client about its request: the *)
(* state diagram of the status endpoint, and how often the proposed action *)
(* runs.  The pipeline knows that the action ran only when the call that   *)
(* records it, and the save of "completed", return.  A run whose call      *)
(* raised after it took effect is unheard: it is taken for a failure and   *)
(* may be repeated.  The promise is that nothing else is repeated: a       *)
(* failed request has no run but unheard ones, a completed one at most one *)
(* more, and what nobody handles is never run.                             *)
(*                                                                         *)
(* RequestPipeline implements this module as long as the partition is not  *)
(* reassigned under a running consumer.                                    *)
(***************************************************************************)
EXTENDS Naturals

CONSTANT Requests

VARIABLES
  state,    \* state[r], what GET /v1/requests/{id} answers
  handled,  \* the requests somebody works on
  effects,  \* effects[r], how often the action of r has run
  unheard   \* unheard[r], how many of these runs were taken for failures

vars == <<state, handled, effects, unheard>>

States == {"unknown", "queued", "processing", "completed", "failed"}

Init ==
  /\ state = [r \in Requests |-> "unknown"]
  /\ handled = {}
  /\ effects = [r \in Requests |-> 0]
  /\ unheard = [r \in Requests |-> 0]

Move(r, from, to) == state[r] = from /\ state' = [state EXCEPT ![r] = to]

Queue(r)  == Move(r, "unknown", "queued") /\ UNCHANGED <<handled, effects, unheard>>
Replay(r) ==
  /\ r \notin handled
  /\ Move(r, "failed", "queued")
  /\ UNCHANGED <<handled, effects, unheard>>

\* The claim may raise once it is stored: then nobody goes on with r.
Claim(r) ==
  /\ Move(r, "queued", "processing")
  /\ handled' \in {handled, handled \cup {r}}
  /\ UNCHANGED <<effects, unheard>>

\* All that is known of r's runs is that they failed.
Due(r)  == r \in handled /\ effects[r] = unheard[r]
Done(r) == r \in handled /\ effects[r] = unheard[r] + 1

Act(r) ==
  /\ Due(r)
  /\ effects' = [effects EXCEPT ![r] = @ + 1]
  /\ UNCHANGED <<state, handled, unheard>>

ActUnheard(r) ==
  /\ Due(r)
  /\ effects' = [effects EXCEPT ![r] = @ + 1]
  /\ unheard' = [unheard EXCEPT ![r] = @ + 1]
  /\ UNCHANGED <<state, handled>>

CompleteUnheard(r) ==
  /\ Done(r)
  /\ unheard' = [unheard EXCEPT ![r] = @ + 1]
  /\ state' \in {state, [state EXCEPT ![r] = "completed"]}
  /\ UNCHANGED <<handled, effects>>

Leave(r, s) ==
  /\ state' = [state EXCEPT ![r] = s]
  /\ handled' = handled \ {r}
  /\ UNCHANGED <<effects, unheard>>

Complete(r) == Done(r) /\ Leave(r, "completed")
Fail(r)     == Due(r) /\ Leave(r, "failed")

\* Whoever works on r is killed, or cannot save its outcome.
Abandon(r)  == r \in handled /\ Leave(r, state[r])

Next ==
  \E r \in Requests :
    \/ Queue(r) \/ Claim(r) \/ Act(r) \/ ActUnheard(r) \/ CompleteUnheard(r)
    \/ Complete(r) \/ Fail(r) \/ Abandon(r) \/ Replay(r)

Spec == Init /\ [][Next]_vars
================================================================================
