---------------------------- MODULE HeldDelivery ----------------------------
(***************************************************************************)
(* What one request promises its sender, with no processes, locks or       *)
(* files: a message that is held leaves the hold at most once, a message   *)
(* that waits for a decision leaves it only by that decision, at most one  *)
(* prompt arrives, and it arrives only between the release and the close.  *)
(* RequestLifecycle is shown to implement this specification.              *)
(***************************************************************************)
EXTENDS Naturals

VARIABLES
    stage,      \* where the request stands
    pushed,     \* a user chose to push the held message
    prompts     \* prompts that have arrived at a recipient

promiseVars == <<stage, pushed, prompts>>

Stages == {"draft", "held", "awaiting", "released", "closed"}

Undelivered == {"draft", "held", "awaiting"}

PromiseTypeOK ==
    /\ stage \in Stages
    /\ pushed \in BOOLEAN
    /\ prompts \in Nat

Init == stage = "draft" /\ pushed = FALSE /\ prompts = 0

\* The recipient is focused: the message is kept back.
Hold ==
    /\ stage = "draft"
    /\ stage' = "held"
    /\ UNCHANGED <<pushed, prompts>>

\* The hold deadline passed: only a user may decide from here on.
Expire ==
    /\ stage = "held"
    /\ stage' = "awaiting"
    /\ UNCHANGED <<pushed, prompts>>

Push ==
    /\ stage \in {"held", "awaiting"}
    /\ pushed' = TRUE
    /\ UNCHANGED <<stage, prompts>>

\* Delivery is committed; out of "awaiting" only a push does it.
Release ==
    /\ \/ stage \in {"draft", "held"}
       \/ stage = "awaiting" /\ pushed
    /\ stage' = "released"
    /\ pushed' \in BOOLEAN
    /\ UNCHANGED prompts

\* Cancelled, rejected or unreachable: closed with nothing delivered.
Withdraw ==
    /\ stage \in Undelivered
    /\ stage' = "closed"
    /\ pushed' \in BOOLEAN
    /\ UNCHANGED prompts

\* The only step that delivers a prompt.
Arrive ==
    /\ stage = "released"
    /\ prompts = 0
    /\ prompts' = 1
    /\ UNCHANGED <<stage, pushed>>

\* The outcome is known; nothing is delivered any more.
Conclude ==
    /\ stage = "released"
    /\ stage' = "closed"
    /\ UNCHANGED <<pushed, prompts>>

Next ==
    \/ Hold \/ Expire \/ Push
    \/ Release \/ Withdraw
    \/ Arrive \/ Conclude

Spec == Init /\ [][Next]_promiseVars
=============================================================================
