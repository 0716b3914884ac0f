------------------------- MODULE GenerationService --------------------------
(***************************************************************************)
(* What the engine promises to the loop that feeds it, with the scheduler, *)
(* the blocks, preemption, the prefix cache and the draft model hidden: a  *)
(* request is accepted with a cap on its tokens, a step hands it a short   *)
(* run of tokens (one without a draft model), a stop adds none, the step   *)
(* that reaches the cap is the last that does anything for the request,    *)
(* and it ends exactly once, by stop, length, abort or error.  A run that  *)
(* reaches the cap is delivered whole, beyond the cap too.                 *)
(***************************************************************************)
EXTENDS Naturals, SequencesExt

CONSTANTS Ids,          \* the requests
          Tokens,       \* what the model can generate
          Caps,         \* the generation caps a request may carry
          MaxStepTokens \* tokens a step generates for a request at most: 1, with
                        \* a draft model SPEC_DRAFT_K + 1

ASSUME ServiceAssumption == MaxStepTokens \in Nat \ {0}

VARIABLES outcome,    \* id -> "new", "pending", or how the request ended
          output,     \* id -> the tokens delivered so far
          cap         \* id -> its cap while it is pending, 0 otherwise

serviceVars == <<outcome, output, cap>>

-----------------------------------------------------------------------------

ServiceInit ==
    /\ outcome = [id \in Ids |-> "new"]
    /\ output = [id \in Ids |-> <<>>]
    /\ cap = [id \in Ids |-> 0]

Pending == {id \in Ids : outcome[id] = "pending"}

Accept(id, max) ==
    /\ outcome[id] = "new"
    /\ outcome' = [outcome EXCEPT ![id] = "pending"]
    /\ cap' = [cap EXCEPT ![id] = max]
    /\ UNCHANGED output

\* What one step says about one request: the tokens generated for it, and
\* whether a stop followed them, which takes the place of a token.
Replies ==
    {r \in [tokens : SeqOf(Tokens, MaxStepTokens), stopped : BOOLEAN] :
        r.stopped => Len(r.tokens) < MaxStepTokens}
Silent == [tokens |-> <<>>, stopped |-> FALSE]

GrownOutput(id, reply) == output[id] \o reply.tokens

\* A stop that follows the token that reached the cap is the reason that counts.
NewOutcome(id, reply) ==
    IF reply.stopped THEN "stop"
    ELSE IF reply.tokens # <<>> /\ Len(output[id]) + Len(reply.tokens) >= cap[id] THEN "length"
    ELSE outcome[id]

\* Only a request that ended gives up its cap.
CapsAfter == [id \in Ids |-> IF outcome'[id] = "pending" THEN cap[id] ELSE 0]

StepDelivers ==
    \E reply \in [Ids -> Replies] :
        /\ \A id \in Ids \ Pending : reply[id] = Silent
        /\ output' = [id \in Ids |-> GrownOutput(id, reply[id])]
        /\ outcome' = [id \in Ids |-> NewOutcome(id, reply[id])]
        /\ cap' = CapsAfter

Abort(id) ==
    /\ id \in Pending
    /\ outcome' = [outcome EXCEPT ![id] = "aborted"]
    /\ cap' = CapsAfter
    /\ UNCHANGED output

StepErrs ==
    \E failed \in SUBSET Pending :
        /\ outcome' = [id \in Ids |-> IF id \in failed THEN "error" ELSE outcome[id]]
        /\ cap' = CapsAfter
        /\ UNCHANGED output

ServiceNext ==
    \/ \E id \in Ids, max \in Caps : Accept(id, max)
    \/ \E id \in Ids : Abort(id)
    \/ StepDelivers
    \/ StepErrs

ServiceSpec == ServiceInit /\ [][ServiceNext]_serviceVars

=============================================================================
