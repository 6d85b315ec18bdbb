------------------------------ MODULE Completion ------------------------------
(***************************************************************************)
(* What ModelRunner.generate promises, without slots, caches or passes: a  *)
(* call returns a text that the sampler chose token by token, each from    *)
(* the model's logits for the whole of the prompt and the text so far, and *)
(* that ends with its first stop token or at max_tokens; or it raises.     *)
(* Generate implements it.                                                 *)
(***************************************************************************)
EXTENDS Integers, Sequences

CONSTANTS
    Request,        \* the calls that are ever made
    Token,
    Prompts, Budgets, StopSets,     \* prompt_tokens, max_tokens, stop_tokens
    Samples(_)      \* the tokens the sampler may choose after a context

VARIABLE text       \* call -> its arguments and what it has generated

Unborn == [status |-> "new", prompt_tokens |-> <<>>, max_tokens |-> 0,
           stop_tokens |-> {}, generated |-> <<>>]

Init == text = [c \in Request |-> Unborn]

\* break, or the end of the range.
Over(t) ==
    \/ Len(t.generated) >= t.max_tokens
    \/ t.generated # <<>> /\ t.generated[Len(t.generated)] \in t.stop_tokens

Begin(c, prompt, n, stop) ==
    /\ text[c].status = "new"
    /\ text' = [text EXCEPT ![c] =
            [status |-> "running", prompt_tokens |-> prompt, max_tokens |-> n,
             stop_tokens |-> stop, generated |-> <<>>]]

Extend(c) ==
    /\ text[c].status = "running" /\ ~Over(text[c])
    /\ \E token \in Samples(text[c].prompt_tokens \o text[c].generated) :
          text' = [text EXCEPT ![c].generated = Append(@, token)]

Return(c) ==
    /\ text[c].status = "running" /\ Over(text[c])
    /\ text' = [text EXCEPT ![c].status = "returned"]

Raise(c) ==
    /\ text[c].status \in {"new", "running"}
    /\ text' = [text EXCEPT ![c].status = "raised"]

Next ==
    \E c \in Request :
        \/ \E prompt \in Prompts, n \in Budgets, stop \in StopSets :
              Begin(c, prompt, n, stop)
        \/ Extend(c) \/ Return(c) \/ Raise(c)

Spec == Init /\ [][Next]_text
=============================================================================
