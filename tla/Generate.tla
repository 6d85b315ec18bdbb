------------------------------- MODULE Generate -------------------------------
(***************************************************************************)
(* ModelRunner.generate: calls that each prefill a prompt and decode until *)
(* a stop token or max_tokens, over one runner.  Calls interleave between  *)
(* the runner's methods (a sampler is a callback and may start another     *)
(* call).  A call's uuid is the call itself: every call is made once.      *)
(*                                                                         *)
(* Logits are named by the token sequence they are for, Garbage if the     *)
(* pass read a slot that did not hold what it should.                      *)
(*                                                                         *)
(* There is no try/finally in generate: a call that raises after its       *)
(* prefill leaves its request active and its prompt locked.  The owner     *)
(* evicts between calls, when none is running.                             *)
(***************************************************************************)
EXTENDS ModelRunner

CONSTANTS
    Budgets,        \* max_tokens
    StopSets,       \* stop_tokens
    Samples(_)      \* the tokens the sampler may choose after a context

ASSUME BudgetsAssumption ==
    Budgets \subseteq Nat /\ \A p \in Prompts, n \in Budgets : Len(p) + n <= MaxLen

\* A sampler returns token ids.
ASSUME SamplesAssumption ==
    \A k \in 1 .. MaxLen : \A s \in [1 .. k -> Token] : Samples(s) \subseteq Token

VARIABLE calls      \* the arguments and local variables of each call

gvars == <<vars, calls>>

Unborn == [status |-> "new", prompt_tokens |-> <<>>, max_tokens |-> 0,
           stop_tokens |-> {}, generated |-> <<>>, logits |-> Garbage]

GInit == Init /\ calls = [c \in Request |-> Unborn]

Running == {c \in Request : calls[c].status = "running"}

\* logits[0, -1, :]: those of the last token of the pass.
LastLogits(c) == kv[Last(requests[c].all_slot_indices)]

Begin(c, prompt, n, stop) ==
    /\ calls[c].status = "new"
    /\ ForwardPrefill(c, prompt)
    /\ calls' = [calls EXCEPT ![c] =
            [status |-> "running", prompt_tokens |-> prompt, max_tokens |-> n,
             stop_tokens |-> stop, generated |-> <<>>, logits |-> LastLogits(c)']]

BeginRaises(c, prompt) ==
    /\ calls[c].status = "new"
    /\ PrefillRaises(c, prompt) \/ PrefillFails(c, prompt)
    /\ calls' = [calls EXCEPT ![c].status = "raised"]

\* The tokens sampler(result.logits) may return.
Sampled(c) == IF calls[c].logits = Garbage THEN Token ELSE Samples(calls[c].logits)

Stopped(c) ==
    /\ calls[c].generated # <<>>
    /\ Last(calls[c].generated) \in calls[c].stop_tokens

\* The loop is left by break or after max_tokens rounds.
Over(c) == Stopped(c) \/ Len(calls[c].generated) >= calls[c].max_tokens

\* One round of the loop; a stop token is not decoded.
Iterate(c) ==
    /\ c \in Running /\ ~Over(c)
    /\ \E token \in Sampled(c) :
        IF token \in calls[c].stop_tokens
        THEN /\ calls' = [calls EXCEPT ![c].generated = Append(@, token)]
             /\ UNCHANGED vars
        ELSE /\ ForwardDecode(c, token)
             /\ calls' = [calls EXCEPT ![c].generated = Append(@, token),
                                       ![c].logits = LastLogits(c)']

IterateRaises_Retries(c) ==     \* except MemoryError: continue
    /\ c \in Running /\ ~Over(c)
    /\ ~(Sampled(c) \subseteq calls[c].stop_tokens)
    /\ DecodeRaises(c) \/ DecodeFails(c)
    /\ UNCHANGED calls
IterateRaises(c) ==
    /\ c \in Running /\ ~Over(c)
    /\ ~(Sampled(c) \subseteq calls[c].stop_tokens)
    /\ DecodeRaises(c) \/ DecodeFails(c)
    /\ calls' = [calls EXCEPT ![c].status = "raised"]

Return_KeepsLock(c) ==      \* finish_request only after a stop token
    /\ c \in Running /\ Over(c)
    /\ IF Stopped(c) THEN FinishRequest(c) ELSE UNCHANGED vars
    /\ calls' = [calls EXCEPT ![c].status = "returned"]
Return(c) ==
    /\ c \in Running /\ Over(c)
    /\ FinishRequest(c)
    /\ calls' = [calls EXCEPT ![c].status = "returned"]

OwnerEvicts(n) ==
    /\ Running = {}
    /\ Evict(n)
    /\ UNCHANGED calls

Step(c) == Iterate(c) \/ IterateRaises(c) \/ Return(c)

GNext ==
    \/ \E c \in Request, prompt \in Prompts :
          \/ \E n \in Budgets, stop \in StopSets : Begin(c, prompt, n, stop)
          \/ BeginRaises(c, prompt)
    \/ \E c \in Request : Step(c)
    \/ \E n \in EvictSizes : OwnerEvicts(n)

\* A call that was begun goes on running: it waits for nobody.
Fairness == \A c \in Request : WF_gvars(Step(c))

GSpec == GInit /\ [][GNext]_gvars /\ Fairness

-----------------------------------------------------------------------------
\* A call that raised after its prefill; its request stays active for ever.
Abandoned == {c \in Request : calls[c].status = "raised" /\ calls[c].prompt_tokens # <<>>}

\* Whatever is shared, evicted between calls, leaked or left behind by calls
\* that raised, each call's text is one the sampler could have chosen with the
\* whole prompt recomputed for it: caching is invisible.
Promise == INSTANCE Completion WITH
    text <- [c \in Request |-> [status |-> calls[c].status,
                                prompt_tokens |-> calls[c].prompt_tokens,
                                max_tokens |-> calls[c].max_tokens,
                                stop_tokens |-> calls[c].stop_tokens,
                                generated |-> calls[c].generated]]
RefinesCompletion == Promise!Spec

\* Every call that was begun returns or raises.
EveryCallEnds == \A c \in Request : c \in Running ~> c \notin Running

\* Once no call is running, what no eviction can reclaim is exactly the
\* prompts of the calls that raised: a call that returns leaves nothing locked.
OnlyAbandonedStay ==
    Running = {} =>
        PinnedEntries(cached, Pins)
            = UNION {PrefixesOf(calls[c].prompt_tokens) : c \in Abandoned}

\* free checks nothing, and only evictions call it: what they give back, in
\* whatever order, has not been given back already, and is not the slot of a
\* call that runs.  For each slot of the cache is in one of its entries only,
\* on the free list there is none of the cache and none that a call decodes
\* with.
SlotsFreedOnce ==
    /\ \A p, q \in DOMAIN cached : cached[p] = cached[q] => p = q
    /\ free \intersect CacheSlots = {}
    /\ \A c \in Running : free \intersect UsedBy(c) = {}

\* A slot drops out of both the free list and the cache in two ways only: a
\* pass fails after the allocation, or a decode computes, into one new slot, a
\* continuation that is cached already (see NoSlotLeak).
SlotsLostKnownWays ==
    [][LET lost == (free \union CacheSlots) \ (free' \union CacheSlots')
       IN  lost # {} =>
            \/ \E c \in Request : calls[c].status # "raised" /\ calls'[c].status = "raised"
            \/ /\ Cardinality(lost) = 1
               /\ \E c \in Active \intersect Active' :
                    /\ requests'[c] # requests[c]
                    /\ Tokens(requests'[c]) \in DOMAIN cached]_gvars

\* When a call returns, its prompt and its text, but for a stop token, can be
\* matched whole: a follow-up that repeats them recomputes only what is new.
AnswerIsCached ==
    [][\A c \in Request :
        calls[c].status = "running" /\ calls'[c].status = "returned" =>
            LET text == calls[c].generated
                decoded == IF Stopped(c) THEN Front(text) ELSE text
            IN  PrefixesOf(calls[c].prompt_tokens \o decoded) \subseteq DOMAIN cached']_gvars
=============================================================================
