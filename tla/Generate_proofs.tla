--------------------------- MODULE Generate_proofs ---------------------------
(***************************************************************************)
(* What generate promises, for any number of calls, any prompts, budgets   *)
(* and stop tokens, any sampler, any pool, passes that fail and evictions  *)
(* between the calls: caching is invisible in the text of every call.      *)
(***************************************************************************)
EXTENDS Generate, ModelRunner_proofs, FiniteSetTheorems

\* The tokens a running call has decoded: its text but for a stop token.
Decoded(c) == IF Stopped(c) THEN Front(calls[c].generated) ELSE calls[c].generated

CallState ==
    [status: {"new", "running", "returned", "raised"},
     prompt_tokens: Seq(Token), max_tokens: Nat,
     stop_tokens: StopSets \union {{}}, generated: Seq(Token), logits: Seq(Token)]

\* A running call's request: no eviction has touched it, it is where the call
\* is, all of it is cached, and the logits at hand are those of its tokens.
InStep(c) ==
    /\ calls[c].prompt_tokens \in Prompts /\ calls[c].max_tokens \in Budgets
    /\ Intact(c)
    /\ requests[c].output_tokens = Decoded(c)
    /\ calls[c].logits = Tokens(requests[c])
    /\ PrefixesOf(Tokens(requests[c])) \subseteq DOMAIN cached

CallOK(c) ==
    /\ calls[c].status = "new" => calls[c].prompt_tokens = <<>>
    /\ c \in Active <=> c \in Running \union Abandoned
    /\ c \in Active => requests[c].prompt_tokens = calls[c].prompt_tokens
    /\ c \in Running => InStep(c)

\* The invariant.  Between them CacheInv and LockInv describe the runner; the
\* requests of abandoned calls may have lost slots to an eviction, so that
\* only those of running calls are intact.
GInv ==
    /\ CacheInv /\ LockInv
    /\ calls \in [Request -> CallState]
    /\ \A c \in Request : CallOK(c)

-----------------------------------------------------------------------------
\* Which requests an operation of the runner adds, changes and drops.
LEMMA PrefillFrame ==
    ASSUME NEW r, NEW prompt, ForwardPrefill(r, prompt)
    PROVE  /\ r \notin Active /\ Active' = Active \union {r}
           /\ \A q \in Active : requests'[q] = requests[q]
BY DEF ForwardPrefill, Active

LEMMA DecodeFrame ==
    ASSUME LockInv, NEW r, NEW token_id, ForwardDecode(r, token_id)
    PROVE  /\ r \in Active /\ Active' = Active
           /\ \A q \in Active : q # r => requests'[q] = requests[q]
BY DEF ForwardDecode, Active, LockInv

LEMMA FinishFrame ==
    ASSUME NEW r, FinishRequest(r)
    PROVE  /\ r \in Active /\ Active' = Active \ {r}
           /\ \A q \in Active' : requests'[q] = requests[q]
           /\ UNCHANGED <<free, cached, kv>>
BY DEF FinishRequest, Restrict, Active

\* The last slot of an intact request holds what its next logits are for.
LEMMA IntactLogits ==
    \A q : CacheInv /\ Intact(q) /\ Tokens(requests[q]) # <<>>
                => LastLogits(q) = Tokens(requests[q])
<1> SUFFICES ASSUME NEW q, CacheInv, Intact(q), Tokens(requests[q]) # <<>>
             PROVE  LastLogits(q) = Tokens(requests[q])
    OBVIOUS
<1> DEFINE tokens == Tokens(requests[q])
           slots == requests[q].all_slot_indices
<1>1. /\ requests[q] \in RequestState
      /\ Len(slots) = Len(tokens) /\ ContextIntact(slots, tokens, Len(tokens))
    BY DEF CacheInv, TypeOK, Intact
<1>2. tokens \in Seq(Token)
    BY <1>1, PromptsAssumption, ConcatProperties DEF RequestState, Tokens
<1> HIDE DEF tokens, slots
<1>3. tokens # <<>>
    BY DEF tokens
<1>4. Len(tokens) \in Nat \ {0}
    BY <1>2, <1>3, EmptySeq
<1>5. kv[slots[Len(slots)]] = Take(tokens, Len(tokens))
    BY <1>1, <1>4 DEF ContextIntact
<1>6. Take(tokens, Len(tokens)) = tokens
    BY <1>2, SubSeqFull DEF Take
<1> QED BY <1>5, <1>6 DEF LastLogits, Last, slots, tokens

\* The tokens of an active request are its prompt's and more.
LEMMA TokensOfRequest ==
    ASSUME CacheInv, NEW q \in Active
    PROVE  /\ Tokens(requests[q]) \in Seq(Token) /\ Tokens(requests[q]) # <<>>
           /\ requests[q].prompt_tokens \in Seq(Token)
           /\ requests[q].output_tokens \in Seq(Token)
<1> DEFINE prompt == requests[q].prompt_tokens
           output == requests[q].output_tokens
<1>1. prompt \in Seq(Token) /\ prompt # <<>> /\ output \in Seq(Token)
    BY PromptsAssumption DEF CacheInv, TypeOK, RequestState
<1>2. Tokens(requests[q]) = prompt \o output
    BY DEF Tokens
<1> HIDE DEF prompt, output
<1>3. Len(prompt) \in Nat \ {0} /\ Len(output) \in Nat
    BY <1>1, EmptySeq, LenProperties
<1>4. prompt \o output \in Seq(Token) /\ Len(prompt \o output) = Len(prompt) + Len(output)
    BY <1>1, ConcatProperties
<1>5. prompt \o output # <<>>
    BY <1>3, <1>4, EmptySeq
<1> QED BY <1>1, <1>2, <1>4, <1>5 DEF prompt, output

\* Append and its last token and front.
LEMMA LastOfAppend ==
    ASSUME NEW S, NEW s \in Seq(S), NEW e \in S
    PROVE  /\ Append(s, e) \in Seq(S) /\ Append(s, e) # <<>>
           /\ Len(Append(s, e)) = Len(s) + 1
           /\ Last(Append(s, e)) = e /\ Front(Append(s, e)) = s
<1> DEFINE t == Append(s, e)
           L == Len(s)
<1>1. /\ t \in Seq(S) /\ Len(t) = L + 1 /\ t[L + 1] = e
      /\ \A i \in 1 .. L : t[i] = s[i]
    BY AppendProperties
<1>2. L \in Nat
    BY LenProperties
<1> HIDE DEF t
<1>3. t # <<>>
    BY <1>1, <1>2, EmptySeq
<1>4. Front(t) = Take(t, L)
    BY <1>1, <1>2 DEF Front, Take
<1>5. /\ Take(t, L) \in Seq(S) /\ Len(Take(t, L)) = L
      /\ \A i \in 1 .. L : Take(t, L)[i] = t[i]
    <2>1. L \in 0 .. Len(t)
        BY <1>1, <1>2
    <2> HIDE DEF L
    <2> QED BY <1>1, <2>1, TakeProperties
<1>6. Take(t, L) = s
    BY <1>1, <1>2, <1>5, SeqEqual
<1> QED BY <1>1, <1>2, <1>3, <1>4, <1>6 DEF t, Last

-----------------------------------------------------------------------------
\* What a call needs to stay as it is: its own variables, its request, its
\* slots while it runs, and the cache.
LEMMA KeptCall ==
    ASSUME NEW d \in Request, CallOK(d), calls'[d] = calls[d],
           d \in Active' <=> d \in Active,
           d \in Active => requests'[d] = requests[d],
           d \in Running => Intact(d)' /\ DOMAIN cached \subseteq DOMAIN cached'
    PROVE  CallOK(d)'
<1>1. /\ d \in Running' <=> d \in Running
      /\ d \in Abandoned' <=> d \in Abandoned
      /\ Decoded(d)' = Decoded(d)
    BY DEF Running, Abandoned, Decoded, Stopped
<1>2. d \in Running => InStep(d)'
    <2> SUFFICES ASSUME d \in Running PROVE InStep(d)'
        OBVIOUS
    <2>1. InStep(d) /\ d \in Active
        BY DEF CallOK
    <2> QED BY <1>1, <2>1 DEF InStep
<1> QED BY <1>1, <1>2 DEF CallOK

LEMMA InitGInv == GInit => GInv
<1> SUFFICES ASSUME GInit PROVE GInv
    OBVIOUS
<1>1. CacheInv /\ LockInv /\ Active = {}
    BY InitCacheInv, InitLockInv DEF GInit
<1>2. calls = [c \in Request |-> Unborn]
    BY DEF GInit
<1>3. Unborn \in CallState
    BY EmptySeq DEF Unborn, CallState, Garbage
<1>4. \A c \in Request : CallOK(c)
    BY <1>1, <1>2 DEF CallOK, Unborn, Running, Abandoned
<1> QED BY <1>1, <1>2, <1>3, <1>4 DEF GInv

\* The prefill of a call that begins.
LEMMA BeginStep ==
    ASSUME GInv, NEW c \in Request, NEW prompt \in Prompts, NEW n \in Budgets,
           NEW stop \in StopSets, Begin(c, prompt, n, stop)
    PROVE  GInv'
<1>1. ForwardPrefill(c, prompt) /\ CacheInv /\ LockInv
    BY DEF Begin, GInv
<1>2. /\ CacheInv' /\ Intact(c)' /\ \A q : Intact(q) => Intact(q)'
      /\ requests'[c].prompt_tokens = prompt /\ requests'[c].output_tokens = <<>>
      /\ PrefixesOf(prompt) \subseteq DOMAIN cached'
      /\ DOMAIN cached \subseteq DOMAIN cached'
    BY <1>1, PrefillStep
<1>3. LockInv'
    BY <1>1, PrefillLock
<1>4. /\ c \notin Active /\ Active' = Active \union {c}
      /\ \A q \in Active : requests'[q] = requests[q]
    BY <1>1, PrefillFrame
<1>5. prompt \in Seq(Token) /\ prompt # <<>> /\ n \in Nat
    BY PromptsAssumption, BudgetsAssumption
<1>6. Tokens(requests'[c]) = prompt
    BY <1>2, <1>5, ConcatEmptySeq DEF Tokens
<1>7. LastLogits(c)' = prompt
    <2>1. (\A q : CacheInv /\ Intact(q) /\ Tokens(requests[q]) # <<>>
                => LastLogits(q) = Tokens(requests[q]))'
        BY IntactLogits, PTL
    <2> QED BY <1>2, <1>5, <1>6, <2>1
<1> DEFINE new == [status |-> "running", prompt_tokens |-> prompt, max_tokens |-> n,
                   stop_tokens |-> stop, generated |-> <<>>, logits |-> prompt]
<1>8. calls' = [calls EXCEPT ![c] = new] /\ calls \in [Request -> CallState]
    BY <1>7 DEF Begin, GInv
<1>9. new \in CallState
    BY <1>5, EmptySeq DEF CallState
<1>10. /\ new.status = "running" /\ new.prompt_tokens = prompt /\ new.max_tokens = n
       /\ new.generated = <<>> /\ new.logits = prompt
    OBVIOUS
<1> HIDE DEF new
<1>11. calls'[c] = new /\ \A d \in Request \ {c} : calls'[d] = calls[d]
    BY <1>8
<1>12. calls' \in [Request -> CallState]
    BY <1>8, <1>9
<1>13. CallOK(c)'
    <2>1. Decoded(c)' = <<>>
        BY <1>10, <1>11 DEF Decoded, Stopped
    <2>2. InStep(c)'
        BY <1>2, <1>6, <1>10, <1>11, <2>1 DEF InStep
    <2>3. c \in Running' /\ c \in Active'
        BY <1>4, <1>10, <1>11 DEF Running
    <2> QED BY <1>2, <1>10, <1>11, <2>2, <2>3 DEF CallOK
<1>14. ASSUME NEW d \in Request, d # c PROVE CallOK(d)'
    <2>1. CallOK(d) /\ calls'[d] = calls[d]
        BY <1>11, <1>14 DEF GInv
    <2>2. d \in Running => Intact(d)'
        BY <1>2, <2>1 DEF CallOK, InStep
    <2> QED BY <1>2, <1>4, <1>14, <2>1, <2>2, KeptCall
<1> QED BY <1>2, <1>3, <1>12, <1>13, <1>14 DEF GInv

\* A call with its text and its logits replaced.
Updated(call, text, logits) == [call EXCEPT !.generated = text, !.logits = logits]

LEMMA UpdatedCall ==
    ASSUME NEW call \in CallState, NEW text \in Seq(Token), NEW logits \in Seq(Token)
    PROVE  LET new == Updated(call, text, logits)
           IN  /\ new \in CallState
               /\ new.status = call.status /\ new.prompt_tokens = call.prompt_tokens
               /\ new.max_tokens = call.max_tokens /\ new.stop_tokens = call.stop_tokens
               /\ new.generated = text /\ new.logits = logits
BY DEF CallState, Updated

\* A round of a running call samples from the logits of the whole of its
\* prompt and its text, and gets tokens.
LEMMA RoundSamples ==
    ASSUME GInv, NEW c \in Request, c \in Running, ~Over(c)
    PROVE  /\ c \in Active /\ Intact(c)
           /\ requests[c].prompt_tokens = calls[c].prompt_tokens
           /\ requests[c].output_tokens = calls[c].generated
           /\ calls[c].generated \in Seq(Token)
           /\ Sampled(c) = Samples(calls[c].prompt_tokens \o calls[c].generated)
           /\ Sampled(c) \subseteq Token
<1> DEFINE prompt == calls[c].prompt_tokens
           generated == calls[c].generated
<1>1. InStep(c) /\ CacheInv /\ c \in Active
      /\ requests[c].prompt_tokens = prompt
    BY DEF GInv, CallOK
<1>2. ~Stopped(c) /\ ~(Len(generated) >= calls[c].max_tokens)
    BY DEF Over
<1>3. requests[c].output_tokens = generated /\ calls[c].logits = Tokens(requests[c])
    BY <1>1, <1>2 DEF InStep, Decoded
<1>4. calls[c].logits = prompt \o generated /\ prompt \o generated # <<>>
    BY <1>1, <1>3, TokensOfRequest DEF Tokens
<1>5. generated \in Seq(Token) /\ prompt \in Seq(Token) /\ prompt # <<>>
    BY <1>1, <1>3, TokensOfRequest, PromptsAssumption DEF InStep
<1>6. prompt \in Prompts /\ calls[c].max_tokens \in Budgets
    BY <1>1 DEF InStep
<1>7. Sampled(c) = Samples(prompt \o generated)
    BY <1>4 DEF Sampled, Garbage
<1>8. Len(prompt) + calls[c].max_tokens <= MaxLen /\ calls[c].max_tokens \in Nat
    BY <1>6, BudgetsAssumption
<1> DEFINE n == calls[c].max_tokens
           context == prompt \o generated
           L == Len(prompt)
           M == Len(generated)
<1> HIDE DEF prompt, generated, n
<1>9. context \in Seq(Token) /\ Len(context) = L + M
    BY <1>5, ConcatProperties
<1>10. L \in Nat \ {0} /\ M \in Nat
    BY <1>5, EmptySeq, LenProperties
<1> HIDE DEF context
<1>11. Len(context) \in 1 .. MaxLen
    <2>1. ~(M >= n) /\ L + n <= MaxLen /\ n \in Nat
        BY <1>2, <1>8 DEF n
    <2> HIDE DEF L, M
    <2>2. L + M \in 1 .. MaxLen
        BY <1>10, <2>1, MaxLenAssumption
    <2> QED BY <1>9, <2>2 DEF L, M
<1>12. context \in [1 .. Len(context) -> Token]
    BY <1>9, LenProperties
<1>13. Samples(context) \subseteq Token
    BY <1>11, <1>12, SamplesAssumption
<1>14. Sampled(c) \subseteq Token
    BY <1>7, <1>13 DEF context
<1>15. Intact(c)
    BY <1>1 DEF InStep
<1> QED BY <1>1, <1>3, <1>5, <1>7, <1>14, <1>15 DEF prompt, generated

\* A round that samples a stop token.
LEMMA StopStep ==
    ASSUME GInv, NEW c \in Request, c \in Running, ~Over(c),
           NEW token \in Sampled(c), token \in calls[c].stop_tokens,
           calls' = [calls EXCEPT ![c].generated = Append(@, token)],
           UNCHANGED vars
    PROVE  GInv'
<1>1. /\ Intact(c) /\ calls[c].generated \in Seq(Token) /\ token \in Token
      /\ requests[c].output_tokens = calls[c].generated
    BY RoundSamples
<1>2. CacheInv' /\ LockInv' /\ \A q : Intact(q) => Intact(q)'
    BY NothingChangedStep, NextLockInv DEF GInv
<1>3. UNCHANGED <<free, cached, kv, requests>> /\ Active' = Active
    BY DEF vars, Active
<1> DEFINE new == [calls[c] EXCEPT !.generated = Append(@, token)]
<1>4. calls' = [calls EXCEPT ![c] = new] /\ calls \in [Request -> CallState]
    BY DEF GInv
<1>5. Append(calls[c].generated, token) \in Seq(Token)
    BY <1>1, LastOfAppend
<1>6. /\ new \in CallState
      /\ new.status = calls[c].status /\ new.prompt_tokens = calls[c].prompt_tokens
      /\ new.max_tokens = calls[c].max_tokens /\ new.logits = calls[c].logits
      /\ new.stop_tokens = calls[c].stop_tokens
      /\ new.generated = Append(calls[c].generated, token)
    BY <1>4, <1>5 DEF CallState
<1> HIDE DEF new
<1>7. /\ calls'[c] = new /\ \A d \in Request \ {c} : calls'[d] = calls[d]
      /\ calls' \in [Request -> CallState]
    BY <1>4, <1>6
<1>8. CallOK(c)'
    <2>1. Decoded(c)' = calls[c].generated
        BY <1>1, <1>6, <1>7, LastOfAppend DEF Decoded, Stopped
    <2>2. CallOK(c) /\ InStep(c)
        BY DEF GInv, CallOK
    <2>3. Intact(c)'
        BY <1>1, <1>2
    <2>4. InStep(c)'
        BY <1>1, <1>3, <1>6, <1>7, <2>1, <2>2, <2>3 DEF InStep
    <2>5. c \in Running' /\ (c \in Abandoned' <=> c \in Abandoned)
        BY <1>6, <1>7 DEF Running, Abandoned
    <2>6. new.status # "new"
        BY <1>6 DEF Running
    <2> QED BY <1>3, <1>6, <1>7, <2>2, <2>4, <2>5, <2>6 DEF CallOK
<1>9. ASSUME NEW d \in Request, d # c PROVE CallOK(d)'
    <2>1. CallOK(d) /\ calls'[d] = calls[d]
        BY <1>7, <1>9 DEF GInv
    <2>2. d \in Running => Intact(d)'
        BY <1>2, <2>1 DEF CallOK, InStep
    <2> QED BY <1>3, <2>1, <2>2, KeptCall
<1> QED BY <1>2, <1>7, <1>8, <1>9 DEF GInv

\* A round that decodes.
LEMMA DecodeRound ==
    ASSUME GInv, NEW c \in Request, c \in Running, ~Over(c),
           NEW token \in Sampled(c), token \notin calls[c].stop_tokens,
           calls' = [calls EXCEPT ![c].generated = Append(@, token),
                                  ![c].logits = LastLogits(c)'],
           ForwardDecode(c, token)
    PROVE  GInv'
<1>1. /\ c \in Active /\ Intact(c) /\ calls[c].generated \in Seq(Token)
      /\ token \in Token
      /\ requests[c].output_tokens = calls[c].generated
    BY RoundSamples
<1>2. /\ CacheInv' /\ \A q : Intact(q) => Intact(q)'
      /\ requests'[c].prompt_tokens = requests[c].prompt_tokens
      /\ requests'[c].output_tokens = Append(requests[c].output_tokens, token)
      /\ PrefixesOf(Append(Tokens(requests[c]), token)) \subseteq DOMAIN cached'
      /\ DOMAIN cached \subseteq DOMAIN cached'
    BY <1>1, DecodeStep DEF GInv
<1>3. LockInv'
    BY <1>1, DecodeLock DEF GInv
<1>4. Active' = Active /\ \A q \in Active : q # c => requests'[q] = requests[q]
    BY DecodeFrame DEF GInv
<1>5. Tokens(requests'[c]) = Append(Tokens(requests[c]), token)
    <2>1. requests[c].prompt_tokens \in Seq(Token) /\ requests[c].output_tokens \in Seq(Token)
        BY <1>1, TokensOfRequest DEF GInv
    <2> DEFINE prompt == requests[c].prompt_tokens
               output == requests[c].output_tokens
    <2>2. Append(prompt \o output, token) = prompt \o Append(output, token)
        BY <1>1, <2>1, ConcatAppend
    <2>3. Tokens(requests'[c]) = prompt \o Append(output, token)
        BY <1>2 DEF Tokens
    <2> QED BY <2>2, <2>3 DEF Tokens
<1>6. LastLogits(c)' = Tokens(requests'[c]) /\ Tokens(requests'[c]) \in Seq(Token)
    <2>1. (\A q : CacheInv /\ Intact(q) /\ Tokens(requests[q]) # <<>>
                => LastLogits(q) = Tokens(requests[q]))'
        BY IntactLogits, PTL
    <2>2. Tokens(requests[c]) \in Seq(Token)
        BY <1>1, TokensOfRequest DEF GInv
    <2>3. Tokens(requests'[c]) # <<>> /\ Tokens(requests'[c]) \in Seq(Token)
        BY <1>1, <1>5, <2>2, LastOfAppend
    <2> QED BY <1>1, <1>2, <2>1, <2>3
<1> DEFINE text == Append(calls[c].generated, token)
           logits == Tokens(requests'[c])
           new == Updated(calls[c], text, logits)
<1>7. calls' = [calls EXCEPT ![c] = new] /\ calls \in [Request -> CallState]
    BY <1>6 DEF GInv, Updated
<1>8. text \in Seq(Token) /\ logits \in Seq(Token)
    BY <1>1, <1>6, LastOfAppend
<1> HIDE DEF text, logits
<1>9. /\ new \in CallState
      /\ new.status = calls[c].status /\ new.prompt_tokens = calls[c].prompt_tokens
      /\ new.max_tokens = calls[c].max_tokens /\ new.logits = logits
      /\ new.stop_tokens = calls[c].stop_tokens
      /\ new.generated = text
    <2>1. calls[c] \in CallState
        BY <1>7
    <2> QED BY <1>8, <2>1, UpdatedCall
<1> HIDE DEF new
<1>10. /\ calls'[c] = new /\ \A d \in Request \ {c} : calls'[d] = calls[d]
       /\ calls' \in [Request -> CallState]
    BY <1>7, <1>9
<1>11. CallOK(c)'
    <2>1. Decoded(c)' = Append(calls[c].generated, token)
        BY <1>1, <1>9, <1>10, LastOfAppend DEF Decoded, Stopped, text
    <2>2. CallOK(c) /\ InStep(c)
        BY DEF GInv, CallOK
    <2>3. Intact(c)'
        BY <1>1, <1>2
    <2>4. InStep(c)'
        BY <1>1, <1>2, <1>5, <1>9, <1>10, <2>1, <2>2, <2>3 DEF InStep, logits
    <2>5. c \in Running' /\ (c \in Abandoned' <=> c \in Abandoned)
        BY <1>9, <1>10 DEF Running, Abandoned
    <2>6. new.status # "new"
        BY <1>9 DEF Running
    <2> QED BY <1>1, <1>2, <1>4, <1>9, <1>10, <2>2, <2>4, <2>5, <2>6 DEF CallOK
<1>12. ASSUME NEW d \in Request, d # c PROVE CallOK(d)'
    <2>1. CallOK(d) /\ calls'[d] = calls[d]
        BY <1>10, <1>12 DEF GInv
    <2>2. d \in Running => Intact(d)'
        BY <1>2, <2>1 DEF CallOK, InStep
    <2> QED BY <1>2, <1>4, <1>12, <2>1, <2>2, KeptCall
<1> QED BY <1>2, <1>3, <1>10, <1>11, <1>12 DEF GInv

\* A call whose status changes and nothing else of it.
LEMMA StatusChanged ==
    ASSUME GInv, NEW c \in Request, NEW status \in {"returned", "raised"},
           calls' = [calls EXCEPT ![c].status = status]
    PROVE  /\ calls' \in [Request -> CallState]
           /\ \A d \in Request \ {c} : calls'[d] = calls[d]
           /\ calls'[c].status = status
           /\ calls'[c].prompt_tokens = calls[c].prompt_tokens
<1> DEFINE new == [calls[c] EXCEPT !.status = status]
<1>1. calls' = [calls EXCEPT ![c] = new] /\ calls \in [Request -> CallState]
    BY DEF GInv
<1>2. new \in CallState /\ new.status = status /\ new.prompt_tokens = calls[c].prompt_tokens
    BY <1>1 DEF CallState
<1> HIDE DEF new
<1> QED BY <1>1, <1>2

\* A call that raises, before or after its prefill: the runner may have lost
\* slots, and the call's request, if it has one, stays.
LEMMA RaiseStep ==
    ASSUME GInv, NEW c \in Request, calls[c].status \in {"new", "running"},
           calls' = [calls EXCEPT ![c].status = "raised"],
           UNCHANGED <<cached, requests>>,
           CacheInv', LockInv', \A q : Intact(q) => Intact(q)'
    PROVE  GInv'
<1>1. /\ calls' \in [Request -> CallState]
      /\ \A d \in Request \ {c} : calls'[d] = calls[d]
      /\ calls'[c].status = "raised"
      /\ calls'[c].prompt_tokens = calls[c].prompt_tokens
    BY StatusChanged
<1>2. Active' = Active
    BY DEF Active
<1>3. CallOK(c)'
    <2>1. CallOK(c) /\ c \notin Running'
        BY <1>1 DEF GInv, Running
    <2>2. c \in Abandoned' <=> calls[c].prompt_tokens # <<>>
        BY <1>1 DEF Abandoned
    <2>3. c \in Active <=> calls[c].prompt_tokens # <<>>
        <3>1. CASE calls[c].status = "new"
            BY <2>1, <3>1 DEF CallOK, Running, Abandoned
        <3>2. CASE calls[c].status = "running"
            <4>1. c \in Running
                BY <3>2 DEF Running
            <4> QED BY <2>1, <4>1, PromptsAssumption DEF CallOK, InStep
        <3> QED BY <3>1, <3>2
    <2> QED BY <1>1, <1>2, <2>1, <2>2, <2>3 DEF CallOK
<1>4. ASSUME NEW d \in Request, d # c PROVE CallOK(d)'
    <2>1. CallOK(d) /\ calls'[d] = calls[d]
        BY <1>1, <1>4 DEF GInv
    <2>2. d \in Running => Intact(d)'
        BY <2>1 DEF CallOK, InStep
    <2> QED BY <1>2, <2>1, <2>2, KeptCall
<1> QED BY <1>1, <1>3, <1>4 DEF GInv

LEMMA BeginRaisesStep ==
    ASSUME GInv, NEW c \in Request, NEW prompt \in Prompts, BeginRaises(c, prompt)
    PROVE  GInv'
<1>1. CacheInv /\ LockInv /\ calls[c].status = "new"
      /\ calls' = [calls EXCEPT ![c].status = "raised"]
    BY DEF GInv, BeginRaises
<1>2. CASE PrefillRaises(c, prompt)
    <2>1. UNCHANGED vars
        BY <1>2 DEF PrefillRaises
    <2> QED BY <1>1, <2>1, NothingChangedStep, NextLockInv, RaiseStep DEF vars
<1>3. CASE PrefillFails(c, prompt)
    <2>1. CacheInv' /\ \A q : Intact(q) => Intact(q)'
        BY <1>1, <1>3, PrefillFailsStep
    <2>2. free' \subseteq free /\ UNCHANGED <<cached, requests>>
        BY <1>3 DEF PrefillFails
    <2> QED BY <1>1, <2>1, <2>2, NothingRecorded, RaiseStep
<1> QED BY <1>2, <1>3 DEF BeginRaises

LEMMA IterateRaisesStep ==
    ASSUME GInv, NEW c \in Request, IterateRaises(c)
    PROVE  GInv'
<1>1. CacheInv /\ LockInv /\ calls[c].status = "running"
      /\ calls' = [calls EXCEPT ![c].status = "raised"]
    BY DEF GInv, IterateRaises, Running
<1>2. CASE DecodeRaises(c)
    <2>1. UNCHANGED vars
        BY <1>2 DEF DecodeRaises
    <2> QED BY <1>1, <2>1, NothingChangedStep, NextLockInv, RaiseStep DEF vars
<1>3. CASE DecodeFails(c)
    <2>1. CacheInv' /\ \A q : Intact(q) => Intact(q)'
        BY <1>1, <1>3, DecodeFailsStep
    <2>2. free' \subseteq free /\ UNCHANGED <<cached, requests>>
        BY <1>3 DEF DecodeFails
    <2> QED BY <1>1, <2>1, <2>2, NothingRecorded, RaiseStep
<1> QED BY <1>2, <1>3 DEF IterateRaises

LEMMA ReturnStep ==
    ASSUME GInv, NEW c \in Request, Return(c)
    PROVE  GInv'
<1>1. /\ CacheInv /\ LockInv /\ FinishRequest(c)
      /\ calls' = [calls EXCEPT ![c].status = "returned"]
    BY DEF GInv, Return
<1>2. /\ Active' = Active \ {c} /\ UNCHANGED <<free, cached, kv>>
      /\ \A q \in Active' : requests'[q] = requests[q]
    BY <1>1, FinishFrame
<1>3. /\ CacheInv' /\ LockInv'
      /\ \A q : q # c /\ Intact(q) => Intact(q)'
    BY <1>1, FinishRequestStep, FinishLock
<1>4. /\ calls' \in [Request -> CallState]
      /\ \A d \in Request \ {c} : calls'[d] = calls[d]
      /\ calls'[c].status = "returned"
    BY <1>1, StatusChanged
<1>5. CallOK(c)'
    BY <1>2, <1>4 DEF CallOK, Running, Abandoned
<1>6. ASSUME NEW d \in Request, d # c PROVE CallOK(d)'
    <2>1. CallOK(d) /\ calls'[d] = calls[d]
        BY <1>4, <1>6 DEF GInv
    <2>2. d \in Running => Intact(d)'
        BY <1>3, <1>6, <2>1 DEF CallOK, InStep
    <2> QED BY <1>2, <1>6, <2>1, <2>2, KeptCall
<1> QED BY <1>3, <1>4, <1>5, <1>6 DEF GInv

\* The owner evicts when no call runs; the requests of abandoned calls lose
\* what their prompts' locks do not hold.
LEMMA OwnerEvictsStep ==
    ASSUME GInv, NEW n \in EvictSizes, OwnerEvicts(n)
    PROVE  GInv'
<1>1. CacheInv /\ LockInv /\ Evict(n) /\ Running = {} /\ UNCHANGED <<calls, requests>>
    BY DEF GInv, OwnerEvicts, Evict
<1>2. CacheInv' /\ LockInv'
    BY <1>1, EvictStep, EvictLock
<1>3. ASSUME NEW d \in Request PROVE CallOK(d)'
    <2>1. CallOK(d) /\ d \notin Running
        BY <1>1 DEF GInv
    <2> QED BY <1>1, <2>1, KeptCall DEF Active
<1> QED BY <1>1, <1>2, <1>3 DEF GInv

LEMMA NextGInv == GInv /\ [GNext]_gvars => GInv'
<1> SUFFICES ASSUME GInv, [GNext]_gvars PROVE GInv'
    OBVIOUS
<1>1. ASSUME NEW c \in Request, NEW prompt \in Prompts, NEW n \in Budgets,
             NEW stop \in StopSets, Begin(c, prompt, n, stop)
      PROVE  GInv'
    BY <1>1, BeginStep
<1>2. ASSUME NEW c \in Request, NEW prompt \in Prompts, BeginRaises(c, prompt)
      PROVE  GInv'
    BY <1>2, BeginRaisesStep
<1>3. ASSUME NEW c \in Request, Iterate(c) PROVE GInv'
    <2>1. PICK token \in Sampled(c) :
            IF token \in calls[c].stop_tokens
            THEN /\ calls' = [calls EXCEPT ![c].generated = Append(@, token)]
                 /\ UNCHANGED vars
            ELSE /\ ForwardDecode(c, token)
                 /\ calls' = [calls EXCEPT ![c].generated = Append(@, token),
                                           ![c].logits = LastLogits(c)']
        BY <1>3 DEF Iterate
    <2>2. c \in Running /\ ~Over(c)
        BY <1>3 DEF Iterate
    <2>3. CASE token \in calls[c].stop_tokens
        BY <2>1, <2>2, <2>3, StopStep
    <2>4. CASE token \notin calls[c].stop_tokens
        BY <2>1, <2>2, <2>4, DecodeRound
    <2> QED BY <2>3, <2>4
<1>4. ASSUME NEW c \in Request, IterateRaises(c) PROVE GInv'
    BY <1>4, IterateRaisesStep
<1>5. ASSUME NEW c \in Request, Return(c) PROVE GInv'
    BY <1>5, ReturnStep
<1>6. ASSUME NEW n \in EvictSizes, OwnerEvicts(n) PROVE GInv'
    BY <1>6, OwnerEvictsStep
<1>7. CASE UNCHANGED gvars
    <2>1. UNCHANGED vars /\ UNCHANGED calls
        BY <1>7 DEF gvars
    <2>2. CacheInv' /\ LockInv' /\ \A q : Intact(q) => Intact(q)'
        BY <2>1, NothingChangedStep, NextLockInv DEF GInv
    <2>3. ASSUME NEW d \in Request PROVE CallOK(d)'
        <3>1. CallOK(d) /\ (d \in Running => Intact(d)')
            BY <2>2 DEF GInv, CallOK, InStep
        <3> QED BY <2>1, <3>1, KeptCall DEF vars, Active
    <2> QED BY <2>1, <2>2, <2>3 DEF GInv
<1> QED BY <1>1, <1>2, <1>3, <1>4, <1>5, <1>6, <1>7 DEF GNext, Step

LEMMA GInvariance == GSpec => []GInv
BY InitGInv, NextGInv, PTL DEF GSpec

-----------------------------------------------------------------------------
\* The types of the runner's state, under any mix of calls and evictions.
THEOREM CallsKeepTypes == GSpec => []TypeOK
<1>1. GInv => TypeOK
    BY DEF GInv, CacheInv
<1> QED BY <1>1, GInvariance, PTL

\* Whatever is evicted between calls and however calls end, a prefix that
\* forward_prefill matches leads to the KV data of exactly that prefix.
THEOREM CallsShareARightCache == GSpec => []CacheCoherent
<1>1. GInv => CacheCoherent
    BY DEF GInv, CacheInv
<1> QED BY <1>1, GInvariance, PTL

\* Nor does an eviction between calls, after whatever calls that shared slots,
\* returned or raised, give the allocator a slot twice, or one that is in use.
THEOREM NoSlotIsFreedTwice == GSpec => []SlotsFreedOnce
<1>1. GInv => SlotsFreedOnce
    <2> SUFFICES ASSUME GInv PROVE SlotsFreedOnce
        OBVIOUS
    <2>1. \A p \in DOMAIN cached : kv[cached[p]] = p
        BY DEF GInv, CacheInv, CacheCoherent
    <2>2. free \intersect CacheSlots = {}
        BY DEF GInv, CacheInv
    <2>3. ASSUME NEW c \in Running PROVE free \intersect UsedBy(c) = {}
        BY DEF GInv, CallOK, InStep, Intact, Running
    <2> QED BY <2>1, <2>2, <2>3 DEF SlotsFreedOnce
<1> QED BY <1>1, GInvariance, PTL

\* The prompt of every call that runs, and of every call that raised after
\* its prefill, stays cached at the slots of its request.
THEOREM CallsKeepPromptsCached == GSpec => []PromptStaysCached
<1>1. GInv => PromptStaysCached
    BY DEF GInv, LockInv, PromptCached, PromptStaysCached
<1> QED BY <1>1, GInvariance, PTL

\* A call that returns leaves nothing locked: with no call running, exactly
\* the prompts of the calls that raised cannot be evicted.
THEOREM OnlyRaisedCallsHoldLocks == GSpec => []OnlyAbandonedStay
<1>1. GInv => OnlyAbandonedStay
    <2> SUFFICES ASSUME GInv, Running = {}
                 PROVE  PinnedEntries(cached, Pins)
                          = UNION {PrefixesOf(calls[c].prompt_tokens) : c \in Abandoned}
        BY DEF OnlyAbandonedStay
    <2>1. /\ Active \subseteq Request
          /\ DOMAIN cached \subseteq Seq(Token) \ {<<>>}
        BY DEF GInv, CacheInv, TypeOK
    <2>2. Active = Abandoned
        BY <2>1 DEF GInv, CallOK, Abandoned
    <2>3. ASSUME NEW c \in Active
          PROVE  /\ requests[c].radix_node = calls[c].prompt_tokens
                 /\ calls[c].prompt_tokens \in Seq(Token)
                 /\ PrefixesOf(calls[c].prompt_tokens) \subseteq DOMAIN cached
        <3>1. /\ requests[c].radix_node = requests[c].prompt_tokens
              /\ PromptCached(cached, requests[c])
            BY DEF GInv, LockInv, RequestOK
        <3>2. requests[c].prompt_tokens = calls[c].prompt_tokens
            BY <2>1 DEF GInv, CallOK
        <3>3. requests[c].prompt_tokens \in Seq(Token)
            BY TokensOfRequest DEF GInv
        <3> QED BY <3>1, <3>2, <3>3 DEF PromptCached, PrefixesOf
    <2>4. Pins = {calls[c].prompt_tokens : c \in Abandoned}
        BY <2>2, <2>3 DEF Pins
    <2>5. ASSUME NEW p \in DOMAIN cached, NEW c \in Abandoned
          PROVE  IsPrefix(p, calls[c].prompt_tokens) <=> p \in PrefixesOf(calls[c].prompt_tokens)
        BY <2>1, <2>2, <2>3, PrefixesOfIsPrefix
    <2> QED BY <2>2, <2>3, <2>4, <2>5 DEF PinnedEntries
<1> QED BY <1>1, GInvariance, PTL

AnswerStep ==
    \A c \in Request :
        calls[c].status = "running" /\ calls'[c].status = "returned" =>
            LET text == calls[c].generated
                decoded == IF Stopped(c) THEN Front(text) ELSE text
            IN  PrefixesOf(calls[c].prompt_tokens \o decoded) \subseteq DOMAIN cached'

\* When generate returns, the prompt and the text can be matched whole.
THEOREM AnswersStayCached == GSpec => AnswerIsCached
<1>1. GInv /\ [GNext]_gvars => [AnswerStep]_gvars
    <2> SUFFICES ASSUME GInv, GNext, NEW c \in Request,
                        calls[c].status = "running", calls'[c].status = "returned"
                 PROVE  PrefixesOf(calls[c].prompt_tokens \o Decoded(c)) \subseteq DOMAIN cached'
        BY DEF AnswerStep, Decoded
    <2>1. InStep(c) /\ requests[c].prompt_tokens = calls[c].prompt_tokens
        BY DEF GInv, CallOK, InStep, Intact, Running
    <2>2. PrefixesOf(calls[c].prompt_tokens \o Decoded(c)) \subseteq DOMAIN cached
        BY <2>1 DEF InStep, Tokens
    <2>3. calls \in [Request -> CallState] /\ calls' # calls
        BY DEF GInv
    <2>4. \A d \in Request, prompt \in Prompts : ~BeginRaises(d, prompt)
        BY <2>3 DEF BeginRaises, CallState
    <2>5. \A d \in Request, prompt \in Prompts, n \in Budgets, stop \in StopSets :
                ~Begin(d, prompt, n, stop)
        BY <2>3 DEF Begin, CallState
    <2>6. ASSUME NEW d \in Request PROVE ~Iterate(d) /\ ~IterateRaises(d)
        <3>1. ~IterateRaises(d)
            BY <2>3 DEF IterateRaises, CallState
        <3>2. ASSUME NEW token, NEW logits,
                     \/ calls' = [calls EXCEPT ![d].generated = Append(@, token)]
                     \/ calls' = [calls EXCEPT ![d].generated = Append(@, token),
                                               ![d].logits = logits]
              PROVE  calls'[c].status = calls[c].status
            BY <2>3, <3>2 DEF CallState
        <3>3. ~Iterate(d)
            BY <3>2 DEF Iterate
        <3> QED BY <3>1, <3>3
    <2>7. \A n \in EvictSizes : ~OwnerEvicts(n)
        BY <2>3 DEF OwnerEvicts
    <2>8. PICK d \in Request : Return(d)
        BY <2>4, <2>5, <2>6, <2>7 DEF GNext, Step
    <2>9. UNCHANGED cached
        BY <2>8 DEF Return, FinishRequest
    <2> QED BY <2>2, <2>9
<1> QED BY <1>1, GInvariance, PTL DEF GSpec, AnswerIsCached, AnswerStep

-----------------------------------------------------------------------------
\* What a prefill allocates it caches: every new slot belongs to a prefix of
\* the prompt that was not cached.
LEMMA PrefillLosesNothing ==
    ASSUME CacheInv, LockInv, NEW r \in Request, NEW prompt \in Prompts,
           ForwardPrefill(r, prompt)
    PROVE  free \union CacheSlots \subseteq free' \union CacheSlots'
<1>1. PICK slots \in PrefillSlots(prompt) :
        free' = free \ ToSet(slots) /\ cached' = Inserted(cached, prompt, slots)
    BY DEF ForwardPrefill
<1>2. /\ slots \in Seq(Slot) /\ Len(slots) = Len(prompt)
      /\ \A n \in 1 .. Len(prompt) : cached'[Take(prompt, n)] = slots[n]
    BY <1>1, PrefillCaches
<1>3. \A p \in DOMAIN cached : p \in DOMAIN cached' /\ cached'[p] = cached[p]
    BY <1>1 DEF Inserted
<1>4. CacheSlots \subseteq CacheSlots'
    BY <1>3 DEF CacheSlots
<1>5. \A n \in 1 .. Len(prompt) : Take(prompt, n) \in DOMAIN cached'
    BY <1>1 DEF Inserted, PrefixesOf
<1>6. ToSet(slots) \subseteq CacheSlots'
    <2>1. DOMAIN slots = 1 .. Len(prompt)
        BY <1>2, LenProperties
    <2> QED BY <1>2, <1>5, <2>1 DEF ToSet, CacheSlots
<1> QED BY <1>1, <1>4, <1>6

\* What a decode allocates it caches, unless the tokens were cached already.
LEMMA DecodeLosesDuplicates ==
    ASSUME CacheInv, NEW r \in Request, NEW token_id \in Token, r \in Active,
           ForwardDecode(r, token_id)
    PROVE  LET lost == (free \union CacheSlots) \ (free' \union CacheSlots')
           IN  lost # {} => /\ Cardinality(lost) = 1
                            /\ Append(Tokens(requests[r]), token_id) \in DOMAIN cached
<1> DEFINE all_tokens == Append(Tokens(requests[r]), token_id)
           old_slots == requests[r].all_slot_indices
           lost == (free \union CacheSlots) \ (free' \union CacheSlots')
<1>1. PICK new_slot \in free :
        /\ free' = free \ {new_slot}
        /\ cached' = Inserted(cached, all_tokens, Append(old_slots, new_slot))
    BY DEF ForwardDecode
<1>2. CacheSlots \subseteq CacheSlots'
    <2>1. \A p \in DOMAIN cached : p \in DOMAIN cached' /\ cached'[p] = cached[p]
        BY <1>1 DEF Inserted
    <2> QED BY <2>1 DEF CacheSlots
<1>3. lost \subseteq {new_slot}
    BY <1>1, <1>2
<1>4. ASSUME all_tokens \notin DOMAIN cached PROVE new_slot \in CacheSlots'
    <2>1. Tokens(requests[r]) \in Seq(Token) /\ Len(old_slots) = Len(Tokens(requests[r]))
          /\ old_slots \in Seq(Slot) /\ new_slot \in Slot
        BY TokensOfRequest DEF CacheInv, TypeOK, RequestState
    <2>2. /\ all_tokens \in Seq(Token) /\ all_tokens # <<>>
          /\ Len(all_tokens) = Len(old_slots) + 1
        BY <2>1, LastOfAppend
    <2>3. Append(old_slots, new_slot)[Len(old_slots) + 1] = new_slot
        BY <2>1, AppendProperties
    <2> HIDE DEF all_tokens, old_slots
    <2>4. all_tokens \in PrefixesOf(all_tokens)
        BY <2>2, KeyIsPrefixOfItself
    <2>5. all_tokens \in DOMAIN cached' /\ cached'[all_tokens] = new_slot
        BY <1>1, <1>4, <2>2, <2>3, <2>4 DEF Inserted
    <2> QED BY <2>5 DEF CacheSlots
<1>5. ASSUME lost # {} PROVE lost = {new_slot} /\ all_tokens \in DOMAIN cached
    BY <1>3, <1>4, <1>5
<1>6. Cardinality({new_slot}) = 1
    BY FS_Singleton
<1> HIDE DEF lost
<1> QED BY <1>5, <1>6 DEF lost

LossStep ==
    LET lost == (free \union CacheSlots) \ (free' \union CacheSlots')
    IN  lost # {} =>
            \/ \E c \in Request : calls[c].status # "raised" /\ calls'[c].status = "raised"
            \/ /\ Cardinality(lost) = 1
               /\ \E c \in Active \intersect Active' :
                    /\ requests'[c] # requests[c]
                    /\ Tokens(requests'[c]) \in DOMAIN cached

\* Slots get lost in the two known ways only: a pass that fails, or a decode
\* that computes what is cached already; never by an eviction, a prefill, a
\* return, or more than one at a time by a decode.
THEOREM SlotsAreLostInKnownWays == GSpec => SlotsLostKnownWays
<1>1. GInv /\ [GNext]_gvars => [LossStep]_gvars
    <2> SUFFICES ASSUME GInv, GNext PROVE LossStep
        OBVIOUS
    <2>1. CacheInv /\ LockInv /\ calls \in [Request -> CallState]
        BY DEF GInv
    <2>2. ASSUME free \union CacheSlots \subseteq free' \union CacheSlots' PROVE LossStep
        BY <2>2 DEF LossStep
    <2>3. ASSUME NEW c \in Request, calls[c].status # "raised",
                 calls' = [calls EXCEPT ![c].status = "raised"]
          PROVE  LossStep
        <3>1. calls'[c].status = "raised"
            BY <2>3, StatusChanged
        <3> QED BY <2>3, <3>1 DEF LossStep
    <2>4. ASSUME NEW c \in Request, NEW prompt \in Prompts, NEW n \in Budgets,
                 NEW stop \in StopSets, Begin(c, prompt, n, stop)
          PROVE  LossStep
        BY <2>1, <2>2, <2>4, PrefillLosesNothing DEF Begin
    <2>5. ASSUME NEW c \in Request, NEW prompt \in Prompts, BeginRaises(c, prompt)
          PROVE  LossStep
        BY <2>3, <2>5 DEF BeginRaises
    <2>6. ASSUME NEW c \in Request, IterateRaises(c) PROVE LossStep
        BY <2>3, <2>6 DEF IterateRaises, Running
    <2>7. ASSUME UNCHANGED <<free, cached>> PROVE LossStep
        BY <2>2, <2>7 DEF CacheSlots
    <2>8. ASSUME NEW c \in Request, Return(c) PROVE LossStep
        BY <2>7, <2>8 DEF Return, FinishRequest
    <2>9. ASSUME NEW n \in EvictSizes, OwnerEvicts(n) PROVE LossStep
        <3>1. PICK V \in EvictionSets(cached, Pins, n) :
                /\ cached' = Evicted(cached, V)
                /\ free' = free \union {cached[p] : p \in V}
            BY <2>9 DEF OwnerEvicts, Evict
        <3>2. \A p \in DOMAIN cached \ V : p \in DOMAIN cached' /\ cached'[p] = cached[p]
            BY <3>1 DEF Evicted, Restrict
        <3>3. CacheSlots \subseteq free' \union CacheSlots'
            BY <3>1, <3>2 DEF CacheSlots
        <3> QED BY <2>2, <3>1, <3>3
    <2>10. ASSUME NEW c \in Request, Iterate(c) PROVE LossStep
        <3>1. c \in Running /\ ~Over(c)
            BY <2>10 DEF Iterate
        <3>2. PICK token \in Sampled(c) : UNCHANGED vars \/ ForwardDecode(c, token)
            BY <2>10 DEF Iterate
        <3>3. CASE UNCHANGED vars
            BY <2>7, <3>3 DEF vars
        <3>4. CASE ForwardDecode(c, token)
            <4>1. c \in Active /\ token \in Token /\ Intact(c)
                BY <3>1, RoundSamples
            <4>2. /\ requests'[c].prompt_tokens = requests[c].prompt_tokens
                  /\ requests'[c].output_tokens = Append(requests[c].output_tokens, token)
                BY <2>1, <3>4, <4>1, DecodeStep
            <4>3. c \in Active'
                BY <2>1, <3>4, DecodeFrame
            <4>4. /\ requests[c].prompt_tokens \in Seq(Token)
                  /\ requests[c].output_tokens \in Seq(Token)
                BY <2>1, <4>1, TokensOfRequest
            <4>5. Tokens(requests'[c]) = Append(Tokens(requests[c]), token)
                BY <4>1, <4>2, <4>4, ConcatAppend DEF Tokens
            <4>6. requests'[c] # requests[c]
                <5>1. Append(requests[c].output_tokens, token) # requests[c].output_tokens
                    <6>1. Len(requests[c].output_tokens) \in Nat
                        BY <4>4, LenProperties
                    <6>2. Len(Append(requests[c].output_tokens, token))
                            = Len(requests[c].output_tokens) + 1
                        BY <4>1, <4>4, LastOfAppend
                    <6> QED BY <6>1, <6>2
                <5> QED BY <4>2, <5>1
            <4> QED BY <2>1, <3>4, <4>1, <4>3, <4>5, <4>6, DecodeLosesDuplicates
                    DEF LossStep
        <3> QED BY <3>2, <3>3, <3>4
    <2> QED BY <2>4, <2>5, <2>6, <2>8, <2>9, <2>10 DEF GNext, Step
<1> QED BY <1>1, GInvariance, PTL DEF GSpec, SlotsLostKnownWays, LossStep

-----------------------------------------------------------------------------
(* The calls implement Completion *)

\* What Completion sees of a call and of the calls.
TextOf(call) == [status |-> call.status, prompt_tokens |-> call.prompt_tokens,
                 max_tokens |-> call.max_tokens, stop_tokens |-> call.stop_tokens,
                 generated |-> call.generated]
TextMap == [c \in Request |-> [status |-> calls[c].status,
                               prompt_tokens |-> calls[c].prompt_tokens,
                               max_tokens |-> calls[c].max_tokens,
                               stop_tokens |-> calls[c].stop_tokens,
                               generated |-> calls[c].generated]]

\* A step of one call replaces that call's text.
LEMMA TextMapUpdate ==
    ASSUME NEW c \in Request, NEW new,
           calls \in [Request -> CallState], calls' = [calls EXCEPT ![c] = new]
    PROVE  /\ TextMap[c] = TextOf(calls[c])
           /\ TextMap' = [TextMap EXCEPT ![c] = TextOf(new)]
<1>1. calls'[c] = new /\ \A d \in Request \ {c} : calls'[d] = calls[d]
    OBVIOUS
<1>2. TextMap[c] = TextOf(calls[c])
    BY DEF TextMap, TextOf
<1>3. ASSUME NEW d \in Request PROVE TextMap'[d] = [TextMap EXCEPT ![c] = TextOf(new)][d]
    <2>1. CASE d = c
        BY <1>1, <2>1 DEF TextMap, TextOf
    <2>2. CASE d # c
        BY <1>1, <2>2 DEF TextMap
    <2> QED BY <2>1, <2>2
<1>4. TextMap' = [d \in Request |-> [TextMap EXCEPT ![c] = TextOf(new)][d]]
    BY <1>3 DEF TextMap
<1> QED BY <1>2, <1>4 DEF TextMap

\* A text that grows.
LEMMA TextOfUpdated ==
    ASSUME NEW call \in CallState, NEW text, NEW logits
    PROVE  TextOf(Updated(call, text, logits)) = [TextOf(call) EXCEPT !.generated = text]
<1> DEFINE new == Updated(call, text, logits)
<1>1. /\ new.status = call.status /\ new.prompt_tokens = call.prompt_tokens
      /\ new.max_tokens = call.max_tokens /\ new.stop_tokens = call.stop_tokens
      /\ new.generated = text
    BY DEF CallState, Updated
<1> HIDE DEF new
<1>2. TextOf(new) = [TextOf(call) EXCEPT !.generated = text]
    BY <1>1 DEF TextOf
<1> QED BY <1>2 DEF new

LEMMA InitIsPromised == GInit => Promise!Init
BY DEF GInit, Unborn, Promise!Init, Promise!Unborn

LEMMA BeginIsPromised ==
    ASSUME GInv, NEW c \in Request, NEW prompt \in Prompts, NEW n \in Budgets,
           NEW stop \in StopSets, Begin(c, prompt, n, stop)
    PROVE  Promise!Next
<1> DEFINE new == [status |-> "running", prompt_tokens |-> prompt, max_tokens |-> n,
                   stop_tokens |-> stop, generated |-> <<>>, logits |-> LastLogits(c)']
<1>1. /\ calls \in [Request -> CallState] /\ calls' = [calls EXCEPT ![c] = new]
      /\ calls[c].status = "new"
    BY DEF GInv, Begin
<1>2. TextOf(new) = [status |-> "running", prompt_tokens |-> prompt, max_tokens |-> n,
                     stop_tokens |-> stop, generated |-> <<>>]
    BY DEF TextOf
<1> HIDE DEF new
<1>3. /\ TextMap[c] = TextOf(calls[c])
      /\ TextMap' = [TextMap EXCEPT ![c] = TextOf(new)]
    BY <1>1, TextMapUpdate
<1>4. TextMap[c].status = "new"
    BY <1>1, <1>3 DEF TextOf
<1>5. Promise!Begin(c, prompt, n, stop)
    BY <1>2, <1>3, <1>4 DEF Promise!Begin, TextMap
<1> QED BY <1>5 DEF Promise!Next

\* A token that a round appends is one the sampler may choose with the whole
\* prompt and text recomputed.
LEMMA IterateIsPromised ==
    ASSUME GInv, NEW c \in Request, Iterate(c)
    PROVE  Promise!Next
<1>1. c \in Running /\ ~Over(c) /\ calls \in [Request -> CallState]
    BY DEF GInv, Iterate
<1>2. PICK token \in Sampled(c) :
        \/ calls' = [calls EXCEPT ![c].generated = Append(@, token)]
        \/ calls' = [calls EXCEPT ![c].generated = Append(@, token),
                                  ![c].logits = LastLogits(c)']
    BY DEF Iterate
<1>3. token \in Samples(calls[c].prompt_tokens \o calls[c].generated)
    BY <1>1, RoundSamples
<1> DEFINE text == Append(calls[c].generated, token)
<1>4. PICK logits : calls' = [calls EXCEPT ![c] = Updated(calls[c], text, logits)]
    <2>1. CASE calls' = [calls EXCEPT ![c].generated = Append(@, token)]
        <3>1. calls[c] \in CallState
            BY <1>1
        <3>2. Updated(calls[c], text, calls[c].logits) = [calls[c] EXCEPT !.generated = text]
            BY <3>1 DEF CallState, Updated
        <3> QED BY <2>1, <3>2
    <2>2. CASE calls' = [calls EXCEPT ![c].generated = Append(@, token),
                                      ![c].logits = LastLogits(c)']
        BY <2>2 DEF Updated
    <2> QED BY <1>2, <2>1, <2>2
<1>5. TextOf(Updated(calls[c], text, logits)) = [TextOf(calls[c]) EXCEPT !.generated = text]
    <2>1. calls[c] \in CallState
        BY <1>1
    <2> QED BY <2>1, TextOfUpdated
<1>6. /\ TextMap[c] = TextOf(calls[c])
      /\ TextMap' = [TextMap EXCEPT ![c] = [TextOf(calls[c]) EXCEPT !.generated = text]]
    BY <1>1, <1>4, <1>5, TextMapUpdate
<1>7. /\ TextOf(calls[c]).status = "running"
      /\ TextOf(calls[c]).prompt_tokens = calls[c].prompt_tokens
      /\ TextOf(calls[c]).max_tokens = calls[c].max_tokens
      /\ TextOf(calls[c]).stop_tokens = calls[c].stop_tokens
      /\ TextOf(calls[c]).generated = calls[c].generated
    BY <1>1 DEF TextOf, Running
<1> HIDE DEF text
<1>8. ~Promise!Over(TextMap[c])
    BY <1>1, <1>6, <1>7 DEF Over, Stopped, Last, Promise!Over
<1>9. TextMap' = [TextMap EXCEPT ![c].generated = Append(@, token)]
    BY <1>6, <1>7 DEF text
<1>10. Promise!Extend(c)
    BY <1>3, <1>6, <1>7, <1>8, <1>9 DEF Promise!Extend, TextMap
<1> QED BY <1>10 DEF Promise!Next

\* A call that ends, by a return or an exception.
LEMMA EndIsPromised ==
    ASSUME GInv, NEW c \in Request, NEW status \in {"returned", "raised"},
           calls' = [calls EXCEPT ![c].status = status]
    PROVE  /\ TextMap[c] = TextOf(calls[c])
           /\ TextMap' = [TextMap EXCEPT ![c].status = status]
<1> DEFINE new == [calls[c] EXCEPT !.status = status]
<1>1. calls \in [Request -> CallState] /\ calls' = [calls EXCEPT ![c] = new]
    BY DEF GInv
<1>2. TextOf(new) = [TextOf(calls[c]) EXCEPT !.status = status]
    <2>1. calls[c] \in CallState
        BY <1>1
    <2> QED BY <2>1 DEF CallState, TextOf
<1> HIDE DEF new
<1>3. TextMap[c] = TextOf(calls[c]) /\ TextMap' = [TextMap EXCEPT ![c] = TextOf(new)]
    BY <1>1, TextMapUpdate
<1> QED BY <1>2, <1>3

LEMMA NextIsPromised == GInv /\ [GNext]_gvars => [Promise!Next]_TextMap
<1> SUFFICES ASSUME GInv, [GNext]_gvars PROVE [Promise!Next]_TextMap
    OBVIOUS
<1>1. ASSUME NEW c \in Request, calls[c].status \in {"new", "running"},
             calls' = [calls EXCEPT ![c].status = "raised"]
      PROVE  Promise!Next
    <2>1. /\ TextMap[c] = TextOf(calls[c])
          /\ TextMap' = [TextMap EXCEPT ![c].status = "raised"]
        BY <1>1, EndIsPromised
    <2>2. TextMap[c].status \in {"new", "running"}
        BY <1>1, <2>1 DEF TextOf
    <2>3. Promise!Raise(c)
        BY <2>1, <2>2 DEF Promise!Raise, TextMap
    <2> QED BY <2>3 DEF Promise!Next
<1>2. ASSUME NEW c \in Request, Return(c) PROVE Promise!Next
    <2>1. /\ TextMap[c] = TextOf(calls[c])
          /\ TextMap' = [TextMap EXCEPT ![c].status = "returned"]
        BY <1>2, EndIsPromised DEF Return
    <2>2. TextMap[c].status = "running" /\ Promise!Over(TextMap[c])
        BY <1>2, <2>1 DEF Return, Running, TextOf, Over, Stopped, Last, Promise!Over
    <2>3. Promise!Return(c)
        BY <2>1, <2>2 DEF Promise!Return, TextMap
    <2> QED BY <2>3 DEF Promise!Next
<1>3. ASSUME UNCHANGED calls PROVE UNCHANGED TextMap
    BY <1>3 DEF TextMap
<1>4. ASSUME NEW c \in Request, NEW prompt \in Prompts, BeginRaises(c, prompt)
      PROVE  Promise!Next
    BY <1>1, <1>4 DEF BeginRaises
<1>5. ASSUME NEW c \in Request, IterateRaises(c) PROVE Promise!Next
    BY <1>1, <1>5 DEF IterateRaises, Running
<1>6. ASSUME NEW n \in EvictSizes, OwnerEvicts(n) PROVE UNCHANGED TextMap
    BY <1>3, <1>6 DEF OwnerEvicts
<1>7. CASE UNCHANGED gvars
    BY <1>3, <1>7 DEF gvars
<1> QED BY <1>2, <1>4, <1>5, <1>6, <1>7, BeginIsPromised, IterateIsPromised DEF GNext, Step

\* Caching is invisible: whatever is shared, evicted between calls, leaked or
\* left behind by calls that raised, the text of every call to generate is one
\* the sampler could have chosen token by token from a full recomputation.
THEOREM ImplementsCompletion == GSpec => RefinesCompletion
<1>1. Promise!Spec <=> Promise!Init /\ [][Promise!Next]_TextMap
    BY DEF Promise!Spec, TextMap
<1> QED BY <1>1, GInvariance, InitIsPromised, NextIsPromised, PTL
        DEF GSpec, RefinesCompletion
=============================================================================
