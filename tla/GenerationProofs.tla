-------------------------- MODULE GenerationProofs --------------------------
(***************************************************************************)
(* The rate limiter keeps its promise for any number of searches, tokens   *)
(* and threads; the coroutines of a batch use it as it must be used, no    *)
(* search outlives the request it belongs to, no answer is left out, and   *)
(* every call of the engine keeps to its own budget: for any number of     *)
(* requests, turns and calls, and any limits.  In the second half, dynamic *)
(* sampling fills the batch and keeps its episodes together: for any       *)
(* number of prompts, episodes and tries, and any rewards.                 *)
(***************************************************************************)
EXTENDS ToolRollout, DynamicRollout, ProofLemmas

-----------------------------------------------------------------------------
(* The limiter alone.                                                      *)

Inv == BucketTypeOK /\ TokensAreConserved

\* The two sets of searches are finite, whatever their state.
LEMMA Finite ==
  ASSUME BucketTypeOK
  PROVE  /\ IsFiniteSet(Holding) /\ Cardinality(Holding) \in Nat
         /\ IsFiniteSet(Searching) /\ Cardinality(Searching) \in Nat
  <1>1. Holding \subseteq Calls /\ Searching \subseteq Calls
    BY DEF Holding, Searching
  <1>2. IsFiniteSet(Holding) /\ IsFiniteSet(Searching)
    BY <1>1, BucketAssumption, FS_Subset
  <1> QED  BY <1>2, FS_CardinalityType

\* The bucket begins full, no search holding a token.
LEMMA InitInv == BucketInit => Inv
  <1> SUFFICES ASSUME BucketInit PROVE Inv
    OBVIOUS
  <1>1. BucketTypeOK
    BY BucketAssumption DEF BucketInit, BucketTypeOK
  <1>2. Holding = {}
    BY DEF BucketInit, Holding
  <1>3. Cardinality(Holding) = 0
    BY <1>2, FS_EmptySet
  <1> QED  BY <1>1, <1>3, BucketAssumption
           DEF Inv, TokensAreConserved, BucketInit

\* A search that holds nothing before and after a step of its own leaves
\* the tokens held as they are.
LEMMA Bystander ==
  ASSUME BucketTypeOK, NEW c \in Calls, NEW s,
         call[c] \notin {"granted", "counting", "searching"},
         s \notin {"granted", "counting", "searching"},
         call' = [call EXCEPT ![c] = s]
  PROVE  Holding' = Holding
  BY DEF Holding, BucketTypeOK

\* Every step of the limiter and of its callers preserves the invariant.
LEMMA StepInv == Inv /\ [BucketNext]_bucket => Inv'
  <1> SUFFICES ASSUME Inv, [BucketNext]_bucket PROVE Inv'
    OBVIOUS
  <1> USE BucketAssumption
  <1>0. /\ BucketTypeOK /\ TokensAreConserved
        /\ IsFiniteSet(Holding) /\ Cardinality(Holding) \in Nat
    BY Finite DEF Inv
  <1>1. ASSUME NEW c \in Calls, BeginExecute(c) PROVE Inv'
    <2>1. BucketTypeOK'
      BY <1>0, <1>1 DEF BeginExecute, BucketTypeOK
    <2>2. Holding' = Holding
      BY <1>0, <1>1, Bystander DEF BeginExecute
    <2> QED  BY <1>0, <1>1, <2>1, <2>2 DEF BeginExecute, Inv, TokensAreConserved
  <1>2. ASSUME TakeToken PROVE Inv'
    <2> DEFINE c == Head(waiting)
    <2>1. c \in Calls
      BY <1>0, <1>2 DEF TakeToken, BucketTypeOK
    <2>2. Holding' = Holding \union {c} /\ c \notin Holding
      BY <1>0, <1>2, <2>1 DEF TakeToken, Holding, BucketTypeOK
    <2>3. Cardinality(Holding') = Cardinality(Holding) + 1
      BY <1>0, <2>2, FS_AddElement
    <2>4. BucketTypeOK'
      BY <1>0, <1>2, <2>1 DEF TakeToken, TokenFree, BucketTypeOK
    <2>5. TokensAreConserved'
      BY <1>0, <1>2, <2>3 DEF TakeToken, BucketTypeOK, TokensAreConserved
    <2> QED  BY <2>4, <2>5 DEF Inv
  <1>3. ASSUME ReadToCount \/ CountToken PROVE Inv'
    <2> DEFINE c == Head(waiting)
    <2>1. c \in Calls
      BY <1>0, <1>3 DEF ReadToCount, CountToken, BucketTypeOK
    <2>2. Holding' = Holding
      BY <1>0, <1>3, <2>1 DEF ReadToCount, CountToken, Holding, BucketTypeOK
    <2>3. BucketTypeOK'
      <3>1. CASE ReadToCount
        BY <1>0, <2>1, <3>1 DEF ReadToCount, BucketTypeOK
      <3>2. CASE CountToken
        BY <1>0, <2>1, <3>2 DEF CountToken, BucketTypeOK
      <3> QED  BY <1>3, <3>1, <3>2
    <2> QED  BY <1>0, <1>3, <2>2, <2>3
             DEF ReadToCount, CountToken, Inv, TokensAreConserved
  <1>4. ASSUME NEW c \in Calls, EndExecute(c) PROVE Inv'
    <2>1. PICK raised \in BOOLEAN :
            /\ call' = [call EXCEPT ![c] = IF raised THEN "none" ELSE "found"]
            /\ sent' = sent + 1
      BY <1>4 DEF EndExecute, Returned
    <2>2. Holding' = Holding \ {c} /\ c \in Holding
      BY <1>0, <1>4, <2>1 DEF EndExecute, Holding, BucketTypeOK
    <2>3. Cardinality(Holding') = Cardinality(Holding) - 1
      BY <1>0, <2>2, FS_RemoveElement
    <2>4. BucketTypeOK'
      BY <1>0, <1>4, <2>1 DEF EndExecute, BucketTypeOK
    <2>5. TokensAreConserved'
      BY <1>0, <1>4, <2>1, <2>3 DEF EndExecute, BucketTypeOK, TokensAreConserved
    <2> QED  BY <2>4, <2>5 DEF Inv
  <1>5. ASSUME NEW t \in ReleaseThreads, PutToken(t) PROVE Inv'
    <2>1. Holding' = Holding
      BY <1>5 DEF PutToken, Holding
    <2>2. free < RateLimit
      BY <1>0, <1>5 DEF PutToken, BucketTypeOK, TokensAreConserved
    <2>3. BucketTypeOK'
      BY <1>0, <1>5, <2>2 DEF PutToken, BucketTypeOK
    <2>4. TokensAreConserved'
      BY <1>0, <1>5, <2>1 DEF PutToken, BucketTypeOK, TokensAreConserved
    <2> QED  BY <2>3, <2>4 DEF Inv
  <1>6. ASSUME NEW t \in ReleaseThreads, ReadToUncount(t) \/ UncountToken(t)
        PROVE  Inv'
    <2>1. Holding' = Holding
      BY <1>6 DEF ReadToUncount, UncountToken, Holding
    <2>2. BucketTypeOK'
      <3>1. CASE ReadToUncount(t)
        BY <1>0, <3>1 DEF ReadToUncount, BucketTypeOK
      <3>2. CASE UncountToken(t)
        <4>1. seen[t] - 1 \in Int
          BY <1>0 DEF BucketTypeOK
        <4> QED  BY <1>0, <3>2, <4>1 DEF UncountToken, BucketTypeOK
      <3> QED  BY <1>6, <3>1, <3>2
    <2> QED  BY <1>0, <1>6, <2>1, <2>2
             DEF ReadToUncount, UncountToken, Inv, TokensAreConserved
  <1>7. ASSUME NEW cs \in SUBSET Calls, Submit(cs) \/ Take(cs) PROVE Inv'
    <2>1. PICK s \in {"queued", "idle"} :
            call' = [c \in Calls |-> IF c \in cs THEN s ELSE call[c]]
      BY <1>7 DEF Submit, Take, Queue, Collect
    <2>2. \A c \in cs : call[c] \notin {"granted", "counting", "searching"}
      BY <1>7 DEF Submit, Take, Answered
    <2>3. Holding' = Holding
      BY <2>1, <2>2 DEF Holding
    <2>4. BucketTypeOK'
      BY <1>0, <1>7, <2>1 DEF Submit, Take, BucketTypeOK
    <2> QED  BY <1>0, <1>7, <2>3, <2>4 DEF Submit, Take, Inv, TokensAreConserved
  <1>8. CASE UNCHANGED bucket
    <2>1. Holding' = Holding
      BY <1>8 DEF bucket, Holding
    <2> QED  BY <1>0, <1>8, <2>1
             DEF bucket, Inv, BucketTypeOK, TokensAreConserved
  <1> QED  BY <1>1, <1>2, <1>3, <1>4, <1>5, <1>6, <1>7, <1>8
           DEF BucketNext, Work

\* TokenBucketWorker: no token is lost or made, for any rate limit and any
\* number of threads, whether searches return or raise, and whatever becomes
\* of current_count.
THEOREM BucketBalances == BucketSpec => []TokensAreConserved
  <1>1. Inv => TokensAreConserved
    BY DEF Inv
  <1> QED  BY InitInv, StepInv, <1>1, PTL DEF BucketSpec

\* Never more than RateLimit searches run at once.
THEOREM BucketLimits == BucketSpec => [](Cardinality(Searching) <= RateLimit)
  <1>1. Inv => Cardinality(Searching) <= RateLimit
    <2> SUFFICES ASSUME Inv PROVE Cardinality(Searching) <= RateLimit
      OBVIOUS
    <2>1. IsFiniteSet(Holding) /\ Cardinality(Holding) \in Nat
      BY Finite DEF Inv
    <2>2. Searching \subseteq Holding
      BY DEF Searching, Holding
    <2>3. Cardinality(Searching) <= Cardinality(Holding)
      BY <2>1, <2>2, FS_Subset
    <2>4. Cardinality(Searching) \in Nat
      BY Finite DEF Inv
    <2> QED  BY <2>1, <2>3, <2>4, BucketAssumption
             DEF Inv, TokensAreConserved, BucketTypeOK
  <1> QED  BY InitInv, StepInv, <1>1, PTL DEF BucketSpec

-----------------------------------------------------------------------------
(* The coroutines and the limiter.                                         *)

\* The fields of a request that the control of its coroutine depends on.
Fields == {"state", "at", "calls"}
ReqOK == /\ DOMAIN req = Reqs
         /\ \A r \in Reqs : Fields \subseteq DOMAIN req[r]
         /\ instances \subseteq Reqs

\* A search is one of the calls that its request waits for.
Expected ==
  \A r \in Reqs, k \in 1 .. MaxCalls :
    call[<<r, k>>] # "idle" =>
      req[r].at = "tools" /\ req[r].state = "tool_calling" /\ k <= req[r].calls

\* A request has an instance from its first turn to its end.
HaveInstance ==
  \A r \in Reqs :
    /\ req[r].state \in {"running", "tool_calling"} => r \in instances
    /\ req[r].state = "completed" => r \notin instances
    /\ req[r].at = "tools" => req[r].state = "tool_calling"
    /\ req[r].at = "engine" => req[r].state = "running"

BetweenBatches ==
  mode = "idle" => instances = {} /\ \A r \in Reqs : req[r].at # "tools"

OwnInv == ReqOK /\ Expected /\ HaveInstance /\ BetweenBatches
IInv == Inv /\ OwnInv

LEMMA Pairs ==
  /\ \A c \in Calls : \E r \in Reqs, k \in 1 .. MaxCalls : c = <<r, k>>
  /\ \A r \in Reqs, k \in 1 .. MaxCalls : <<r, k>> \in Calls
  BY ToolRolloutAssumption

LEMMA InitIInv == Init => IInv
  <1> SUFFICES ASSUME Init PROVE IInv
    OBVIOUS
  <1>1. Inv
    BY InitInv DEF Init
  <1>2. OwnInv
    BY Pairs DEF Init, BucketInit, Fresh, OwnInv, ReqOK, Fields, Expected,
                 HaveInstance, BetweenBatches
  <1> QED  BY <1>1, <1>2 DEF IInv

\* The limiter's own steps begin no search.
LEMMA WorkBeginsNothing ==
  ASSUME BucketTypeOK, Work, NEW c \in Calls, call[c] = "idle"
  PROVE  call'[c] = "idle"
  <1>1. ASSUME NEW d \in Calls, BeginExecute(d) \/ EndExecute(d)
        PROVE  call'[c] = "idle"
    BY <1>1 DEF BeginExecute, EndExecute, BucketTypeOK
  <1>2. ASSUME TakeToken \/ ReadToCount \/ CountToken PROVE call'[c] = "idle"
    <2>1. Head(waiting) \in Calls
      BY <1>2 DEF TakeToken, ReadToCount, CountToken, BucketTypeOK
    <2> QED  BY <1>2, <2>1 DEF TakeToken, ReadToCount, CountToken, BucketTypeOK
  <1>3. ASSUME NEW t \in ReleaseThreads,
               PutToken(t) \/ ReadToUncount(t) \/ UncountToken(t)
        PROVE  call'[c] = "idle"
    BY <1>3 DEF PutToken, ReadToUncount, UncountToken
  <1> QED  BY <1>1, <1>2, <1>3 DEF Work

\* A coroutine that goes on has the answers to all its calls.
LEMMA AllHaveAnswered ==
  ASSUME IInv, NEW r \in Reqs, ToolAnswers(r), NEW k \in 1 .. MaxCalls
  PROVE  Answered(<<r, k>>)
  <1>1. CASE call[<<r, k>>] = "idle"
    BY <1>1 DEF Answered
  <1>2. CASE call[<<r, k>>] # "idle"
    <2>1. k \in 1 .. req[r].calls
      BY <1>2 DEF IInv, OwnInv, Expected
    <2> QED  BY <2>1 DEF ToolAnswers, AllAnswered
  <1> QED  BY <1>1, <1>2

\* Every step of the rollout is a step of the limiter or none.
LEMMA StepBucket == IInv /\ [Next]_vars => [BucketNext]_bucket
  <1> SUFFICES ASSUME IInv, [Next]_vars PROVE [BucketNext]_bucket
    OBVIOUS
  <1>1. ASSUME NEW r \in Reqs, CallTools(r) PROVE [BucketNext]_bucket
    <2>1. PICK valid \in SUBSET (1 .. req[r].calls) : Queue({r} \X valid)
      BY <1>1 DEF CallTools
    <2> DEFINE cs == {c \in Calls : c \in {r} \X valid}
    <2>2. Queue(cs)
      BY <2>1 DEF Queue
    <2>3. \A c \in cs : call[c] = "idle"
      <3> SUFFICES ASSUME NEW c \in cs PROVE call[c] = "idle"
        OBVIOUS
      <3>1. PICK s \in Reqs : \E k \in 1 .. MaxCalls : c = <<s, k>>
        BY Pairs
      <3>2. PICK k \in 1 .. MaxCalls : c = <<s, k>>
        BY <3>1
      <3>3. s = r
        BY <3>2
      <3> QED  BY <1>1, <3>2, <3>3 DEF CallTools, IInv, OwnInv, Expected
    <2>4. Submit(cs)
      BY <1>1, <2>2, <2>3 DEF CallTools, Submit
    <2> QED  BY <2>4 DEF BucketNext
  <1>2. ASSUME NEW r \in Reqs, ToolAnswers(r) PROVE [BucketNext]_bucket
    <2> DEFINE all == {r} \X (1 .. MaxCalls)
    <2>1. all \subseteq Calls
      BY ToolRolloutAssumption
    <2>2. \A c \in all : Answered(c)
      BY <1>2, AllHaveAnswered
    <2>3. Take(all)
      BY <1>2, <2>2 DEF ToolAnswers, Take
    <2> QED  BY <2>1, <2>3 DEF BucketNext
  <1>3. CASE UNCHANGED vars
    BY <1>3 DEF vars
  <1>4. CASE Limit
    BY <1>4 DEF Limit, BucketNext
  <1>5. CASE BeginBatch \/ EndBatch
    BY <1>5 DEF BeginBatch, EndBatch
  <1>6. ASSUME NEW r \in Reqs,
               \/ CreateTools(r) \/ FirstTurn(r) \/ EngineAnswer(r) \/ Finalize(r)
        PROVE  UNCHANGED bucket
    BY <1>6 DEF CreateTools, FirstTurn, EngineAnswer, Finalize
  <1> QED  BY <1>1, <1>2, <1>3, <1>4, <1>5, <1>6 DEF Next, Coroutine

\* Every step keeps the rollout's part of the invariant.
LEMMA StepOwn == IInv /\ [Next]_vars => OwnInv'
  <1> SUFFICES ASSUME IInv, [Next]_vars PROVE OwnInv'
    OBVIOUS
  <1>0. ReqOK /\ Expected /\ HaveInstance /\ BetweenBatches /\ BucketTypeOK
    BY DEF IInv, OwnInv, Inv
  <1>1. CASE UNCHANGED vars
    BY <1>0, <1>1 DEF vars, own, bucket, OwnInv, ReqOK, Expected, HaveInstance,
                      BetweenBatches
  <1>2. CASE BeginBatch
    BY <1>0, <1>2 DEF BeginBatch, Fresh, bucket, OwnInv, ReqOK, Fields,
                      Expected, HaveInstance, BetweenBatches
  <1>3. CASE EndBatch
    BY <1>0, <1>3 DEF EndBatch, bucket, OwnInv, ReqOK, Expected, HaveInstance,
                      BetweenBatches
  <1>4. CASE Limit
    <2>1. \A c \in Calls : call[c] = "idle" => call'[c] = "idle"
      BY <1>0, <1>4, WorkBeginsNothing DEF Limit
    <2> QED  BY <1>0, <1>4, <2>1, Pairs
             DEF Limit, own, OwnInv, ReqOK, Expected, HaveInstance, BetweenBatches
  <1>5. ASSUME NEW r \in Reqs, CreateTools(r) PROVE OwnInv'
    BY <1>0, <1>5 DEF CreateTools, Running, bucket, OwnInv, ReqOK, Fields,
                      Expected, HaveInstance, BetweenBatches
  <1>6. ASSUME NEW r \in Reqs, NEW tokens, NEW n, CallEngine(r, tokens, n),
               Running(r), r \in instances,
               \A k \in 1 .. MaxCalls : call'[<<r, k>>] = "idle",
               \A s \in Reqs, k \in 1 .. MaxCalls :
                 s # r => call'[<<s, k>>] = call[<<s, k>>]
        PROVE  OwnInv'
    BY <1>0, <1>6 DEF CallEngine, Running, OwnInv, ReqOK, Fields, Expected,
                      HaveInstance, BetweenBatches
  <1>7. ASSUME NEW r \in Reqs, NEW tokens, NEW n, EngineRejects(r, tokens, n),
               \A s \in Reqs, k \in 1 .. MaxCalls :
                 call'[<<s, k>>] # "idle" => call[<<s, k>>] # "idle"
        PROVE  OwnInv'
    BY <1>0, <1>7 DEF EngineRejects, OwnInv, ReqOK, Fields, Expected,
                      HaveInstance, BetweenBatches
  <1>8. ASSUME NEW r \in Reqs, FirstTurn(r) PROVE OwnInv'
    <2>1. r \in instances /\ \A k \in 1 .. MaxCalls : call[<<r, k>>] = "idle"
      BY <1>0, <1>8 DEF FirstTurn, HaveInstance, Expected
    <2>2. ASSUME NEW n, CallEngine(r, ids[r], n) PROVE OwnInv'
      BY <1>6, <1>8, <2>1, <2>2 DEF FirstTurn, bucket
    <2>3. ASSUME NEW n, EngineRejects(r, ids[r], n) PROVE OwnInv'
      BY <1>7, <1>8, <2>3 DEF FirstTurn, bucket
    <2> QED  BY <1>8, <2>2, <2>3 DEF FirstTurn, HandleEngineCall
  <1>9. ASSUME NEW r \in Reqs, EngineAnswer(r) PROVE OwnInv'
    <2>1. /\ UNCHANGED <<instances, bucket>>
          /\ mode \in {"train", "val"} /\ mode' \in {mode, "failed"}
          /\ req[r].at = "engine" /\ r \in instances
      <3>0. mode' = "failed" \/ \E n, overLong, k : AddMessage(r, n, overLong, k)
        BY <1>9, Zenon DEF EngineAnswer
      <3>1. mode' = mode \/ mode' = "failed"
        BY <3>0 DEF AddMessage
      <3>2. /\ UNCHANGED <<instances, bucket>> /\ Running(r)
            /\ req[r].at = "engine"
        BY <1>9, Zenon DEF EngineAnswer
      <3> QED  BY <1>0, <3>1, <3>2 DEF Running, HaveInstance
    <2>2. CASE UNCHANGED req
      BY <1>0, <2>1, <2>2 DEF bucket, OwnInv, ReqOK, Expected, HaveInstance,
                              BetweenBatches
    <2>3. ASSUME NEW n, NEW overLong, NEW k, AddMessage(r, n, overLong, k)
          PROVE  OwnInv'
      <3>1. /\ DOMAIN req' = Reqs /\ \A s \in Reqs : s # r => req'[s] = req[s]
            /\ Fields \subseteq DOMAIN req'[r]
        BY <1>0, <2>3 DEF AddMessage, ReqOK
      <3>2. /\ req'[r].at \in {"loop", "end"}
            /\ req'[r].state \in {"tool_calling", "running"}
        BY <1>0, <2>3 DEF AddMessage, ReqOK, Fields
      <3>3. \A j \in 1 .. MaxCalls : call[<<r, j>>] = "idle"
        BY <1>0, <2>1 DEF Expected
      <3> QED  BY <1>0, <2>1, <3>1, <3>2, <3>3
               DEF bucket, OwnInv, ReqOK, Expected, HaveInstance, BetweenBatches
    <2>4. \/ UNCHANGED req
          \/ \E n, overLong, k : AddMessage(r, n, overLong, k)
      BY <1>9, Zenon DEF EngineAnswer
    <2> QED  BY <2>2, <2>3, <2>4
  <1>10. ASSUME NEW r \in Reqs, CallTools(r) PROVE OwnInv'
    <2>1. PICK valid \in SUBSET (1 .. req[r].calls) : Queue({r} \X valid)
      BY <1>10 DEF CallTools
    <2>2. /\ \A s \in Reqs, k \in 1 .. MaxCalls :
               s # r => call'[<<s, k>>] = call[<<s, k>>]
          /\ \A k \in 1 .. MaxCalls :
               call'[<<r, k>>] # "idle" => k <= req[r].calls
      <3>1. \A k \in 1 .. MaxCalls : call[<<r, k>>] = "idle"
        BY <1>0, <1>10 DEF CallTools, Expected
      <3>2. \A k \in valid : k \in 1 .. req[r].calls
        BY <2>1
      <3> QED  BY <2>1, <3>1, <3>2, Pairs DEF Queue
    <2>3. \A s \in Reqs : s # r => req'[s] = req[s]
      BY <1>0, <1>10 DEF CallTools, ReqOK
    <2>4. /\ req'[r].at = "tools" /\ req'[r].state = "tool_calling"
          /\ req'[r].calls = req[r].calls
          /\ DOMAIN req' = Reqs /\ Fields \subseteq DOMAIN req'[r]
      BY <1>0, <1>10 DEF CallTools, ReqOK, Fields
    <2>5. instances' = instances /\ mode' = mode /\ mode \in {"train", "val"}
          /\ req[r].state = "tool_calling"
      BY <1>10 DEF CallTools, Running
    <2> QED  BY <1>0, <2>2, <2>3, <2>4, <2>5
             DEF OwnInv, ReqOK, Expected, HaveInstance, BetweenBatches
  <1>11. ASSUME NEW r \in Reqs, ToolAnswers(r) PROVE OwnInv'
    <2>1. r \in instances
      BY <1>0, <1>11 DEF ToolAnswers, HaveInstance
    <2>3. \A k \in 1 .. MaxCalls : call'[<<r, k>>] = "idle"
      BY <1>11, Pairs DEF ToolAnswers, Collect
    <2>4. \A s \in Reqs, k \in 1 .. MaxCalls :
            s # r => call'[<<s, k>>] = call[<<s, k>>]
      BY <1>11, Pairs DEF ToolAnswers, Collect
    <2>5. PICK lens \in [1 .. req[r].calls -> ToolLens] :
            LET tokens == WithAnswers(ids[r], lens)
            IN  IF Len(tokens) >= MaxModelLen
                THEN /\ req' = [req EXCEPT ![r].at = "end"]
                     /\ UNCHANGED <<mode, batches, params, instances>>
                ELSE HandleEngineCall(r, tokens)
      BY <1>11 DEF ToolAnswers
    <2> DEFINE tokens == WithAnswers(ids[r], lens)
    <2>6. ASSUME NEW n, CallEngine(r, tokens, n) PROVE OwnInv'
      BY <1>6, <1>11, <2>1, <2>3, <2>4, <2>6 DEF ToolAnswers
    <2>7. ASSUME NEW n, EngineRejects(r, tokens, n) PROVE OwnInv'
      BY <1>7, <2>3, <2>4, <2>7
    <2>8. CASE /\ req' = [req EXCEPT ![r].at = "end"]
               /\ UNCHANGED <<mode, batches, params, instances>>
      BY <1>0, <2>3, <2>4, <2>8
      DEF OwnInv, ReqOK, Fields, Expected, HaveInstance, BetweenBatches
    <2> QED  BY <2>5, <2>6, <2>7, <2>8 DEF HandleEngineCall
  <1>12. ASSUME NEW r \in Reqs, Finalize(r) PROVE OwnInv'
    BY <1>0, <1>12 DEF Finalize, AfterRelease, Running, bucket, OwnInv, ReqOK,
                       Fields, Expected, HaveInstance, BetweenBatches
  <1> QED  BY <1>1, <1>2, <1>3, <1>4, <1>5, <1>8, <1>9, <1>10, <1>11, <1>12
           DEF Next, Coroutine

LEMMA StepIInv == IInv /\ [Next]_vars => IInv'
  BY StepBucket, StepOwn, StepInv DEF IInv

\* SGLangRollout uses the limiter as TokenBucket promises it can be used: a
\* call is submitted only when the one before it has been taken.
THEOREM RolloutUsesBucket == Spec => BucketSpec
  <1>1. Init => BucketInit
    BY DEF Init
  <1> QED  BY <1>1, InitIInv, StepIInv, StepBucket, PTL DEF Spec, BucketSpec

\* With it, no token is lost or made among all coroutines of the rollout.
THEOREM RolloutBalances == Spec => []TokensAreConserved
  BY RolloutUsesBucket, BucketBalances, PTL

\* A search never outlives its request or the instance it writes to, and a
\* batch that ends leaves no instance behind.
THEOREM RolloutKeepsInstances == Spec => []InstancesFollowRequests
  <1>1. IInv => SearchesHaveInstances
    BY DEF IInv, OwnInv, Expected, HaveInstance, SearchesHaveInstances
  <1>2. IInv => InstancesAreReleased
    BY DEF IInv, OwnInv, BetweenBatches, InstancesAreReleased
  <1>3. IInv => InstancesFollowRequests
    BY <1>1, <1>2 DEF InstancesFollowRequests
  <1> QED  BY InitIInv, StepIInv, <1>3, PTL DEF Spec

-----------------------------------------------------------------------------
(* The tokens.                                                             *)

Kinds == {"p", "g", "a", "e", "t", "x"}

\* The positions of a kind are finitely many.
LEMMA CountTyped ==
  ASSUME NEW s \in Seq(Kinds), NEW kind
  PROVE  /\ IsFiniteSet({k \in DOMAIN s : s[k] = kind})
         /\ Count(s, kind) \in Nat
<1>1. IsFiniteSet(1 .. Len(s))
  BY FS_Interval
<1>2. {k \in DOMAIN s : s[k] = kind} \subseteq 1 .. Len(s)
  OBVIOUS
<1>3. IsFiniteSet({k \in DOMAIN s : s[k] = kind})
  BY <1>1, <1>2, FS_Subset
<1> QED BY <1>3, FS_CardinalityType DEF Count

LEMMA CountIsNat ==
  ASSUME NEW s \in Seq(Kinds) PROVE Count(s, "x") \in Nat
  BY CountTyped

\* Concatenation by positions.
LEMMA Concatenated ==
  ASSUME NEW S, NEW s \in Seq(S), NEW t \in Seq(S)
  PROVE  /\ s \o t \in Seq(S) /\ Len(s) \in Nat /\ Len(t) \in Nat
         /\ Len(s \o t) = Len(s) + Len(t)
         /\ DOMAIN (s \o t) = 1 .. Len(s) + Len(t)
         /\ \A k \in 1 .. Len(s) : (s \o t)[k] = s[k]
         /\ \A k \in Len(s) + 1 .. Len(s) + Len(t) : (s \o t)[k] = t[k - Len(s)]
  OBVIOUS

\* What has no end of an answer does not count.
LEMMA Appended ==
  ASSUME NEW s \in Seq(Kinds), NEW t \in Seq(Kinds),
         \A k \in 1 .. Len(t) : t[k] # "x"
  PROVE  /\ s \o t \in Seq(Kinds)
         /\ Len(s \o t) = Len(s) + Len(t)
         /\ Count(s \o t, "x") = Count(s, "x")
<1> DEFINE m == s \o t
<1>1. /\ m \in Seq(Kinds) /\ Len(s) \in Nat /\ Len(t) \in Nat
      /\ Len(m) = Len(s) + Len(t)
      /\ DOMAIN m = 1 .. Len(s) + Len(t) /\ DOMAIN s = 1 .. Len(s)
      /\ \A k \in 1 .. Len(s) : m[k] = s[k]
      /\ \A k \in Len(s) + 1 .. Len(s) + Len(t) : m[k] = t[k - Len(s)]
  BY Concatenated
<1> HIDE DEF m
<1>2. ASSUME NEW k \in Len(s) + 1 .. Len(s) + Len(t) PROVE m[k] # "x"
  <2>1. k - Len(s) \in 1 .. Len(t)
    BY <1>1
  <2> QED BY <1>1, <2>1
<1>3. {k \in DOMAIN m : m[k] = "x"} = {k \in DOMAIN s : s[k] = "x"}
  BY <1>1, <1>2
<1>4. Count(m, "x") = Count(s, "x")
  BY <1>3 DEF Count
<1> QED BY <1>1, <1>4 DEF m

\* A tool's message adds one end of an answer, at the end.
LEMMA ToolMessageFacts ==
  ASSUME NEW s \in Seq(Kinds), NEW n \in Nat
  PROVE  LET m == ToolMessage(s, n)
         IN  /\ m \in Seq(Kinds)
             /\ Len(m) = Len(s) + n + 1
             /\ \A k \in 1 .. Len(s) : m[k] = s[k]
             /\ \A k \in Len(s) + 1 .. Len(m) : m[k] \in {"t", "x"}
             /\ m[Len(m)] = "x"
             /\ Count(m, "x") = Count(s, "x") + 1
<1> DEFINE b == [k \in 1 .. n |-> "t"]
           sb == s \o b
           m == ToolMessage(s, n)
<1>1. b \in Seq(Kinds) /\ Len(b) = n /\ \A k \in 1 .. Len(b) : b[k] = "t"
  BY DEF Kinds
<1>2. <<"x">> \in Seq(Kinds) /\ Len(<<"x">>) = 1 /\ <<"x">>[1] = "x"
  BY DEF Kinds
<1>3. m = sb \o <<"x">>
  BY DEF ToolMessage
<1> HIDE DEF b
<1>4. /\ sb \in Seq(Kinds) /\ Len(s) \in Nat /\ Len(sb) = Len(s) + n
      /\ \A k \in 1 .. Len(s) : sb[k] = s[k]
      /\ \A k \in Len(s) + 1 .. Len(s) + n : sb[k] = b[k - Len(s)]
  BY <1>1, Concatenated
<1>5. \A k \in Len(s) + 1 .. Len(s) + n : k - Len(s) \in 1 .. Len(b)
  BY <1>1, <1>4
<1>6. \A k \in Len(s) + 1 .. Len(s) + n : sb[k] = "t"
  BY <1>1, <1>4, <1>5
<1>7. Count(sb, "x") = Count(s, "x")
  BY <1>1, Appended
<1> DEFINE last == Len(s) + n + 1
<1> HIDE DEF sb, m
<1>8. /\ m \in Seq(Kinds) /\ Len(m) = last /\ DOMAIN m = 1 .. last
      /\ \A k \in 1 .. Len(sb) : m[k] = sb[k]
      /\ m[last] = "x"
  <2>1. last - Len(sb) = 1 /\ last \in Len(sb) + 1 .. Len(sb) + Len(<<"x">>)
    BY <1>2, <1>4
  <2> QED BY <1>2, <1>3, <1>4, <2>1, Concatenated
<1>9. /\ \A k \in 1 .. Len(s) : m[k] = s[k]
      /\ \A k \in Len(s) + 1 .. Len(m) : m[k] \in {"t", "x"}
      /\ m[Len(m)] = "x"
  <2>1. ASSUME NEW k \in 1 .. Len(s) PROVE m[k] = s[k]
    <3>1. k \in 1 .. Len(sb)
      BY <1>4
    <3> QED BY <1>4, <1>8, <3>1
  <2>2. ASSUME NEW k \in Len(s) + 1 .. Len(m) PROVE m[k] \in {"t", "x"}
    <3>1. CASE k = last
      BY <1>8, <3>1
    <3>2. CASE k # last
      <4>1. k \in 1 .. Len(sb) /\ k \in Len(s) + 1 .. Len(s) + n
        BY <1>4, <1>8, <3>2
      <4> QED BY <1>6, <1>8, <4>1
    <3> QED BY <3>1, <3>2
  <2> QED BY <1>8, <2>1, <2>2
<1> DEFINE old == {k \in DOMAIN sb : sb[k] = "x"}
           new == {k \in DOMAIN m : m[k] = "x"}
<1>10. DOMAIN sb = 1 .. Len(sb) /\ last = Len(sb) + 1 /\ Len(sb) \in Nat
  BY <1>4
<1>11. new = old \cup {last}
  BY <1>8, <1>10
<1>12. last \notin old
  BY <1>10
<1>13. IsFiniteSet(old)
  BY <1>4, CountTyped
<1>14. Cardinality(new) = Cardinality(old) + 1
  <2> HIDE DEF old, new, last
  <2> QED BY <1>11, <1>12, <1>13, FS_AddElement
<1>15. Count(m, "x") = Count(s, "x") + 1
  BY <1>7, <1>14 DEF Count
<1> QED BY <1>8, <1>9, <1>15 DEF m

\* A message of the model shortens nothing and adds no end of an answer.
LEMMA AssistantMessageFacts ==
  ASSUME NEW s \in Seq(Kinds), Len(s) > 0, NEW n \in Nat, NEW overLong \in BOOLEAN
  PROVE  LET m == AssistantMessage(s, n, overLong)
         IN  /\ m \in Seq(Kinds)
             /\ Len(m) >= Len(s)
             /\ Count(m, "x") = Count(s, "x")
<1> DEFINE o == IF Last(s) = "g" THEN <<>> ELSE <<"g">>
           b == [k \in 1 .. n |-> "a"]
           e == IF overLong THEN <<>> ELSE <<"e">>
           m == ((s \o o) \o b) \o e
<1>1. /\ o \in Seq(Kinds) /\ Len(o) = (IF Last(s) = "g" THEN 0 ELSE 1)
      /\ \A k \in 1 .. Len(o) : o[k] # "x"
  <2>1. CASE Last(s) = "g"
    BY <2>1
  <2>2. CASE Last(s) # "g"
    BY <2>2 DEF Kinds
  <2> QED BY <2>1, <2>2
<1>2. b \in Seq(Kinds) /\ Len(b) = n /\ \A k \in 1 .. Len(b) : b[k] # "x"
  BY DEF Kinds
<1>3. /\ e \in Seq(Kinds) /\ Len(e) = (IF overLong THEN 0 ELSE 1)
      /\ \A k \in 1 .. Len(e) : e[k] # "x"
  <2>1. CASE overLong
    BY <2>1
  <2>2. CASE ~ overLong
    BY <2>2 DEF Kinds
  <2> QED BY <2>1, <2>2
<1>4. AssistantMessage(s, n, overLong) = m
  BY DEF AssistantMessage
<1> HIDE DEF o, b, e
<1>5. /\ s \o o \in Seq(Kinds) /\ Len(s \o o) = Len(s) + Len(o)
      /\ Count(s \o o, "x") = Count(s, "x")
  BY <1>1, Appended
<1>6. /\ (s \o o) \o b \in Seq(Kinds) /\ Len((s \o o) \o b) = Len(s) + Len(o) + n
      /\ Count((s \o o) \o b, "x") = Count(s, "x")
  BY <1>2, <1>5, Appended
<1>7. /\ m \in Seq(Kinds) /\ Len(m) = Len(s) + Len(o) + n + Len(e)
      /\ Count(m, "x") = Count(s, "x")
  BY <1>3, <1>6, Appended
<1> HIDE DEF m
<1>8. Len(s) \in Nat /\ Len(o) \in Nat /\ Len(e) \in Nat
  BY <1>1, <1>3
<1>9. Len(m) >= Len(s)
  BY <1>7, <1>8
<1> QED BY <1>4, <1>7, <1>9

\* Every answer that was appended is complete and, as long as the context is
\* not full, none has been left out.
LEMMA AnswersFacts ==
  ASSUME NEW s \in Seq(Kinds), NEW n \in Nat \ {0}, NEW lens \in [1 .. n -> Nat],
         Len(s) > 0
  PROVE  LET m == WithAnswers(s, lens)
         IN  /\ m \in Seq(Kinds) /\ Len(m) > 0
             /\ Len(m) < MaxModelLen => /\ Last(m) = "x"
                                        /\ Count(m, "x") = Count(s, "x") + n
<1> DEFINE Next1(t, k) == IF Len(t) >= MaxModelLen THEN t ELSE ToolMessage(t, lens[k])
           Good(f) == f = [k \in 0 .. n |-> IF k = 0 THEN s ELSE Next1(f[k - 1], k)]
           upTo == CHOOSE f : Good(f)
<1>1. Len(lens) = n
  OBVIOUS
<1>2. WithAnswers(s, lens) = upTo[n]
  BY <1>1 DEF WithAnswers
<1>3. \A t \in Seq(Kinds), k \in 1 .. n : Next1(t, k) \in Seq(Kinds)
  <2>1. \A k \in 1 .. n : lens[k] \in Nat
    OBVIOUS
  <2> QED BY <2>1, ToolMessageFacts
<1>4. Good(upTo)
  <2> DEFINE F == [p \in Seq(Kinds) \X (1 .. n) |-> Next1(p[1], p[2])]
  <2> HIDE DEF Next1
  <2>1. \A t \in Seq(Kinds), k \in 1 .. n : F[<<t, k>>] = Next1(t, k)
    OBVIOUS
  <2> HIDE DEF F
  <2>2. PICK f \in [0 .. n -> Seq(Kinds)] :
          f[0] = s /\ \A k \in 1 .. n : f[k] = F[<<f[k - 1], k>>]
    <3> DEFINE S == Seq(Kinds)
    <3>1. n \in Nat /\ s \in S /\ Closed(S, n, F)
      BY <1>3, <2>1 DEF Closed
    <3> HIDE DEF S
    <3>2. \E f : Iterates(f, S, n, s, F)
      BY <3>1, Iterated
    <3> QED BY <3>2 DEF S, Iterates
  <2>3. ASSUME NEW k \in 0 .. n
        PROVE  f[k] = IF k = 0 THEN s ELSE Next1(f[k - 1], k)
    <3>1. CASE k = 0
      BY <2>2, <3>1
    <3>2. CASE k # 0
      <4>1. k \in 1 .. n /\ k - 1 \in 0 .. n /\ f[k - 1] \in Seq(Kinds)
        BY <3>2
      <4> QED BY <2>1, <2>2, <3>2, <4>1
    <3> QED BY <3>1, <3>2
  <2>4. Good(f)
    <3> DEFINE w == [k \in 0 .. n |-> IF k = 0 THEN s ELSE Next1(f[k - 1], k)]
    <3>1. \A k \in 0 .. n : f[k] = w[k]
      BY <2>3
    <3>2. f = [k \in 0 .. n |-> f[k]] /\ w = [k \in 0 .. n |-> w[k]]
      OBVIOUS
    <3> HIDE DEF w
    <3>3. f = w
      BY <3>1, <3>2
    <3> QED BY <3>3 DEF w
  <2> HIDE DEF Good
  <2> QED BY <2>4
<1>5. upTo[0] = s /\ \A k \in 1 .. n : upTo[k] = Next1(upTo[k - 1], k)
  <2> HIDE DEF upTo, Next1
  <2>1. \A k \in 0 .. n : upTo[k] = IF k = 0 THEN s ELSE Next1(upTo[k - 1], k)
    BY <1>4
  <2> QED BY <2>1
<1> HIDE DEF upTo, Good
<1> DEFINE T == {k \in 0 .. n :
                   LET t == upTo[k]
                   IN  /\ t \in Seq(Kinds) /\ Len(t) > 0
                       /\ Len(t) < MaxModelLen =>
                            /\ k > 0 => t[Len(t)] = "x"
                            /\ Count(t, "x") = Count(s, "x") + k}
<1>6. 0 \in T
  <2>1. 0 \in 0 .. n /\ Count(s, "x") + 0 = Count(s, "x")
    BY CountIsNat
  <2> QED BY <1>5, <2>1
<1>7. ASSUME NEW k \in 1 .. n, k - 1 \in T PROVE k \in T
  <2> DEFINE t == upTo[k - 1]
             u == upTo[k]
  <2>1. /\ t \in Seq(Kinds) /\ Len(t) > 0
        /\ Len(t) < MaxModelLen => Count(t, "x") = Count(s, "x") + (k - 1)
    BY <1>7
  <2>2. u = Next1(t, k)
    BY <1>5
  <2>3. MaxModelLen \in Nat /\ Len(t) \in Nat /\ Count(s, "x") \in Nat
    <3>1. MaxModelLen \in Nat
      BY ToolRolloutAssumption
    <3> QED BY <2>1, <3>1, CountIsNat
  <2>4. k \in 0 .. n /\ k > 0
    OBVIOUS
  <2> HIDE DEF t, u
  <2>5. CASE Len(t) >= MaxModelLen
    <3>1. u = t /\ ~ (Len(u) < MaxModelLen)
      BY <2>2, <2>3, <2>5
    <3> QED BY <2>1, <2>4, <3>1 DEF u
  <2>6. CASE Len(t) < MaxModelLen
    <3>1. u = ToolMessage(t, lens[k]) /\ lens[k] \in Nat
      BY <2>2, <2>3, <2>6
    <3>2. /\ u \in Seq(Kinds) /\ Len(u) = Len(t) + lens[k] + 1
          /\ \A j \in Len(t) + 1 .. Len(u) : u[j] \in {"t", "x"}
          /\ u[Len(u)] = "x"
          /\ Count(u, "x") = Count(t, "x") + 1
      BY <2>1, <3>1, ToolMessageFacts
    <3>3. Len(u) > 0
      BY <2>3, <3>1, <3>2
    <3>5. Count(u, "x") = Count(s, "x") + k
      BY <2>1, <2>3, <2>6, <3>2
    <3> QED BY <2>4, <3>2, <3>3, <3>5 DEF u
  <2> QED BY <2>3, <2>5, <2>6
<1>8. n \in T
  <2> HIDE DEF T
  <2>1. \A k \in 0 .. n : k \in T
    BY <1>6, <1>7, Induct
  <2> QED BY <2>1
<1>9. LET t == upTo[n]
      IN  /\ t \in Seq(Kinds) /\ Len(t) > 0
          /\ Len(t) < MaxModelLen => t[Len(t)] = "x" /\ Count(t, "x") = Count(s, "x") + n
  BY <1>8
<1> QED BY <1>2, <1>9 DEF Last

-----------------------------------------------------------------------------
(* The requests and their tokens.                                          *)

Params == [temperature : {"train", "val"}, maxNewTokens : Int]
Requests ==
  [state : {"pending", "running", "tool_calling", "completed"},
   at : {"loop", "engine", "tools", "end"}, turns : Nat, calls : Nat,
   asked : Nat, saved : Params, own : Int, rendered : Int]
Tokens == {s \in Seq(Kinds) : Len(s) > 0}

Typed ==
  /\ mode \in {"idle", "train", "val", "failed"}
  /\ params \in Params
  /\ req \in [Reqs -> Requests]
  /\ ids \in [Reqs -> Tokens]

\* Before its first turn a request is its prompt.
IsPrompt(r) ==
  req[r].at = "loop" /\ req[r].state \in {"pending", "running"} =>
    /\ Len(ids[r]) = PromptLen
    /\ Last(ids[r]) \in {"p", "g"}
    /\ Count(ids[r], "x") = 0
    /\ req[r].asked = 0

\* What the engine was asked for fits into the context.
HasRoom(r) ==
  req[r].at = "engine" =>
    /\ req[r].own \in Nat
    /\ req[r].rendered + req[r].own < MaxModelLen
    /\ Last(ids[r]) \in {"p", "g", "x"}

\* The answers to come are those still to be added.
AnswersToCome(r) ==
  mode # "failed" /\ req[r].state = "tool_calling" /\ req[r].at \in {"loop", "tools"} =>
    /\ req[r].calls > 0
    /\ Count(ids[r], "x") + req[r].calls = req[r].asked

HasAnswers(r) == req[r].state = "running" => Count(ids[r], "x") = req[r].asked

RequestOK(r) == IsPrompt(r) /\ HasRoom(r) /\ AnswersToCome(r) /\ HasAnswers(r)

TokenInv == Typed /\ (\A r \in Reqs : RequestOK(r)) /\ FailuresAreExplained

LEMMA Constants ==
  /\ MaxModelLen \in Nat /\ PromptLen \in Nat /\ ResponseLength \in Nat
  /\ PromptLen > 0 /\ ResponseLength > 0 /\ PromptLen < MaxModelLen
  /\ MaxCalls \in Nat /\ \A n \in GenLens \cup ToolLens : n \in Nat
  /\ \A d \in Renderings \cup Recodings : d \in Int
<1>1. /\ MaxModelLen \in Nat \ {0} /\ PromptLen \in Nat \ {0}
      /\ ResponseLength \in Nat \ {0} /\ MaxCalls \in Nat \ {0}
  BY ToolRolloutAssumption
<1> QED BY <1>1, ToolRolloutAssumption

LEMMA MinOfTwo ==
  ASSUME NEW a \in Int, NEW b \in Int
  PROVE  Min({a, b}) = IF a <= b THEN a ELSE b
<1> DEFINE P(x) == x \in {a, b} /\ \A y \in {a, b} : x <= y
           m == IF a <= b THEN a ELSE b
<1>1. P(m) /\ \A x : P(x) => x = m
  OBVIOUS
<1>2. Min({a, b}) = CHOOSE x \in {a, b} : \A y \in {a, b} : x <= y
  BY DEF Min
<1> QED BY <1>1, <1>2

LEMMA BudgetFacts ==
  ASSUME NEW n \in Int
  PROVE  /\ Budget(n) \in Int
         /\ n + Budget(n) < MaxModelLen
         /\ Budget(n) < 0 => n >= MaxModelLen
<1> DEFINE room == MaxModelLen - n - 1
<1>1. MaxModelLen \in Nat /\ ResponseLength \in Nat /\ room \in Int
  BY Constants
<1>2. Budget(n) = IF ResponseLength <= room THEN ResponseLength ELSE room
  <2> HIDE DEF room
  <2>1. ResponseLength \in Int
    BY <1>1
  <2> QED BY <1>1, <2>1, MinOfTwo DEF Budget, room
<1>3. Budget(n) \in Int /\ Budget(n) <= room /\ (Budget(n) < 0 => room < 0)
  <2> HIDE DEF room
  <2> QED BY <1>1, <1>2
<1> QED BY <1>1, <1>3

LEMMA MinOfThree ==
  ASSUME NEW a \in Int, NEW b \in Int, NEW c \in Int
  PROVE  /\ Min({a, b, c}) \in {a, b, c}
         /\ Min({a, b, c}) <= a /\ Min({a, b, c}) <= b /\ Min({a, b, c}) <= c
<1> DEFINE S == {a, b, c}
           P(x) == x \in S /\ \A y \in S : x <= y
<1>1. \E x : P(x)
  <2>1. CASE a <= b /\ a <= c
    BY <2>1
  <2>2. CASE b <= a /\ b <= c
    BY <2>2
  <2>3. CASE c <= a /\ c <= b
    BY <2>3
  <2> QED BY <2>1, <2>2, <2>3
<1>2. Min(S) = CHOOSE x \in S : \A y \in S : x <= y
  BY DEF Min
<1>3. P(Min(S))
  <2> HIDE DEF S
  <2> QED BY <1>1, <1>2
<1> QED BY <1>3

\* A step of one request leaves the others as they are.
LEMMA OneRequest ==
  ASSUME TokenInv, NEW r \in Reqs, mode \in {"train", "val"},
         mode' \in {mode, "failed"}, params' \in Params,
         NEW q \in Requests, req' = [req EXCEPT ![r] = q],
         NEW s \in Tokens, ids' = [ids EXCEPT ![r] = s],
         RequestOK(r)',
         mode' = "failed" => \/ Last(s) = "p"
                             \/ /\ Len(s) < MaxModelLen
                                /\ q.rendered >= MaxModelLen
  PROVE  TokenInv'
<1>1. Typed'
  BY DEF TokenInv, Typed
<1>2. req'[r] = q /\ ids'[r] = s
  BY DEF TokenInv, Typed
<1>3. ASSUME NEW o \in Reqs PROVE RequestOK(o)'
  <2>1. CASE o = r
    BY <2>1
  <2>2. CASE o # r
    <3>1. req'[o] = req[o] /\ ids'[o] = ids[o] /\ RequestOK(o)
      BY <2>2 DEF TokenInv, Typed
    <3>2. (mode' # "failed") => (mode # "failed")
      OBVIOUS
    <3> QED BY <3>1, <3>2 DEF RequestOK, IsPrompt, HasRoom, AnswersToCome, HasAnswers
  <2> QED BY <2>1, <2>2
<1>4. FailuresAreExplained'
  BY <1>2 DEF FailuresAreExplained
<1> QED BY <1>1, <1>3, <1>4 DEF TokenInv

LEMMA PromptFacts ==
  ASSUME NEW cut \in BOOLEAN
  PROVE  /\ Prompt(cut) \in Tokens
         /\ Len(Prompt(cut)) = PromptLen
         /\ Last(Prompt(cut)) \in {"p", "g"}
         /\ Count(Prompt(cut), "x") = 0
<1> DEFINE t == Prompt(cut)
<1>1. /\ t \in Seq(Kinds) /\ Len(t) = PromptLen /\ DOMAIN t = 1 .. PromptLen
      /\ \A k \in 1 .. PromptLen : t[k] \in {"p", "g"}
  BY Constants DEF Prompt, Kinds
<1> HIDE DEF t
<1>2. Len(t) > 0
  BY <1>1, Constants
<1>3. Last(t) \in {"p", "g"}
  BY <1>1, Constants DEF Last
<1>4. {k \in DOMAIN t : t[k] = "x"} = {}
  BY <1>1
<1>5. Count(t, "x") = 0
  BY <1>4, FS_EmptySet DEF Count
<1> QED BY <1>1, <1>2, <1>3, <1>5 DEF t, Tokens

LEMMA FreshFacts ==
  /\ Fresh \in Requests /\ Configured \in Params
  /\ Fresh.at = "loop" /\ Fresh.state = "pending" /\ Fresh.asked = 0
  BY Constants DEF Fresh, Requests, Configured, Params

\* Requests that have just been made.
LEMMA NewRequests ==
  ASSUME NEW r \in Reqs, req[r] = Fresh, NEW cut \in BOOLEAN, ids[r] = Prompt(cut)
  PROVE  RequestOK(r)
  BY PromptFacts, FreshFacts DEF RequestOK, IsPrompt, HasRoom, AnswersToCome, HasAnswers

LEMMA InitTokens == Init => TokenInv
<1> SUFFICES ASSUME Init PROVE TokenInv
  OBVIOUS
<1>1. mode = "idle" /\ params = Configured
      /\ req = [r \in Reqs |-> Fresh] /\ ids = [r \in Reqs |-> Prompt(FALSE)]
  BY DEF Init
<1>2. Typed
  BY <1>1, PromptFacts, FreshFacts DEF Typed
<1>3. \A r \in Reqs : RequestOK(r)
  BY <1>1, NewRequests
<1>4. FailuresAreExplained
  BY <1>1 DEF FailuresAreExplained
<1> QED BY <1>2, <1>3, <1>4 DEF TokenInv

LEMMA BeginTokens == TokenInv /\ BeginBatch => TokenInv'
<1> SUFFICES ASSUME TokenInv, BeginBatch PROVE TokenInv'
  OBVIOUS
<1>1. PICK cut \in SUBSET Cuttable : ids' = [r \in Reqs |-> Prompt(r \in cut)]
  BY DEF BeginBatch
<1>2. mode' \in {"train", "val"} /\ params' = params /\ req' = [r \in Reqs |-> Fresh]
  BY DEF BeginBatch
<1>3. \A r \in Reqs : (r \in cut) \in BOOLEAN
  OBVIOUS
<1>4. Typed'
  BY <1>1, <1>2, <1>3, PromptFacts, FreshFacts DEF TokenInv, Typed
<1>5. ASSUME NEW r \in Reqs PROVE RequestOK(r)'
  <2>1. req'[r] = Fresh /\ ids'[r] = Prompt(r \in cut)
    BY <1>1, <1>2
  <2> DEFINE c == (r \in cut)
  <2>2. c \in BOOLEAN /\ ids'[r] = Prompt(c)
    BY <2>1
  <2> HIDE DEF c
  <2>3. /\ Len(ids'[r]) = PromptLen /\ Last(ids'[r]) \in {"p", "g"}
        /\ Count(ids'[r], "x") = 0
    BY <2>2, PromptFacts
  <2> QED BY <2>1, <2>3, FreshFacts
          DEF RequestOK, IsPrompt, HasRoom, AnswersToCome, HasAnswers
<1>6. FailuresAreExplained'
  BY <1>2 DEF FailuresAreExplained
<1> QED BY <1>4, <1>5, <1>6 DEF TokenInv

\* The engine is called with tokens that hold every answer asked for.
LEMMA CallTokens ==
  ASSUME TokenInv, NEW r \in Reqs, mode \in {"train", "val"}, NEW s \in Tokens,
         Last(s) \in {"p", "g", "x"}, Count(s, "x") = req[r].asked,
         NEW n \in Int, CallEngine(r, s, n)
  PROVE  TokenInv'
<1> DEFINE b == Budget(n)
           q == [req[r] EXCEPT !.state = "running", !.at = "engine",
                               !.saved = params, !.own = b, !.rendered = n,
                               !.calls = 0]
<1>1. b \in Int /\ n + b < MaxModelLen
  BY BudgetFacts
<1>2. SetParams(b).maxNewTokens = b
  BY DEF SetParams
<1>3. /\ b >= 0 /\ params' = SetParams(b) /\ mode' = mode
      /\ req' = [req EXCEPT ![r] = q] /\ ids' = [ids EXCEPT ![r] = s]
  BY <1>2 DEF CallEngine, TokenInv, Typed
<1>4. req[r] \in Requests /\ params \in Params
  BY DEF TokenInv, Typed
<1> HIDE DEF b
<1>5. /\ q \in Requests /\ q.at = "engine" /\ q.state = "running" /\ q.own = b
      /\ q.asked = req[r].asked /\ q.rendered = n
  BY <1>1, <1>4 DEF Requests
<1>6. params' \in Params
  BY <1>1, <1>3, <1>4 DEF SetParams, Params
<1> HIDE DEF q
<1>7. req'[r] = q /\ ids'[r] = s
  BY <1>3 DEF TokenInv, Typed
<1>8. RequestOK(r)'
  BY <1>1, <1>3, <1>5, <1>7
     DEF RequestOK, IsPrompt, HasRoom, AnswersToCome, HasAnswers
<1> QED BY <1>3, <1>5, <1>6, <1>8, OneRequest

\* A batch fails over a conversation that leaves no room.
LEMMA RejectTokens ==
  ASSUME TokenInv, NEW r \in Reqs, mode \in {"train", "val"}, NEW s \in Tokens,
         NEW n \in Int, EngineRejects(r, s, n), Len(s) < MaxModelLen,
         \/ s = ids[r] /\ req[r].at = "loop"
         \/ req[r].at = "tools" /\ req[r].state = "tool_calling"
  PROVE  TokenInv'
<1> DEFINE q == [req[r] EXCEPT !.rendered = n]
<1>1. n >= MaxModelLen
  BY BudgetFacts DEF EngineRejects
<1>2. /\ mode' = "failed" /\ params' = params
      /\ req' = [req EXCEPT ![r] = q] /\ ids' = [ids EXCEPT ![r] = s]
  BY DEF EngineRejects, TokenInv, Typed
<1>3. req[r] \in Requests /\ params' \in Params /\ RequestOK(r)
  BY <1>2 DEF TokenInv, Typed
<1>4. /\ q \in Requests /\ q.rendered = n /\ q.at = req[r].at
      /\ q.state = req[r].state /\ q.asked = req[r].asked
  BY <1>3 DEF Requests
<1> HIDE DEF q
<1>5. req'[r] = q /\ ids'[r] = s
  BY <1>2 DEF TokenInv, Typed
<1>6. RequestOK(r)'
  <2>1. CASE s = ids[r] /\ req[r].at = "loop"
    BY <1>2, <1>3, <1>4, <1>5, <2>1
       DEF RequestOK, IsPrompt, HasRoom, AnswersToCome, HasAnswers
  <2>2. CASE req[r].at = "tools" /\ req[r].state = "tool_calling"
    BY <1>2, <1>4, <1>5, <2>2
       DEF RequestOK, IsPrompt, HasRoom, AnswersToCome, HasAnswers
  <2> QED BY <2>1, <2>2
<1> QED BY <1>1, <1>2, <1>3, <1>4, <1>6, OneRequest

\* What is rendered has a length.
LEMMA RenderedIs ==
  ASSUME NEW s \in Tokens, NEW d \in Renderings
  PROVE  GenerationPromptLen(s, d) \in Int
<1>1. Len(s) \in Int /\ d \in Int
  BY Constants DEF Tokens
<1> QED BY <1>1 DEF GenerationPromptLen

LEMMA FirstTurnTokens ==
  ASSUME TokenInv, NEW r \in Reqs, FirstTurn(r) PROVE TokenInv'
<1>1. /\ mode \in {"train", "val"} /\ req[r].at = "loop" /\ req[r].state = "running"
      /\ HandleEngineCall(r, ids[r])
  BY DEF FirstTurn, Running
<1>2. /\ ids[r] \in Tokens /\ Last(ids[r]) \in {"p", "g"} /\ Len(ids[r]) = PromptLen
      /\ Count(ids[r], "x") = req[r].asked
  BY <1>1 DEF TokenInv, Typed, RequestOK, IsPrompt
<1>3. Len(ids[r]) < MaxModelLen
  BY <1>2, Constants
<1>4. PICK n \in Int : CallEngine(r, ids[r], n) \/ EngineRejects(r, ids[r], n)
  BY <1>1, <1>2, RenderedIs DEF HandleEngineCall
<1> QED BY <1>1, <1>2, <1>3, <1>4, CallTokens, RejectTokens

LEMMA CreateTokens ==
  ASSUME TokenInv, NEW r \in Reqs, CreateTools(r) PROVE TokenInv'
<1> DEFINE q == [req[r] EXCEPT !.state = "running"]
           s == ids[r]
<1>1. /\ mode \in {"train", "val"} /\ mode' = mode /\ params' = params
      /\ req' = [req EXCEPT ![r] = q] /\ ids' = ids
      /\ req[r].at = "loop" /\ req[r].state = "pending"
  BY DEF CreateTools, Running, TokenInv, Typed
<1>2. req[r] \in Requests /\ params' \in Params /\ s \in Tokens /\ RequestOK(r)
      /\ ids' = [ids EXCEPT ![r] = s]
  BY <1>1 DEF TokenInv, Typed
<1>3. q \in Requests /\ q.at = "loop" /\ q.state = "running" /\ q.asked = req[r].asked
  BY <1>1, <1>2 DEF Requests
<1> HIDE DEF q
<1>4. req'[r] = q /\ ids'[r] = ids[r]
  BY <1>1 DEF TokenInv, Typed
<1>5. RequestOK(r)'
  BY <1>1, <1>2, <1>3, <1>4
     DEF RequestOK, IsPrompt, HasRoom, AnswersToCome, HasAnswers
<1> HIDE DEF s
<1> QED BY <1>1, <1>2, <1>3, <1>5, OneRequest

LEMMA CallToolsTokens ==
  ASSUME TokenInv, NEW r \in Reqs, CallTools(r) PROVE TokenInv'
<1> DEFINE q == [req[r] EXCEPT !.at = "tools"]
           s == ids[r]
<1>1. /\ mode \in {"train", "val"} /\ mode' = mode /\ params' = params
      /\ req' = [req EXCEPT ![r] = q] /\ ids' = ids
      /\ req[r].at = "loop" /\ req[r].state = "tool_calling"
  BY DEF CallTools, Running, TokenInv, Typed
<1>2. req[r] \in Requests /\ params' \in Params /\ s \in Tokens /\ RequestOK(r)
      /\ ids' = [ids EXCEPT ![r] = s]
  BY <1>1 DEF TokenInv, Typed
<1>3. q \in Requests /\ q.at = "tools" /\ q.state = "tool_calling"
      /\ q.asked = req[r].asked /\ q.calls = req[r].calls
  BY <1>1, <1>2 DEF Requests
<1> HIDE DEF q
<1>4. req'[r] = q /\ ids'[r] = ids[r]
  BY <1>1 DEF TokenInv, Typed
<1>5. RequestOK(r)'
  BY <1>1, <1>2, <1>3, <1>4
     DEF RequestOK, IsPrompt, HasRoom, AnswersToCome, HasAnswers
<1> HIDE DEF s
<1> QED BY <1>1, <1>2, <1>3, <1>5, OneRequest

LEMMA FinalizeTokens ==
  ASSUME TokenInv, NEW r \in Reqs, Finalize(r) PROVE TokenInv'
<1> DEFINE q == [req[r] EXCEPT !.state = "completed"]
           t == ids[r]
           s == Truncated(t)
           n == Min({Len(t), MaxModelLen, PromptLen + ResponseLength})
<1>1. /\ mode \in {"train", "val"} /\ mode' = mode /\ params' = params
      /\ req' = [req EXCEPT ![r] = q] /\ ids' = [ids EXCEPT ![r] = s]
      /\ req[r].at = "end"
  BY DEF Finalize, Running, TokenInv, Typed
<1>2. req[r] \in Requests /\ params' \in Params /\ t \in Tokens
  BY <1>1 DEF TokenInv, Typed
<1>3. q \in Requests /\ q.at = "end" /\ q.state = "completed"
  BY <1>1, <1>2 DEF Requests
<1> HIDE DEF q, t, n
<1>4. n \in Nat /\ n > 0 /\ n <= Len(t)
  <2> DEFINE c == PromptLen + ResponseLength
  <2>1. /\ Len(t) \in Nat /\ Len(t) > 0 /\ MaxModelLen \in Nat /\ MaxModelLen > 0
        /\ c \in Nat /\ c > 0
    BY <1>2, Constants DEF Tokens
  <2> HIDE DEF c
  <2>2. n \in {Len(t), MaxModelLen, c} /\ n <= Len(t)
    <3>1. Len(t) \in Int /\ MaxModelLen \in Int /\ c \in Int
      BY <2>1
    <3> QED BY <3>1, MinOfThree DEF n, c
  <2> QED BY <2>1, <2>2
<1>5. s = SubSeq(t, 1, n)
  BY DEF Truncated, n
<1>6. s \in Seq(Kinds) /\ Len(s) = n
  <2>1. t \in Seq(Kinds)
    BY <1>2 DEF Tokens
  <2> QED BY <1>4, <1>5, <2>1
<1>7. s \in Tokens
  <2> HIDE DEF s
  <2> QED BY <1>4, <1>6 DEF Tokens
<1> HIDE DEF s
<1>8. req'[r] = q
  BY <1>1 DEF TokenInv, Typed
<1>9. RequestOK(r)'
  BY <1>3, <1>8 DEF RequestOK, IsPrompt, HasRoom, AnswersToCome, HasAnswers
<1> QED BY <1>1, <1>2, <1>3, <1>7, <1>9, OneRequest

\* The model's message adds no answer.
LEMMA MessageTokens ==
  ASSUME TokenInv, NEW r \in Reqs, mode \in {"train", "val"}, req[r].at = "engine",
         req[r].state = "running", params' = Restored(req[r].saved),
         NEW n \in Int, NEW overLong \in BOOLEAN, NEW k \in Nat,
         AddMessage(r, n, overLong, k)
  PROVE  TokenInv'
<1> DEFINE turns == req[r].turns + 1
           st == IF k > 0 THEN "tool_calling" ELSE "running"
           a == IF k > 0 /\ ~ LastTurn(turns) THEN "loop" ELSE "end"
           q == [req[r] EXCEPT !.turns = turns, !.calls = k, !.asked = @ + k,
                               !.saved = Configured, !.own = 0, !.rendered = 0,
                               !.state = st, !.at = a]
           t == ids[r]
           s == AssistantMessage(t, n, overLong)
<1>0. n \in Nat
  BY DEF AddMessage
<1>1. /\ req[r] \in Requests /\ params \in Params /\ t \in Tokens /\ RequestOK(r)
      /\ turns \in Nat
  <2>1. req[r] \in Requests /\ params \in Params /\ t \in Tokens /\ RequestOK(r)
    BY DEF TokenInv, Typed
  <2> QED BY <2>1 DEF Requests
<1>2. /\ req' = [req EXCEPT ![r] = q] /\ ids' = [ids EXCEPT ![r] = s]
      /\ mode' = mode
  BY DEF AddMessage, TokenInv, Typed
<1>3. /\ Len(t) \in Nat /\ Len(t) > 0 /\ t \in Seq(Kinds)
      /\ Count(t, "x") = req[r].asked /\ req[r].asked \in Nat
  <2>1. t \in Seq(Kinds) /\ Len(t) \in Nat /\ Len(t) > 0
    BY <1>1 DEF Tokens
  <2>2. Count(t, "x") = req[r].asked /\ req[r].asked \in Nat
    BY <1>1 DEF RequestOK, HasAnswers, Requests
  <2> QED BY <2>1, <2>2
<1>4. params' \in Params
  BY <1>1 DEF Restored, Params, Requests
<1>5. /\ st \in {"tool_calling", "running"} /\ a \in {"loop", "end"}
      /\ k > 0 => st = "tool_calling"
      /\ ~ (k > 0) => st = "running" /\ a = "end"
  OBVIOUS
<1> HIDE DEF st, a, t, turns
<1>6. /\ q \in Requests /\ q.at = a /\ q.state = st /\ q.calls = k
      /\ q.asked = req[r].asked + k
  <2>1. req[r].asked + k \in Nat
    BY <1>3
  <2> DEFINE sum == req[r].asked + k
  <2>2. q = [req[r] EXCEPT !.turns = turns, !.calls = k, !.asked = sum,
                           !.saved = Configured, !.own = 0, !.rendered = 0,
                           !.state = st, !.at = a]
    BY <1>1 DEF Requests
  <2>3. sum \in Nat
    BY <2>1
  <2> HIDE DEF sum, q
  <2>4. q = [state |-> st, at |-> a, turns |-> turns, calls |-> k, asked |-> sum,
             saved |-> Configured, own |-> 0, rendered |-> 0]
    BY <1>1, <2>2 DEF Requests
  <2>5. /\ q \in Requests /\ q.at = a /\ q.state = st /\ q.calls = k
        /\ q.asked = sum
    BY <1>1, <1>5, <2>3, <2>4, FreshFacts DEF Requests
  <2> QED BY <2>5 DEF sum
<1> HIDE DEF q
<1>7. s \in Seq(Kinds) /\ Len(s) >= Len(t) /\ Count(s, "x") = Count(t, "x")
  BY <1>0, <1>3, AssistantMessageFacts
<1> HIDE DEF s
<1>8. s \in Tokens
  <2>1. Len(s) > 0
    BY <1>3, <1>7
  <2> QED BY <1>7, <2>1 DEF Tokens
<1>10. req'[r] = q /\ ids'[r] = s
  BY <1>2 DEF TokenInv, Typed
<1>11. k > 0 => Count(s, "x") + k = q.asked
  BY <1>3, <1>6, <1>7
<1>12. ~ (k > 0) => Count(s, "x") = q.asked
  BY <1>3, <1>6, <1>7
<1>13. RequestOK(r)'
  BY <1>5, <1>6, <1>10, <1>11, <1>12
     DEF RequestOK, IsPrompt, HasRoom, AnswersToCome, HasAnswers
<1> QED BY <1>2, <1>4, <1>6, <1>8, <1>13, OneRequest

LEMMA EngineAnswerTokens ==
  ASSUME TokenInv, NEW r \in Reqs, EngineAnswer(r), req[r].state = "running"
  PROVE  TokenInv'
<1>1. /\ mode \in {"train", "val"} /\ req[r].at = "engine"
      /\ params' = Restored(req[r].saved)
      /\ RequestOK(r) /\ req[r] \in Requests /\ ids[r] \in Tokens /\ params \in Params
  BY DEF EngineAnswer, Running, TokenInv, Typed
<1>2. req[r].own \in Nat /\ Last(ids[r]) \in {"p", "g", "x"}
  BY <1>1 DEF RequestOK, HasRoom
<1>3. \A d \in Recodings : \A n \in GenLens \cup {req[r].own} : n + d \in Int
  BY <1>2, Constants
<1>4. CASE CanAddMessage(ids[r])
  <2>1. \A k \in 0 .. MaxCalls : k \in Nat
    BY Constants
  <2>2. PICK n \in Int, overLong \in BOOLEAN, k \in Nat :
          AddMessage(r, n, overLong, k)
    BY <1>3, <1>4, <2>1 DEF EngineAnswer
  <2> QED BY <1>1, <2>2, MessageTokens
<1>5. CASE ~ CanAddMessage(ids[r])
  <2>1. mode' = "failed" /\ ids' = ids /\ req' = req
    BY <1>5 DEF EngineAnswer
  <2>2. Last(ids[r]) = "p"
    BY <1>2, <1>5 DEF CanAddMessage
  <2>3. params' \in Params
    BY <1>1 DEF Restored, Params, Requests
  <2>4. /\ req' = [req EXCEPT ![r] = req[r]] /\ ids' = [ids EXCEPT ![r] = ids[r]]
        /\ req'[r] = req[r] /\ ids'[r] = ids[r]
    BY <2>1 DEF TokenInv, Typed
  <2>5. RequestOK(r)'
    BY <1>1, <2>1, <2>4 DEF RequestOK, IsPrompt, HasRoom, AnswersToCome, HasAnswers
  <2> QED BY <1>1, <2>1, <2>2, <2>3, <2>4, <2>5, OneRequest
<1> QED BY <1>4, <1>5

LEMMA ToolAnswersTokens ==
  ASSUME TokenInv, NEW r \in Reqs, ToolAnswers(r), req[r].state = "tool_calling"
  PROVE  TokenInv'
<1> DEFINE n == req[r].calls
<1>1. /\ mode \in {"train", "val"} /\ req[r].at = "tools" /\ RequestOK(r)
      /\ req[r] \in Requests /\ ids[r] \in Tokens /\ params \in Params
  BY DEF ToolAnswers, Running, TokenInv, Typed
<1>2. n \in Nat \ {0} /\ Count(ids[r], "x") + n = req[r].asked /\ req[r].asked \in Nat
  BY <1>1 DEF RequestOK, AnswersToCome, Requests
<1>3. PICK lens \in [1 .. n -> ToolLens] :
        LET tokens == WithAnswers(ids[r], lens)
        IN  IF Len(tokens) >= MaxModelLen
            THEN /\ ids' = [ids EXCEPT ![r] = tokens]
                 /\ req' = [req EXCEPT ![r].at = "end"]
                 /\ UNCHANGED <<mode, batches, params, instances>>
            ELSE HandleEngineCall(r, tokens)
  BY DEF ToolAnswers
<1> DEFINE tokens == WithAnswers(ids[r], lens)
<1>4. lens \in [1 .. n -> Nat]
  BY Constants
<1>5. ids[r] \in Seq(Kinds) /\ Len(ids[r]) > 0
  BY <1>1 DEF Tokens
<1> HIDE DEF n
<1>6. /\ tokens \in Tokens
      /\ Len(tokens) < MaxModelLen => /\ Last(tokens) = "x"
                                      /\ Count(tokens, "x") = Count(ids[r], "x") + n
  BY <1>2, <1>4, <1>5, AnswersFacts DEF Tokens
<1>7. Len(tokens) \in Nat /\ MaxModelLen \in Nat
  BY <1>6, Constants DEF Tokens
<1> HIDE DEF tokens
<1>8. CASE Len(tokens) >= MaxModelLen
  <2> DEFINE q == [req[r] EXCEPT !.at = "end"]
  <2>1. /\ ids' = [ids EXCEPT ![r] = tokens] /\ req' = [req EXCEPT ![r] = q]
        /\ mode' = mode /\ params' = params
    BY <1>3, <1>8 DEF tokens, TokenInv, Typed
  <2>2. q \in Requests /\ q.at = "end" /\ q.state = "tool_calling"
    BY <1>1 DEF Requests
  <2> HIDE DEF q
  <2>3. req'[r] = q
    BY <2>1 DEF TokenInv, Typed
  <2>4. RequestOK(r)'
    BY <2>2, <2>3 DEF RequestOK, IsPrompt, HasRoom, AnswersToCome, HasAnswers
  <2> QED BY <1>1, <1>6, <2>1, <2>2, <2>4, OneRequest
<1>9. CASE ~ (Len(tokens) >= MaxModelLen)
  <2>1. /\ Len(tokens) < MaxModelLen /\ Last(tokens) = "x"
        /\ Count(tokens, "x") = req[r].asked
    BY <1>2, <1>6, <1>7, <1>9
  <2>2. PICK k \in Int : CallEngine(r, tokens, k) \/ EngineRejects(r, tokens, k)
    <3>1. HandleEngineCall(r, tokens)
      BY <1>3, <1>9 DEF tokens
    <3> QED BY <1>6, <3>1, RenderedIs DEF HandleEngineCall
  <2>3. CASE CallEngine(r, tokens, k)
    BY <1>1, <1>6, <2>1, <2>3, CallTokens
  <2>4. CASE EngineRejects(r, tokens, k)
    BY <1>1, <1>6, <2>1, <2>4, RejectTokens
  <2> QED BY <2>2, <2>3, <2>4
<1> QED BY <1>8, <1>9

LEMMA StepTokens == IInv /\ TokenInv /\ [Next]_vars => TokenInv'
<1> SUFFICES ASSUME IInv, TokenInv, [Next]_vars PROVE TokenInv'
  OBVIOUS
<1>1. \A r \in Reqs : /\ req[r].at = "engine" => req[r].state = "running"
                      /\ req[r].at = "tools" => req[r].state = "tool_calling"
  BY DEF IInv, OwnInv, HaveInstance
<1>2. ASSUME UNCHANGED own PROVE TokenInv'
  BY <1>2 DEF own, TokenInv, Typed, RequestOK, IsPrompt, HasRoom, AnswersToCome,
              HasAnswers, FailuresAreExplained
<1>3. CASE EndBatch
  <2>1. mode' = "idle" /\ mode # "failed" /\ UNCHANGED <<params, req, ids>>
    BY <1>3 DEF EndBatch
  <2> QED BY <2>1 DEF TokenInv, Typed, RequestOK, IsPrompt, HasRoom,
                      AnswersToCome, HasAnswers, FailuresAreExplained
<1>4. ASSUME NEW r \in Reqs, EngineAnswer(r) PROVE TokenInv'
  <2>1. req[r].at = "engine"
    BY <1>4 DEF EngineAnswer
  <2> QED BY <1>1, <1>4, <2>1, EngineAnswerTokens
<1>5. ASSUME NEW r \in Reqs, ToolAnswers(r) PROVE TokenInv'
  <2>1. req[r].at = "tools"
    BY <1>5 DEF ToolAnswers
  <2> QED BY <1>1, <1>5, <2>1, ToolAnswersTokens
<1>6. ASSUME NEW r \in Reqs,
             CreateTools(r) \/ FirstTurn(r) \/ CallTools(r) \/ Finalize(r)
      PROVE  TokenInv'
  BY <1>6, CreateTokens, FirstTurnTokens, CallToolsTokens, FinalizeTokens
<1> QED BY <1>2, <1>3, <1>4, <1>5, <1>6, BeginTokens
        DEF Next, Coroutine, Limit, vars

LEMMA TokensInvariant == Spec => []TokenInv
  BY InitIInv, StepIInv, InitTokens, StepTokens, PTL DEF Spec

\* The model never goes on without an answer it has asked for.
THEOREM RolloutWaitsForAnswers == Spec => []CallsAreAnswered
<1>1. TokenInv => CallsAreAnswered
  BY DEF TokenInv, RequestOK, HasAnswers, CallsAreAnswered
<1> QED BY <1>1, TokensInvariant, PTL

\* Every call of the engine gets the budget of its own conversation, whatever
\* the other coroutines have put into the shared parameters, and a batch fails
\* over a prompt that was cut or a conversation that leaves no room, for
\* nothing else.
THEOREM RolloutKeepsBudgets == Spec => []BudgetsHold
<1>1. TokenInv => CallsFitTheContext
  BY DEF TokenInv, RequestOK, HasRoom, CallsFitTheContext
<1>2. TokenInv => BudgetsHold
  BY <1>1 DEF TokenInv, BudgetsHold
<1> QED BY <1>2, TokensInvariant, PTL

-----------------------------------------------------------------------------
(* Dynamic sampling.  The batch is a sequence of whole groups; so is what  *)
(* a try adds to it, and the uids of a try are its own.                    *)

Episode == [uid : Nat \X Int, slot : Slots, won : BOOLEAN, intr : IntrinsicSums]
RatesOfTry == UNION {[D -> Seq(BOOLEAN)] : D \in SUBSET (Tasks \union {"all"})}

\* The episodes of a uid are side by side, in the order of their slots.
First(b, k) == k - ((b[k].slot - 1) % GroupSize)
GroupsWhole(b) ==
  \A k \in DOMAIN b :
    /\ \A m \in First(b, k) .. First(b, k) + GroupSize - 1 :
         m \in DOMAIN b /\ b[m].uid = b[k].uid
    /\ \A m \in DOMAIN b : b[m].uid = b[k].uid =>
         /\ m \in First(b, k) .. First(b, k) + GroupSize - 1
         /\ b[m].slot - b[k].slot = m - k

\* An episode is of the last try, or one of its group earned something else.
Differing(b) ==
  \A k \in DOMAIN b :
    \/ b[k].uid[1] = MaxTries
    \/ \E m \in DOMAIN b : b[m].uid = b[k].uid /\ Total(b[m]) # Total(b[k])

\* The reward lists and the rates, each made for itself, follow the batch.
Totals(b) == [k \in DOMAIN b |-> Total(b[k])]
EnvOnlys(b) == [k \in DOMAIN b |-> EnvTotal(b[k])]
Wins(b) == [k \in DOMAIN b |-> b[k].won]
AllRates == [n \in DOMAIN rates |-> rates[n]["all"]]

Sampled ==
  /\ stage \in {"sample", "filter", "done", "failed"}
  /\ tries \in 0 .. MaxTries
  /\ task \in [0 .. Prompts - 1 -> Tasks]
  /\ stage = "filter" =>
       /\ tries >= 1
       /\ episodes \in [Slots -> Episode]
       /\ \A k \in Slots : episodes[k].uid = <<tries, Group(k)>> /\ episodes[k].slot = k

Listed ==
  /\ lists \in [batch : Seq(Episode), rewards : Seq(Int), envRewards : Seq(Int)]
  /\ lists.rewards = Totals(lists.batch)
  /\ lists.envRewards = EnvOnlys(lists.batch)
  /\ rates \in Seq(RatesOfTry)
  /\ \A n \in DOMAIN rates : "all" \in DOMAIN rates[n]
  /\ FlattenSeq(AllRates) = Wins(lists.batch)

Grouped ==
  /\ GroupsWhole(lists.batch)
  /\ Differing(lists.batch)
  /\ \A k \in DOMAIN lists.batch :
       /\ lists.batch[k].uid[1] <= tries
       /\ stage = "filter" => lists.batch[k].uid[1] < tries

Filled ==
  /\ Len(lists.batch) < 2 * Target
  /\ stage = "filter" => Len(lists.batch) < Target
  /\ stage \in {"done", "failed"} => Len(lists.batch) >= Target
  /\ stage = "sample" /\ tries = MaxTries => Len(lists.batch) >= Target

DynamicInv == Sampled /\ Listed /\ Grouped /\ Filled

\* The assumptions, as numbers.
LEMMA DynamicNumbers ==
  /\ Prompts \in Nat /\ Prompts >= 1 /\ GroupSize \in Nat /\ GroupSize >= 1
  /\ MaxTries \in Nat /\ MaxTries >= 1
  /\ Target \in Nat /\ Target >= 1 /\ Target = Prompts * GroupSize
  /\ IsFiniteSet(Slots) /\ Cardinality(Slots) = Target /\ Slots \in SUBSET Int
<1>1. Prompts \in Nat /\ Prompts >= 1 /\ GroupSize \in Nat /\ GroupSize >= 1
      /\ MaxTries \in Nat /\ MaxTries >= 1
  BY DynamicAssumption
<1>2. Target \in Nat /\ Target >= 1
  <2>1. \A a, b \in Nat : a >= 1 /\ b >= 1 => a * b \in Nat /\ a * b >= 1
    OBVIOUS
  <2> QED BY <1>1, <2>1 DEF Target
<1>3. IsFiniteSet(Slots) /\ Cardinality(Slots) = Target
  BY <1>2, FS_Interval DEF Slots
<1> QED BY <1>1, <1>2, <1>3 DEF Target, Slots

\* The slots of a group follow one another.
LEMMA GroupIs ==
  ASSUME NEW k \in Slots
  PROVE  LET r == (k - 1) % GroupSize
         IN  /\ r \in 0 .. GroupSize - 1
             /\ Group(k) \in Nat
             /\ k - r .. k - r + GroupSize - 1 \subseteq Slots
             /\ \A m \in Slots : Group(m) = Group(k) <=> m \in k - r .. k - r + GroupSize - 1
<1> DEFINE r == (k - 1) % GroupSize
           g == (k - 1) \div GroupSize
<1>1. k \in Int /\ 1 <= k /\ k <= Target /\ GroupSize \in Int /\ GroupSize >= 1 /\ Prompts \in Int
  BY DynamicNumbers DEF Slots
<1>2. r \in 0 .. GroupSize - 1 /\ g \in Nat /\ k - 1 = (g * GroupSize) + r
  BY <1>1
<1>3. g < Prompts
  <2>1. g * GroupSize < Prompts * GroupSize
    BY <1>1, <1>2, DynamicNumbers
  <2>2. \A a, b, c \in Nat : a >= b => a * c >= b * c
    OBVIOUS
  <2> QED BY <1>1, <1>2, <2>1, <2>2, DynamicNumbers
<1> HIDE DEF r, g
<1>4. (g * GroupSize) + GroupSize <= Target
  <2>1. \A a, b, c \in Nat : a < b => (a * c) + c <= b * c
    <3>1. ASSUME NEW a \in Nat, NEW b \in Nat, NEW c \in Nat, a < b PROVE (a * c) + c <= b * c
      <4>1. a + 1 <= b
        BY <3>1
      <4>2. (a + 1) * c <= b * c
        BY <4>1
      <4>3. (a + 1) * c = (a * c) + c
        OBVIOUS
      <4> QED BY <4>2, <4>3
    <3> QED BY <3>1
  <2> QED BY <1>1, <1>2, <1>3, <2>1, DynamicNumbers
<1>5. k - r = (g * GroupSize) + 1
  BY <1>1, <1>2
<1>6. k - r .. k - r + GroupSize - 1 \subseteq Slots
  <2>1. g * GroupSize \in Nat
    BY <1>1, <1>2
  <2> DEFINE p == g * GroupSize
  <2> HIDE DEF p
  <2>2. p \in Nat /\ k - r = p + 1 /\ p + GroupSize <= Target
    BY <1>4, <1>5, <2>1 DEF p
  <2> QED BY <1>1, <2>2, DynamicNumbers DEF Slots
<1>7. ASSUME NEW m \in Slots
      PROVE  Group(m) = g <=> m \in k - r .. k - r + GroupSize - 1
  <2> DEFINE s == (m - 1) % GroupSize
             h == (m - 1) \div GroupSize
  <2>1. m \in Int /\ m >= 1
    BY DynamicNumbers DEF Slots
  <2>2. s \in 0 .. GroupSize - 1 /\ h \in Nat /\ m - 1 = (h * GroupSize) + s /\ Group(m) = h
    BY <1>1, <2>1 DEF Group
  <2> HIDE DEF s, h
  <2>3. CASE h = g
    <3> DEFINE p == g * GroupSize
    <3>1. p \in Int
      BY <1>1, <1>2
    <3>2. m - 1 = p + s /\ k - r = p + 1
      BY <1>5, <2>2, <2>3
    <3> HIDE DEF p
    <3> QED BY <1>1, <2>1, <2>2, <2>3, <3>1, <3>2
  <2>4. CASE h # g
    <3> DEFINE p == g * GroupSize
               q == h * GroupSize
    <3>1. p \in Int /\ q \in Int
      BY <1>1, <1>2, <2>2
    <3>2. m - 1 = q + s /\ k - r = p + 1
      BY <1>5, <2>2
    <3>3. q + GroupSize <= p \/ p + GroupSize <= q
      <4>1. \A a, b, c \in Nat : a < b => (a * c) + c <= b * c
        <5>1. ASSUME NEW a \in Nat, NEW b \in Nat, NEW c \in Nat, a < b PROVE (a * c) + c <= b * c
          <6>1. a + 1 <= b
            BY <5>1
          <6>2. (a + 1) * c <= b * c
            BY <6>1
          <6>3. (a + 1) * c = (a * c) + c
            OBVIOUS
          <6> QED BY <6>2, <6>3
        <5> QED BY <5>1
      <4>2. h < g \/ g < h
        BY <1>2, <2>2, <2>4
      <4> QED BY <1>1, <1>2, <2>2, <4>1, <4>2
    <3> HIDE DEF p, q
    <3>4. m < k - r \/ m > k - r + GroupSize - 1
      BY <1>1, <2>1, <2>2, <3>1, <3>2, <3>3
    <3> QED BY <2>2, <2>4, <3>4, <1>1, <3>1, <3>2
  <2> QED BY <2>3, <2>4
<1>8. Group(k) = g
  BY DEF Group, g
<1> QED BY <1>2, <1>6, <1>7, <1>8 DEF r

\* What a try adds: the slots that are kept, in order.
Chosen == {k \in Slots : LastTry \/ Varied(k)}

LEMMA KeptIs ==
  /\ Chosen \in SUBSET Int /\ IsFiniteSet(Chosen) /\ Chosen \subseteq Slots
  /\ Cardinality(Chosen) \in Nat /\ Cardinality(Chosen) <= Target
  /\ Kept = Ordered(Chosen) /\ Kept \in [1 .. Cardinality(Chosen) -> Chosen]
  /\ LastTry => Chosen = Slots
  /\ \A k \in Chosen, m \in Slots : Group(m) = Group(k) => m \in Chosen
<1>1. Chosen \subseteq Slots /\ Chosen \in SUBSET Int
  BY DynamicNumbers DEF Chosen
<1>2. IsFiniteSet(Chosen) /\ Cardinality(Chosen) <= Target
  BY <1>1, DynamicNumbers, FS_Subset
<1>3. Cardinality(Chosen) \in Nat
  BY <1>2, FS_CardinalityType
<1>4. Kept = Ordered(Chosen)
  BY DEF Kept, Chosen
<1>5. Kept \in [1 .. Cardinality(Chosen) -> Chosen]
  BY <1>1, <1>2, <1>4, OrderedIs
<1>6. LastTry => Chosen = Slots
  BY DEF Chosen
<1>7. ASSUME NEW k \in Chosen, NEW m \in Slots, Group(m) = Group(k) PROVE m \in Chosen
  <2>1. Mates(m) = Mates(k)
    BY <1>7 DEF Mates
  <2>2. LastTry \/ Varied(m)
    BY <2>1 DEF Chosen, Varied
  <2> QED BY <2>2 DEF Chosen
<1> QED BY <1>1, <1>2, <1>3, <1>4, <1>5, <1>6, <1>7

\* A kept group is kept slot by slot, in its place.
LEMMA KeptGroup ==
  ASSUME NEW j \in 1 .. Cardinality(Chosen)
  PROVE  LET f == j - ((Kept[j] - 1) % GroupSize)
         IN  /\ \A m \in f .. f + GroupSize - 1 :
                  /\ m \in 1 .. Cardinality(Chosen)
                  /\ Group(Kept[m]) = Group(Kept[j])
                  /\ Kept[m] - Kept[j] = m - j
             /\ \A m \in 1 .. Cardinality(Chosen) :
                  Group(Kept[m]) = Group(Kept[j]) => m \in f .. f + GroupSize - 1
<1> DEFINE c == Cardinality(Chosen)
           k == Kept[j]
           r == (k - 1) % GroupSize
           a == k - r
           f == j - r
<1>1. k \in Chosen /\ k \in Slots /\ k \in Int /\ j \in Int /\ c \in Nat
  <2>1. k \in Chosen
    BY KeptIs
  <2> HIDE DEF k
  <2> QED BY <2>1, KeptIs
<1>2. Below(Chosen, k) = j
  BY KeptIs, OrderedIs
<1> HIDE DEF k, c
<1>3. /\ r \in 0 .. GroupSize - 1
      /\ a .. a + GroupSize - 1 \subseteq Slots
      /\ \A m \in Slots : Group(m) = Group(k) <=> m \in a .. a + GroupSize - 1
  BY <1>1, GroupIs
<1> HIDE DEF r
<1>4. a \in Int /\ f \in Int /\ GroupSize \in Int /\ GroupSize >= 1 /\ k = a + r
  BY <1>1, <1>3, DynamicNumbers
<1>5. a .. a + GroupSize - 1 \subseteq Chosen
  BY <1>1, <1>3, KeptIs
<1>6. ASSUME NEW i \in 0 .. GroupSize - 1
      PROVE  a + i \in Chosen /\ Below(Chosen, a + i) = Below(Chosen, a) + i
  <2>1. a .. a + i \subseteq Chosen /\ i \in Nat
    BY <1>4, <1>5
  <2>2. Below(Chosen, a + i) = Below(Chosen, a) + i
    BY <1>4, <2>1, KeptIs, RunInOrder
  <2>3. a + i \in Chosen
    BY <1>4, <1>5
  <2> QED BY <2>2, <2>3
<1>7. Below(Chosen, a) \in 1 .. c
  <2>1. a \in Chosen
    <3>1. a + 0 = a /\ 0 \in 0 .. GroupSize - 1
      BY <1>4
    <3> QED BY <1>6, <3>1
  <2> QED BY <2>1, KeptIs, BelowIs DEF c
<1>8. Below(Chosen, a) = f
  <2>1. Below(Chosen, a + r) = Below(Chosen, a) + r
    BY <1>3, <1>6
  <2> QED BY <1>1, <1>2, <1>3, <1>4, <1>7, <2>1
<1>9. ASSUME NEW m \in f .. f + GroupSize - 1
      PROVE  m \in 1 .. c /\ Group(Kept[m]) = Group(k) /\ Kept[m] - k = m - j
  <2> DEFINE i == m - f
  <2>1. i \in 0 .. GroupSize - 1 /\ m = f + i
    BY <1>4
  <2> HIDE DEF i
  <2>2. a + i \in Chosen /\ Below(Chosen, a + i) = m
    BY <1>6, <1>8, <2>1
  <2>3. m \in 1 .. c /\ Kept[m] = a + i
    BY <2>2, KeptIs, BelowIs, OrderedIs DEF c
  <2>4. a + i \in a .. a + GroupSize - 1 /\ a + i \in Slots
    BY <1>3, <1>4, <2>1
  <2>5. Group(Kept[m]) = Group(k)
    BY <1>3, <2>3, <2>4
  <2>6. Kept[m] - k = m - j
    BY <1>1, <1>3, <1>4, <2>1, <2>3
  <2> QED BY <2>3, <2>5, <2>6
<1>10. ASSUME NEW m \in 1 .. c, Group(Kept[m]) = Group(k)
       PROVE  m \in f .. f + GroupSize - 1
  <2>1. Kept[m] \in Chosen /\ Kept[m] \in Slots /\ Below(Chosen, Kept[m]) = m
    BY KeptIs, OrderedIs DEF c
  <2>2. Kept[m] \in a .. a + GroupSize - 1
    BY <1>3, <1>10, <2>1
  <2> DEFINE i == Kept[m] - a
  <2>3. i \in 0 .. GroupSize - 1 /\ Kept[m] = a + i
    BY <1>4, <2>2
  <2> HIDE DEF i
  <2>4. m = f + i
    BY <1>6, <1>8, <2>1, <2>3
  <2> QED BY <1>4, <2>3, <2>4
<1> QED BY <1>9, <1>10 DEF c, k, r

-----------------------------------------------------------------------------
(* What a try adds to the lists.                                           *)

\* The episodes a try adds.
Added == [j \in 1 .. Cardinality(Chosen) |-> episodes[Kept[j]]]

LEMMA EpisodeIs ==
  ASSUME NEW e \in Episode
  PROVE  /\ e.uid \in Nat \X Int /\ e.uid[1] \in Nat /\ e.slot \in Slots /\ e.won \in BOOLEAN
         /\ Total(e) \in Int /\ EnvTotal(e) \in Int
<1>1. e.uid \in Nat \X Int /\ e.slot \in Slots /\ e.won \in BOOLEAN /\ e.intr \in IntrinsicSums
  BY DEF Episode
<1>2. e.uid[1] \in Nat
  BY <1>1
<1>3. e.intr \in Int /\ WinPay \in Int
  BY <1>1, DynamicAssumption
<1> QED BY <1>1, <1>2, <1>3 DEF Total, EnvTotal

LEMMA AddedIs ==
  ASSUME Sampled, stage = "filter"
  PROVE  /\ Added \in Seq(Episode) /\ Len(Added) = Cardinality(Chosen)
         /\ \A j \in 1 .. Cardinality(Chosen) :
              /\ Added[j] = episodes[Kept[j]] /\ Kept[j] \in Chosen /\ Kept[j] \in Slots
              /\ Added[j].uid = <<tries, Group(Kept[j])>> /\ Added[j].slot = Kept[j]
<1>1. ASSUME NEW j \in 1 .. Cardinality(Chosen)
      PROVE  /\ Added[j] = episodes[Kept[j]] /\ Kept[j] \in Chosen /\ Kept[j] \in Slots
             /\ Added[j].uid = <<tries, Group(Kept[j])>> /\ Added[j].slot = Kept[j]
             /\ Added[j] \in Episode
  <2>1. Added[j] = episodes[Kept[j]]
    BY DEF Added
  <2>2. Kept[j] \in Chosen /\ Kept[j] \in Slots
    BY KeptIs
  <2> QED BY <2>1, <2>2 DEF Sampled
<1>2. Added \in [1 .. Cardinality(Chosen) -> Episode]
  <2>1. Added = [j \in 1 .. Cardinality(Chosen) |-> Added[j]]
    BY DEF Added
  <2> QED BY <1>1, <2>1
<1>3. Added \in Seq(Episode) /\ Len(Added) = Cardinality(Chosen)
  BY <1>2, KeptIs
<1> QED BY <1>1, <1>3

LEMMA FilteredIs ==
  /\ DOMAIN Kept = 1 .. Cardinality(Chosen)
  /\ Filtered = [batch |-> Added, rewards |-> Totals(Added), envRewards |-> EnvOnlys(Added)]
<1>1. DOMAIN Kept = 1 .. Cardinality(Chosen)
  BY KeptIs
<1>2. DOMAIN Added = 1 .. Cardinality(Chosen)
      /\ \A j \in 1 .. Cardinality(Chosen) : Added[j] = episodes[Kept[j]]
  BY DEF Added
<1>3. Totals(Added) = [j \in DOMAIN Kept |-> Total(episodes[Kept[j]])]
  BY <1>1, <1>2 DEF Totals
<1>4. EnvOnlys(Added) = [j \in DOMAIN Kept |-> EnvTotal(episodes[Kept[j]])]
  BY <1>1, <1>2 DEF EnvOnlys
<1> QED BY <1>1, <1>3, <1>4 DEF Filtered, Added

LEMMA AddedWhole ==
  ASSUME Sampled, stage = "filter"
  PROVE  GroupsWhole(Added)
<1> DEFINE c == Cardinality(Chosen)
<1>1. DOMAIN Added = 1 .. c /\ c \in Nat
  BY AddedIs, KeptIs
<1>2. ASSUME NEW k \in 1 .. c
      PROVE  /\ \A m \in First(Added, k) .. First(Added, k) + GroupSize - 1 :
                  m \in 1 .. c /\ Added[m].uid = Added[k].uid
             /\ \A m \in 1 .. c : Added[m].uid = Added[k].uid =>
                  /\ m \in First(Added, k) .. First(Added, k) + GroupSize - 1
                  /\ Added[m].slot - Added[k].slot = m - k
  <2> DEFINE f == k - ((Kept[k] - 1) % GroupSize)
  <2>1. First(Added, k) = f
    BY AddedIs DEF First
  <2>2. /\ \A m \in f .. f + GroupSize - 1 :
             m \in 1 .. c /\ Group(Kept[m]) = Group(Kept[k]) /\ Kept[m] - Kept[k] = m - k
        /\ \A m \in 1 .. c : Group(Kept[m]) = Group(Kept[k]) => m \in f .. f + GroupSize - 1
    BY KeptGroup
  <2> HIDE DEF f
  <2>3. ASSUME NEW m \in f .. f + GroupSize - 1
        PROVE  m \in 1 .. c /\ Added[m].uid = Added[k].uid
    <3>1. m \in 1 .. c /\ Group(Kept[m]) = Group(Kept[k])
      BY <2>2
    <3> QED BY <3>1, AddedIs
  <2>4. ASSUME NEW m \in 1 .. c, Added[m].uid = Added[k].uid
        PROVE  m \in f .. f + GroupSize - 1 /\ Added[m].slot - Added[k].slot = m - k
    <3>1. Group(Kept[m]) = Group(Kept[k])
      <4>1. <<tries, Group(Kept[m])>> = <<tries, Group(Kept[k])>>
        BY <2>4, AddedIs
      <4> QED BY <4>1
    <3>2. m \in f .. f + GroupSize - 1
      BY <2>2, <3>1
    <3>3. Kept[m] - Kept[k] = m - k
      BY <2>2, <3>2
    <3> QED BY <3>2, <3>3, AddedIs
  <2> QED BY <2>1, <2>3, <2>4
<1> HIDE DEF c
<1> QED BY <1>1, <1>2 DEF GroupsWhole

LEMMA AddedDiffers ==
  ASSUME Sampled, stage = "filter"
  PROVE  Differing(Added)
<1> DEFINE c == Cardinality(Chosen)
<1>1. DOMAIN Added = 1 .. c
  BY AddedIs, KeptIs
<1>2. ASSUME NEW k \in 1 .. c
      PROVE  \/ Added[k].uid[1] = MaxTries
             \/ \E m \in 1 .. c : Added[m].uid = Added[k].uid /\ Total(Added[m]) # Total(Added[k])
  <2>1. CASE LastTry
    <3>1. Added[k].uid = <<tries, Group(Kept[k])>>
      BY AddedIs
    <3> QED BY <2>1, <3>1 DEF LastTry
  <2>2. CASE ~LastTry
    <3> DEFINE s == Kept[k]
    <3>1. s \in Chosen /\ s \in Slots /\ Added[k] = episodes[s] /\ Added[k].uid = <<tries, Group(s)>>
      BY AddedIs
    <3> HIDE DEF s
    <3>2. Varied(s)
      BY <2>2, <3>1 DEF Chosen
    <3>3. PICK x \in Mates(s) : Total(episodes[x]) # Total(episodes[s])
      BY <3>2 DEF Varied
    <3>4. x \in Slots /\ Group(x) = Group(s) /\ x \in Chosen
      <4>1. x \in Slots /\ Group(x) = Group(s)
        BY DEF Mates
      <4> QED BY <3>1, <4>1, KeptIs
    <3> DEFINE m == Below(Chosen, x)
    <3>5. m \in 1 .. c /\ Kept[m] = x
      BY <3>4, KeptIs, BelowIs, OrderedIs
    <3> HIDE DEF m
    <3>6. Added[m] = episodes[x] /\ Added[m].uid = <<tries, Group(x)>>
      BY <3>5, AddedIs
    <3>7. Added[m].uid = Added[k].uid /\ Total(Added[m]) # Total(Added[k])
      BY <3>1, <3>3, <3>4, <3>6
    <3> QED BY <3>5, <3>7
  <2> QED BY <2>1, <2>2
<1> HIDE DEF c
<1> QED BY <1>1, <1>2 DEF Differing

\* Every try has its rates, and the one over all episodes is of those kept.
LEMMA RatesAre ==
  ASSUME Sampled, stage = "filter"
  PROVE  KeptRates \in RatesOfTry /\ "all" \in DOMAIN KeptRates /\ KeptRates["all"] = Wins(Added)
<1> DEFINE c == Cardinality(Chosen)
<1>1. DOMAIN Kept = 1 .. c /\ Kept \in [1 .. c -> Slots] /\ c \in Nat /\ c <= Target
  BY KeptIs
<1>2. Keys \subseteq Tasks \union {"all"} /\ "all" \in Keys
  BY DEF Keys, Sampled
<1>3. ASSUME NEW key PROVE Rate(key) \in Seq(BOOLEAN)
  <2> DEFINE S == {k \in Slots : key \in {"all", task[Group(k)]}}
  <2>1. S \in SUBSET Int /\ IsFiniteSet(S) /\ S \subseteq Slots
    BY DynamicNumbers, FS_Subset
  <2>2. Played(key) = Ordered(S)
    BY DEF Played
  <2> HIDE DEF S
  <2>3. Ordered(S) \in [1 .. Cardinality(S) -> S] /\ Cardinality(S) \in Nat
    BY <2>1, OrderedIs, FS_CardinalityType
  <2>4. \A j \in 1 .. Cardinality(S) : episodes[Played(key)[j]].won \in BOOLEAN
    <3>1. \A j \in 1 .. Cardinality(S) : Played(key)[j] \in Slots
      BY <2>1, <2>2, <2>3
    <3>2. \A k \in Slots : episodes[k].won \in BOOLEAN
      BY EpisodeIs DEF Sampled
    <3> QED BY <3>1, <3>2
  <2>5. Rate(key) \in [1 .. Cardinality(S) -> BOOLEAN]
    BY <2>2, <2>3, <2>4 DEF Rate
  <2> QED BY <2>3, <2>5
<1>4. Rate("all") = [k \in 1 .. Target |-> episodes[k].won]
  <2>1. {k \in Slots : "all" \in {"all", task[Group(k)]}} = 1 .. Target
    BY DEF Slots
  <2>2. Played("all") = [k \in 1 .. Target |-> k]
    BY <2>1, DynamicNumbers, OrderOfAll DEF Played
  <2> QED BY <2>2 DEF Rate
<1>5. Wins(Added) = [j \in 1 .. c |-> episodes[Kept[j]].won]
  <2>1. DOMAIN Added = 1 .. c /\ \A j \in 1 .. c : Added[j].won = episodes[Kept[j]].won
    BY DEF Added
  <2> QED BY <2>1 DEF Wins
<1> HIDE DEF c
<1>6. CASE LastTry
  <2>1. KeptRates = [key \in Keys |-> Rate(key)]
    BY <1>6 DEF KeptRates
  <2>2. KeptRates \in [Keys -> Seq(BOOLEAN)]
    BY <1>3, <2>1
  <2>3. c = Target /\ Kept = [k \in 1 .. Target |-> k]
    BY <1>6, KeptIs, DynamicNumbers, OrderOfAll DEF c, Slots
  <2>4. KeptRates["all"] = Wins(Added)
    BY <1>2, <1>4, <1>5, <2>1, <2>3
  <2> QED BY <1>2, <2>1, <2>2, <2>4 DEF RatesOfTry
<1>7. CASE ~LastTry
  <2> DEFINE K == {x \in Keys : Len(Rate(x)) = Target}
             Of(key) == [j \in 1 .. c |-> Rate(key)[Kept[j]]]
  <2>1. KeptRates = [key \in K |-> Of(key)]
    BY <1>1, <1>7 DEF KeptRates
  <2>2. ASSUME NEW key \in K PROVE Of(key) \in Seq(BOOLEAN)
    <3>1. Rate(key) \in Seq(BOOLEAN) /\ Len(Rate(key)) = Target
      BY <1>3
    <3>2. \A k \in Slots : Rate(key)[k] \in BOOLEAN
      BY <3>1 DEF Slots
    <3>3. Of(key) \in [1 .. c -> BOOLEAN]
      BY <1>1, <3>2
    <3> QED BY <1>1, <3>3
  <2>3. "all" \in K
    <3>1. Len(Rate("all")) = Target
      BY <1>4, DynamicNumbers
    <3> QED BY <1>2, <3>1
  <2>4. Of("all") = Wins(Added)
    <3>1. \A j \in 1 .. c : Rate("all")[Kept[j]] = episodes[Kept[j]].won
      BY <1>1, <1>4 DEF Slots
    <3> QED BY <1>5, <3>1
  <2>5. K \subseteq Tasks \union {"all"}
    BY <1>2
  <2> HIDE DEF K, Of
  <2>6. KeptRates \in [K -> Seq(BOOLEAN)]
    BY <2>1, <2>2
  <2> QED BY <2>1, <2>3, <2>4, <2>5, <2>6 DEF RatesOfTry
<1> QED BY <1>6, <1>7

-----------------------------------------------------------------------------
(* Putting a try's episodes at the end keeps all of this.                  *)

\* Where an element of a concatenation comes from.
LEMMA Joined ==
  ASSUME NEW S, NEW b \in Seq(S), NEW u \in Seq(S)
  PROVE  /\ b \o u \in Seq(S) /\ Len(b \o u) = Len(b) + Len(u)
         /\ \A k \in DOMAIN b : k \in DOMAIN (b \o u) /\ (b \o u)[k] = b[k]
         /\ \A k \in DOMAIN u : Len(b) + k \in DOMAIN (b \o u) /\ (b \o u)[Len(b) + k] = u[k]
         /\ \A k \in DOMAIN (b \o u) :
              k \in DOMAIN b \/ (k - Len(b) \in DOMAIN u /\ k = Len(b) + (k - Len(b)))
  OBVIOUS

Join(f, g, l, n) == [k \in 1 .. l + n |-> IF k <= l THEN f[k] ELSE g[k - l]]

LEMMA JoinedMap ==
  ASSUME NEW T, NEW f \in Seq(T), NEW g \in Seq(T)
  PROVE  f \o g = Join(f, g, Len(f), Len(g))
<1> DEFINE l == Len(f)
           n == Len(g)
<1>1. l \in Nat /\ n \in Nat
  OBVIOUS
<1> DEFINE c == f \o g
<1>2. c \in Seq(T) /\ DOMAIN c = 1 .. l + n
  BY <1>1
<1>3. \A k \in 1 .. l + n : c[k] = IF k <= l THEN f[k] ELSE g[k - l]
  BY <1>1
<1> HIDE DEF c
<1>4. c = [k \in DOMAIN c |-> c[k]]
  <2>1. c \in [1 .. Len(c) -> T]
    BY <1>2
  <2> QED BY <2>1
<1>5. c = [k \in 1 .. l + n |-> IF k <= l THEN f[k] ELSE g[k - l]]
  BY <1>2, <1>3, <1>4
<1> QED BY <1>5 DEF c, Join

LEMMA WholeJoined ==
  ASSUME NEW b \in Seq(Episode), NEW u \in Seq(Episode), GroupsWhole(b), GroupsWhole(u),
         \A k \in DOMAIN b, m \in DOMAIN u : b[k].uid # u[m].uid
  PROVE  GroupsWhole(b \o u)
<1> DEFINE v == b \o u
           l == Len(b)
<1>1. /\ l \in Nat /\ DOMAIN b = 1 .. l
      /\ \A k \in DOMAIN b : k \in DOMAIN v /\ v[k] = b[k]
      /\ \A k \in DOMAIN u : l + k \in DOMAIN v /\ v[l + k] = u[k]
      /\ \A k \in DOMAIN v : k \in DOMAIN b \/ (k - l \in DOMAIN u /\ k = l + (k - l))
      /\ DOMAIN u \subseteq Int /\ DOMAIN v \subseteq Int
  BY Joined
<1>2. \A k \in DOMAIN b : b[k].slot \in Int
  <2>1. \A k \in DOMAIN b : b[k] \in Episode
    OBVIOUS
  <2> QED BY <2>1, EpisodeIs, DynamicNumbers
<1>3. \A k \in DOMAIN u : u[k].slot \in Int
  <2>1. \A k \in DOMAIN u : u[k] \in Episode
    OBVIOUS
  <2> QED BY <2>1, EpisodeIs, DynamicNumbers
<1> HIDE DEF v, l
<1>4. GroupSize \in Nat /\ GroupSize >= 1
  BY DynamicNumbers
<1> DEFINE Fine(k) ==
             /\ \A m \in First(v, k) .. First(v, k) + GroupSize - 1 :
                  m \in DOMAIN v /\ v[m].uid = v[k].uid
             /\ \A m \in DOMAIN v : v[m].uid = v[k].uid =>
                  /\ m \in First(v, k) .. First(v, k) + GroupSize - 1
                  /\ v[m].slot - v[k].slot = m - k
<1>5. ASSUME NEW k \in DOMAIN b PROVE Fine(k)
  <2>1. v[k] = b[k] /\ First(v, k) = First(b, k)
    BY <1>1 DEF First
  <2> DEFINE f == First(b, k)
  <2>2. /\ \A m \in f .. f + GroupSize - 1 : m \in DOMAIN b /\ b[m].uid = b[k].uid
        /\ \A m \in DOMAIN b : b[m].uid = b[k].uid =>
             m \in f .. f + GroupSize - 1 /\ b[m].slot - b[k].slot = m - k
    BY DEF GroupsWhole
  <2> HIDE DEF f
  <2>3. ASSUME NEW m \in f .. f + GroupSize - 1 PROVE m \in DOMAIN v /\ v[m].uid = v[k].uid
    <3>1. m \in DOMAIN b /\ b[m].uid = b[k].uid
      BY <2>2
    <3> QED BY <1>1, <2>1, <3>1
  <2>4. ASSUME NEW m \in DOMAIN v, v[m].uid = v[k].uid
        PROVE  m \in f .. f + GroupSize - 1 /\ v[m].slot - v[k].slot = m - k
    <3>1. m \in DOMAIN b
      <4>1. ASSUME m - l \in DOMAIN u, m = l + (m - l) PROVE FALSE
        <5>1. v[m] = u[m - l]
          BY <1>1, <4>1
        <5> QED BY <2>1, <2>4, <4>1, <5>1
      <4> QED BY <1>1, <4>1
    <3>2. v[m] = b[m]
      BY <1>1, <3>1
    <3> QED BY <2>1, <2>2, <2>4, <3>1, <3>2
  <2> QED BY <2>1, <2>3, <2>4 DEF f
<1>6. ASSUME NEW j \in DOMAIN u PROVE Fine(l + j)
  <2> DEFINE k == l + j
             f == First(u, j)
  <2>0. j \in Int /\ k \in Int /\ k = l + j
    BY <1>1
  <2>1. v[k] = u[j] /\ u[j].slot \in Int
    BY <1>1, <1>3
  <2> HIDE DEF k
  <2>2. f \in Int /\ First(v, k) = l + f
    <3> DEFINE r == (u[j].slot - 1) % GroupSize
    <3>1. r \in Int
      BY <1>4, <2>1
    <3>2. First(v, k) = k - r /\ f = j - r
      BY <2>1 DEF First
    <3> HIDE DEF r, f
    <3> QED BY <1>1, <2>0, <3>1, <3>2
  <2>3. /\ \A m \in f .. f + GroupSize - 1 : m \in DOMAIN u /\ u[m].uid = u[j].uid
        /\ \A m \in DOMAIN u : u[m].uid = u[j].uid =>
             m \in f .. f + GroupSize - 1 /\ u[m].slot - u[j].slot = m - j
    BY DEF GroupsWhole
  <2> HIDE DEF f
  <2>4. ASSUME NEW m \in l + f .. l + f + GroupSize - 1 PROVE m \in DOMAIN v /\ v[m].uid = v[k].uid
    <3>1. m - l \in f .. f + GroupSize - 1 /\ m = l + (m - l)
      BY <1>1, <1>4, <2>2
    <3>2. m - l \in DOMAIN u /\ u[m - l].uid = u[j].uid
      BY <2>3, <3>1
    <3>3. m \in DOMAIN v /\ v[m] = u[m - l]
      BY <1>1, <3>1, <3>2
    <3> QED BY <2>1, <3>2, <3>3
  <2>5. ASSUME NEW m \in DOMAIN v, v[m].uid = v[k].uid
        PROVE  m \in l + f .. l + f + GroupSize - 1 /\ v[m].slot - v[k].slot = m - k
    <3>1. m - l \in DOMAIN u /\ m = l + (m - l)
      <4>1. ASSUME m \in DOMAIN b PROVE FALSE
        <5>1. v[m] = b[m]
          BY <1>1, <4>1
        <5> QED BY <2>1, <2>5, <4>1, <5>1
      <4> QED BY <1>1, <4>1
    <3>2. v[m] = u[m - l]
      BY <1>1, <3>1
    <3>3. m - l \in f .. f + GroupSize - 1 /\ u[m - l].slot - u[j].slot = (m - l) - j
      BY <2>1, <2>3, <2>5, <3>1, <3>2
    <3>4. m \in Int
      BY <1>1
    <3> DEFINE d == v[m].slot - v[k].slot
    <3>5. d = (m - l) - j
      BY <2>1, <3>2, <3>3
    <3> HIDE DEF d
    <3>6. d = m - k
      BY <1>1, <2>0, <3>4, <3>5
    <3>7. m \in l + f .. l + f + GroupSize - 1
      <4>1. m - l \in f .. f + GroupSize - 1
        BY <3>3
      <4> QED BY ONLY <1>1, <1>4, <2>2, <3>4, <4>1
    <3> QED BY <3>6, <3>7 DEF d
  <2> QED BY <2>2, <2>4, <2>5 DEF k
<1>7. ASSUME NEW k \in DOMAIN v PROVE Fine(k)
  <2>1. CASE k \in DOMAIN b
    BY <1>5, <2>1
  <2>2. CASE k - l \in DOMAIN u /\ k = l + (k - l)
    <3> DEFINE j == k - l
    <3>1. j \in DOMAIN u /\ k = l + j
      BY <2>2
    <3> HIDE DEF j, Fine
    <3>2. Fine(l + j)
      BY <1>6, <3>1
    <3> QED BY <3>1, <3>2
  <2> QED BY <1>1, <2>1, <2>2
<1>8. GroupsWhole(v)
  BY <1>7 DEF GroupsWhole
<1> QED BY <1>8 DEF v

LEMMA DifferingJoined ==
  ASSUME NEW b \in Seq(Episode), NEW u \in Seq(Episode), Differing(b), Differing(u)
  PROVE  Differing(b \o u)
<1> DEFINE v == b \o u
           l == Len(b)
<1>1. /\ \A k \in DOMAIN b : k \in DOMAIN v /\ v[k] = b[k]
      /\ \A k \in DOMAIN u : l + k \in DOMAIN v /\ v[l + k] = u[k]
      /\ \A k \in DOMAIN v : k \in DOMAIN b \/ (k - l \in DOMAIN u /\ k = l + (k - l))
  BY Joined
<1> HIDE DEF v, l
<1>2. ASSUME NEW k \in DOMAIN v
      PROVE  \/ v[k].uid[1] = MaxTries
             \/ \E m \in DOMAIN v : v[m].uid = v[k].uid /\ Total(v[m]) # Total(v[k])
  <2>1. CASE k \in DOMAIN b
    <3>1. \/ b[k].uid[1] = MaxTries
          \/ \E m \in DOMAIN b : b[m].uid = b[k].uid /\ Total(b[m]) # Total(b[k])
      BY <2>1 DEF Differing
    <3>2. v[k] = b[k]
      BY <1>1, <2>1
    <3>3. ASSUME NEW m \in DOMAIN b, b[m].uid = b[k].uid, Total(b[m]) # Total(b[k])
          PROVE  m \in DOMAIN v /\ v[m].uid = v[k].uid /\ Total(v[m]) # Total(v[k])
      <4>1. m \in DOMAIN v /\ v[m] = b[m]
        BY <1>1
      <4> QED BY <3>2, <3>3, <4>1
    <3> QED BY <3>1, <3>2, <3>3
  <2>2. CASE k - l \in DOMAIN u /\ k = l + (k - l)
    <3> DEFINE j == k - l
    <3>0. j \in DOMAIN u /\ v[k] = u[j]
      BY <1>1, <2>2
    <3> HIDE DEF j
    <3>1. \/ u[j].uid[1] = MaxTries
          \/ \E m \in DOMAIN u : u[m].uid = u[j].uid /\ Total(u[m]) # Total(u[j])
      BY <3>0 DEF Differing
    <3>3. ASSUME NEW m \in DOMAIN u, u[m].uid = u[j].uid, Total(u[m]) # Total(u[j])
          PROVE  \E n \in DOMAIN v : v[n].uid = v[k].uid /\ Total(v[n]) # Total(v[k])
      <4>1. l + m \in DOMAIN v /\ v[l + m] = u[m]
        BY <1>1
      <4>2. v[l + m].uid = v[k].uid /\ Total(v[l + m]) # Total(v[k])
        BY <3>0, <3>3, <4>1
      <4> QED BY <4>1, <4>2
    <3> QED BY <3>0, <3>1, <3>3
  <2> QED BY <1>1, <2>1, <2>2
<1>3. Differing(v)
  BY <1>2 DEF Differing
<1> QED BY <1>3 DEF v

\* The three lists made from a batch are made part by part.
LEMMA MapsJoined ==
  ASSUME NEW b \in Seq(Episode), NEW u \in Seq(Episode)
  PROVE  /\ Totals(b) \in Seq(Int) /\ EnvOnlys(b) \in Seq(Int) /\ Wins(b) \in Seq(BOOLEAN)
         /\ Totals(b \o u) = Totals(b) \o Totals(u)
         /\ EnvOnlys(b \o u) = EnvOnlys(b) \o EnvOnlys(u)
         /\ Wins(b \o u) = Wins(b) \o Wins(u)
<1> DEFINE v == b \o u
           l == Len(b)
           n == Len(u)
<1>1. /\ l \in Nat /\ n \in Nat /\ DOMAIN b = 1 .. l /\ DOMAIN u = 1 .. n
      /\ DOMAIN v = 1 .. l + n
      /\ \A k \in 1 .. l + n : v[k] = IF k <= l THEN b[k] ELSE u[k - l]
  OBVIOUS
<1>2. \A k \in 1 .. l : Total(b[k]) \in Int /\ EnvTotal(b[k]) \in Int /\ b[k].won \in BOOLEAN
  BY <1>1, EpisodeIs
<1>3. \A k \in 1 .. n : Total(u[k]) \in Int /\ EnvTotal(u[k]) \in Int /\ u[k].won \in BOOLEAN
  BY <1>1, EpisodeIs
<1> HIDE DEF v, l, n
<1>4. /\ Totals(b) \in [1 .. l -> Int] /\ EnvOnlys(b) \in [1 .. l -> Int]
      /\ Wins(b) \in [1 .. l -> BOOLEAN]
  BY <1>1, <1>2 DEF Totals, EnvOnlys, Wins
<1>5. /\ Totals(u) \in [1 .. n -> Int] /\ EnvOnlys(u) \in [1 .. n -> Int]
      /\ Wins(u) \in [1 .. n -> BOOLEAN]
  BY <1>1, <1>3 DEF Totals, EnvOnlys, Wins
<1>6. \A k \in 1 .. l + n : k <= l => k \in 1 .. l
  BY <1>1
<1>7. \A k \in 1 .. l + n : ~(k <= l) => k - l \in 1 .. n
  BY <1>1
<1>9. Totals(v) = [k \in 1 .. l + n |-> IF k <= l THEN Totals(b)[k] ELSE Totals(u)[k - l]]
  BY <1>1, <1>6, <1>7 DEF Totals
<1>10. EnvOnlys(v) = [k \in 1 .. l + n |-> IF k <= l THEN EnvOnlys(b)[k] ELSE EnvOnlys(u)[k - l]]
  BY <1>1, <1>6, <1>7 DEF EnvOnlys
<1>11. Wins(v) = [k \in 1 .. l + n |-> IF k <= l THEN Wins(b)[k] ELSE Wins(u)[k - l]]
  BY <1>1, <1>6, <1>7 DEF Wins
<1>12. Totals(b) \in Seq(Int) /\ Totals(v) = Totals(b) \o Totals(u)
  <2> DEFINE f == Totals(b)
             g == Totals(u)
  <2>1. f \in [1 .. l -> Int] /\ g \in [1 .. n -> Int]
    BY <1>4, <1>5
  <2> HIDE DEF f, g
  <2>2. f \in Seq(Int) /\ f \o g = Join(f, g, l, n)
    <3>1. f \in Seq(Int) /\ g \in Seq(Int) /\ Len(f) = l /\ Len(g) = n
      <4>1. l \in Nat /\ n \in Nat
        BY <1>1
      <4> QED BY ONLY <2>1, <4>1
    <3>2. f \o g = Join(f, g, Len(f), Len(g))
      BY <3>1, JoinedMap
    <3> QED BY <3>1, <3>2
  <2> QED BY <1>9, <2>2 DEF f, g, Join
<1>13. EnvOnlys(b) \in Seq(Int) /\ EnvOnlys(v) = EnvOnlys(b) \o EnvOnlys(u)
  <2> DEFINE f == EnvOnlys(b)
             g == EnvOnlys(u)
  <2>1. f \in [1 .. l -> Int] /\ g \in [1 .. n -> Int]
    BY <1>4, <1>5
  <2> HIDE DEF f, g
  <2>2. f \in Seq(Int) /\ f \o g = Join(f, g, l, n)
    <3>1. f \in Seq(Int) /\ g \in Seq(Int) /\ Len(f) = l /\ Len(g) = n
      <4>1. l \in Nat /\ n \in Nat
        BY <1>1
      <4> QED BY ONLY <2>1, <4>1
    <3>2. f \o g = Join(f, g, Len(f), Len(g))
      BY <3>1, JoinedMap
    <3> QED BY <3>1, <3>2
  <2> QED BY <1>10, <2>2 DEF f, g, Join
<1>14. Wins(b) \in Seq(BOOLEAN) /\ Wins(v) = Wins(b) \o Wins(u)
  <2> DEFINE f == Wins(b)
             g == Wins(u)
  <2>1. f \in [1 .. l -> BOOLEAN] /\ g \in [1 .. n -> BOOLEAN]
    BY <1>4, <1>5
  <2> HIDE DEF f, g
  <2>2. f \in Seq(BOOLEAN) /\ f \o g = Join(f, g, l, n)
    <3>1. f \in Seq(BOOLEAN) /\ g \in Seq(BOOLEAN) /\ Len(f) = l /\ Len(g) = n
      <4>1. l \in Nat /\ n \in Nat
        BY <1>1
      <4> QED BY ONLY <2>1, <4>1
    <3>2. f \o g = Join(f, g, Len(f), Len(g))
      BY <3>1, JoinedMap
    <3> QED BY <3>1, <3>2
  <2> QED BY <1>11, <2>2 DEF f, g, Join
<1> QED BY <1>12, <1>13, <1>14 DEF v

-----------------------------------------------------------------------------
(* The steps.                                                              *)

LEMMA DynamicInitInv == DynamicInit => DynamicInv
<1> SUFFICES ASSUME DynamicInit PROVE DynamicInv
  OBVIOUS
<1> USE DEF DynamicInit
<1>1. Sampled
  <2>1. (CHOOSE t \in Tasks : TRUE) \in Tasks
    BY DynamicAssumption
  <2> QED BY <2>1, DynamicNumbers DEF Sampled
<1>2. lists.batch = <<>> /\ lists.rewards = <<>> /\ lists.envRewards = <<>> /\ rates = <<>>
  OBVIOUS
<1>3. Listed
  <2>1. Totals(<<>>) = <<>> /\ EnvOnlys(<<>>) = <<>> /\ Wins(<<>>) = <<>>
    BY DEF Totals, EnvOnlys, Wins
  <2>2. AllRates = <<>>
    BY DEF AllRates
  <2>3. FlattenSeq(AllRates) = <<>>
    BY <2>2 DEF FlattenSeq
  <2> QED BY <1>2, <2>1, <2>3 DEF Listed
<1>4. Grouped
  BY <1>2 DEF Grouped, GroupsWhole, Differing
<1>5. Filled
  BY <1>2, DynamicNumbers DEF Filled
<1> QED BY <1>1, <1>3, <1>4, <1>5 DEF DynamicInv

\* What depends on the lists alone.
LEMMA ListedKept ==
  ASSUME Listed, UNCHANGED <<lists, rates>>
  PROVE  Listed'
BY DEF Listed, AllRates, Totals, EnvOnlys, Wins, Total, EnvTotal

LEMMA SampleInv == DynamicInv /\ Sample => DynamicInv'
<1> SUFFICES ASSUME DynamicInv, Sample PROVE DynamicInv'
  OBVIOUS
<1> USE DEF DynamicInv
<1>1. stage = "sample" /\ stage' = "filter" /\ tries' = tries + 1 /\ Len(lists.batch) < Target
      /\ tries < MaxTries /\ lists' = lists /\ rates' = rates
  <2>1. tries \in Nat /\ Len(lists.batch) \in Nat
    BY DynamicNumbers DEF Sampled, Listed
  <2> QED BY <2>1, DynamicNumbers DEF Sample, Enough
<1>2. Sampled'
  <2>1. PICK won \in [Slots -> BOOLEAN], intr \in [Slots -> IntrinsicSums] :
          episodes' = [k \in Slots |-> [uid |-> TryUid(k), slot |-> k, won |-> won[k], intr |-> intr[k]]]
    BY DEF Sample
  <2>2. ASSUME NEW k \in Slots
        PROVE  episodes'[k] \in Episode /\ episodes'[k].uid = <<tries', Group(k)>>
               /\ episodes'[k].slot = k
    <3>1. Group(k) \in Int /\ tries + 1 \in Nat
      <4>1. Group(k) \in Nat
        BY GroupIs
      <4>2. tries + 1 \in Nat
        BY DynamicNumbers DEF Sampled
      <4> QED BY <4>1, <4>2
    <3> QED BY <1>1, <2>1, <3>1 DEF TryUid, Episode
  <2>3. episodes' \in [Slots -> Episode]
    <3>1. episodes' = [k \in Slots |-> episodes'[k]]
      BY <2>1
    <3> QED BY <2>2, <3>1
  <2>4. task' \in [0 .. Prompts - 1 -> Tasks]
    BY DEF Sample
  <2>5. tries' \in 0 .. MaxTries /\ tries' >= 1
    BY <1>1, DynamicNumbers DEF Sampled
  <2> QED BY <1>1, <2>2, <2>3, <2>4, <2>5 DEF Sampled
<1>3. Listed'
  BY <1>1, ListedKept
<1>4. Grouped'
  <2>1. \A k \in DOMAIN lists.batch :
          lists.batch[k].uid[1] < tries + 1 /\ lists.batch[k].uid[1] <= tries + 1
    <3>1. \A k \in DOMAIN lists.batch : lists.batch[k] \in Episode
      BY DEF Listed
    <3>2. \A k \in DOMAIN lists.batch : lists.batch[k].uid[1] \in Nat
      BY <3>1, EpisodeIs
    <3> QED BY <3>2, DynamicNumbers DEF Grouped, Sampled
  <2>3. GroupsWhole(lists.batch)' /\ Differing(lists.batch)'
    BY <1>1 DEF Grouped, GroupsWhole, Differing, First, Total
  <2> QED BY <1>1, <2>1, <2>3 DEF Grouped
<1>5. Filled'
  BY <1>1, DynamicNumbers DEF Filled
<1> QED BY <1>2, <1>3, <1>4, <1>5

LEMMA FilterInv == DynamicInv /\ Filter => DynamicInv'
<1> SUFFICES ASSUME DynamicInv, Filter PROVE DynamicInv'
  OBVIOUS
<1> DEFINE b == lists.batch
<1>1. Sampled /\ Listed /\ Grouped /\ Filled
  BY DEF DynamicInv
<1>2. stage = "filter" /\ stage' = "sample" /\ tries' = tries /\ task' = task
  BY DEF Filter
<1>3. Sampled'
  BY <1>1, <1>2 DEF Sampled
<1>4. b \in Seq(Episode) /\ Added \in Seq(Episode) /\ Len(Added) = Cardinality(Chosen)
  BY <1>1, <1>2, AddedIs DEF Listed
<1>5. lists' = [batch |-> b \o Added, rewards |-> lists.rewards \o Totals(Added),
                envRewards |-> lists.envRewards \o EnvOnlys(Added)]
  <2>1. lists' = [x \in DOMAIN lists |-> lists[x] \o Filtered[x]]
    BY DEF Filter
  <2>2. DOMAIN lists = {"batch", "rewards", "envRewards"}
    BY <1>1 DEF Listed
  <2>3. /\ Filtered["batch"] = Added /\ Filtered["rewards"] = Totals(Added)
        /\ Filtered["envRewards"] = EnvOnlys(Added)
    BY FilteredIs
  <2> HIDE DEF b
  <2>4. lists' = [x \in {"batch", "rewards", "envRewards"} |-> lists[x] \o Filtered[x]]
    BY <2>1, <2>2
  <2> QED BY <2>3, <2>4 DEF b
<1>6. lists'.batch = b \o Added
  BY <1>5
<1> DEFINE v == lists'.batch
<1>7. Listed'
  <2>1. Totals(v) = Totals(b) \o Totals(Added) /\ EnvOnlys(v) = EnvOnlys(b) \o EnvOnlys(Added)
        /\ Wins(v) = Wins(b) \o Wins(Added) /\ Wins(Added) \in Seq(BOOLEAN)
        /\ Totals(v) \in Seq(Int) /\ EnvOnlys(v) \in Seq(Int) /\ v \in Seq(Episode)
    <3>1. v \in Seq(Episode)
      BY <1>4, <1>6, Joined
    <3> HIDE DEF b, v
    <3>2. Totals(v) = Totals(b) \o Totals(Added) /\ EnvOnlys(v) = EnvOnlys(b) \o EnvOnlys(Added)
          /\ Wins(v) = Wins(b) \o Wins(Added)
      <4>1. v = b \o Added
        BY <1>6 DEF v
      <4> QED BY <1>4, <4>1, MapsJoined
    <3>3. Wins(Added) \in Seq(BOOLEAN)
      BY <1>4, MapsJoined
    <3>4. Totals(v) \in Seq(Int) /\ EnvOnlys(v) \in Seq(Int)
      BY <3>1, MapsJoined
    <3> QED BY <3>1, <3>2, <3>3, <3>4
  <2>2. lists'.rewards = Totals(v) /\ lists'.envRewards = EnvOnlys(v)
    BY <1>1, <1>5, <2>1 DEF Listed
  <2>3. lists' \in [batch : Seq(Episode), rewards : Seq(Int), envRewards : Seq(Int)]
    <3>1. lists' = [batch |-> v, rewards |-> Totals(v), envRewards |-> EnvOnlys(v)]
      BY <1>5, <2>2
    <3> HIDE DEF v
    <3> QED BY <2>1, <3>1
  <2>4. rates' = Append(rates, KeptRates) /\ rates \in Seq(RatesOfTry)
    BY <1>1 DEF Filter, Listed
  <2>5. KeptRates \in RatesOfTry /\ "all" \in DOMAIN KeptRates /\ KeptRates["all"] = Wins(Added)
    BY <1>1, <1>2, RatesAre
  <2>6. rates' \in Seq(RatesOfTry) /\ \A n \in DOMAIN rates' : "all" \in DOMAIN rates'[n]
    BY <1>1, <2>4, <2>5 DEF Listed
  <2>7. AllRates \in Seq(Seq(BOOLEAN))
    <3>1. ASSUME NEW n \in 1 .. Len(rates) PROVE rates[n]["all"] \in Seq(BOOLEAN)
      <4>1. rates[n] \in RatesOfTry /\ "all" \in DOMAIN rates[n]
        BY <1>1 DEF Listed
      <4> QED BY <4>1 DEF RatesOfTry
    <3>2. AllRates \in [1 .. Len(rates) -> Seq(BOOLEAN)] /\ Len(rates) \in Nat
      BY <2>4, <3>1 DEF AllRates
    <3> QED BY <3>2
  <2>8. AllRates' = Append(AllRates, Wins(Added))
    <3>1. /\ Len(rates) \in Nat /\ DOMAIN rates = 1 .. Len(rates)
          /\ DOMAIN rates' = 1 .. Len(rates) + 1
          /\ \A n \in 1 .. Len(rates) : rates'[n] = rates[n]
          /\ rates'[Len(rates) + 1] = KeptRates
      BY <2>4
    <3> DEFINE m == Len(rates)
    <3>2. AllRates' = [n \in 1 .. m + 1 |-> rates'[n]["all"]]
      BY <3>1 DEF AllRates
    <3>3. AllRates = [n \in 1 .. m |-> rates[n]["all"]]
      BY <3>1 DEF AllRates
    <3>4. Append(AllRates, Wins(Added))
            = [n \in 1 .. m + 1 |-> IF n = m + 1 THEN Wins(Added) ELSE AllRates[n]]
      <4> DEFINE c == Append(AllRates, Wins(Added))
      <4>1. Len(AllRates) = m
        BY <3>1, <3>3
      <4>2. c \in Seq(Seq(BOOLEAN)) /\ Len(c) = m + 1 /\ c[m + 1] = Wins(Added)
            /\ \A n \in 1 .. m : c[n] = AllRates[n]
        BY <2>1, <2>7, <4>1
      <4> HIDE DEF c, m
      <4>3. c = [n \in 1 .. m + 1 |-> c[n]]
        <5>1. c \in [1 .. Len(c) -> Seq(BOOLEAN)]
          BY <4>2
        <5> QED BY <4>2, <5>1
      <4>4. \A n \in 1 .. m + 1 : n # m + 1 => n \in 1 .. m
        BY <3>1 DEF m
      <4>5. \A n \in 1 .. m + 1 : c[n] = IF n = m + 1 THEN Wins(Added) ELSE AllRates[n]
        BY <4>2, <4>4
      <4> QED BY <4>3, <4>5 DEF c
    <3> HIDE DEF m
    <3>5. \A n \in 1 .. m + 1 : n # m + 1 => n \in 1 .. m
      BY <3>1 DEF m
    <3>6. \A n \in 1 .. m + 1 :
            rates'[n]["all"] = IF n = m + 1 THEN Wins(Added) ELSE AllRates[n]
      <4>1. ASSUME NEW n \in 1 .. m + 1
            PROVE  rates'[n]["all"] = IF n = m + 1 THEN Wins(Added) ELSE AllRates[n]
        <5>1. CASE n = m + 1
          <6>1. rates'[n] = KeptRates
            BY <3>1, <5>1 DEF m
          <6> QED BY <2>5, <5>1, <6>1
        <5>2. CASE n # m + 1
          <6>1. n \in 1 .. m
            BY <3>5, <5>2
          <6>2. rates'[n] = rates[n]
            BY <3>1, <6>1 DEF m
          <6>3. AllRates[n] = rates[n]["all"]
            BY <3>3, <6>1
          <6> QED BY <5>2, <6>2, <6>3
        <5> QED BY <5>1, <5>2
      <4> QED BY <4>1
    <3> QED BY <3>2, <3>4, <3>6
  <2>9. FlattenSeq(AllRates') = Wins(b) \o Wins(Added)
    <3>1. FlattenSeq(Append(AllRates, Wins(Added))) = FlattenSeq(AllRates) \o Wins(Added)
      BY <2>1, <2>7, FlattenAppend
    <3>2. FlattenSeq(AllRates) = Wins(b)
      BY <1>1 DEF Listed
    <3> QED BY <2>8, <3>1, <3>2
  <2>10. FlattenSeq(AllRates)' = Wins(lists.batch)'
    <3>1. FlattenSeq(AllRates') = Wins(v)
      BY <2>1, <2>9
    <3> QED BY <3>1
  <2>11. /\ Totals(lists.batch)' = Totals(v) /\ EnvOnlys(lists.batch)' = EnvOnlys(v)
    OBVIOUS
  <2> HIDE DEF v
  <2> QED BY <2>2, <2>3, <2>6, <2>10, <2>11 DEF Listed
<1>8. Grouped'
  <2>1. \A k \in DOMAIN b : b[k].uid[1] < tries
    BY <1>1, <1>2 DEF Grouped
  <2>2. \A k \in DOMAIN Added : Added[k].uid[1] = tries
    BY <1>1, <1>2, <1>4, AddedIs
  <2>3. tries \in Nat
    BY <1>1, DynamicNumbers DEF Sampled
  <2>4. \A k \in DOMAIN b, m \in DOMAIN Added : b[k].uid # Added[m].uid
    BY <2>1, <2>2, <2>3
  <2>5. GroupsWhole(v)
    BY <1>1, <1>2, <1>4, <1>6, <2>4, AddedWhole, WholeJoined DEF Grouped
  <2>6. Differing(v)
    BY <1>1, <1>2, <1>4, <1>6, AddedDiffers, DifferingJoined DEF Grouped
  <2>7. ASSUME NEW k \in DOMAIN v PROVE v[k].uid[1] <= tries
    <3>1. CASE k \in DOMAIN b
      <4>1. v[k] = b[k] /\ b[k] \in Episode
        BY <1>4, <1>6, <3>1
      <4>2. b[k].uid[1] \in Nat
        BY <4>1, EpisodeIs
      <4> QED BY <2>1, <2>3, <3>1, <4>1, <4>2
    <3>2. CASE k - Len(b) \in DOMAIN Added /\ k = Len(b) + (k - Len(b))
      <4>1. v[k] = Added[k - Len(b)]
        BY <1>4, <1>6, <3>2, Joined
      <4> QED BY <2>2, <2>3, <3>2, <4>1
    <3> QED BY <1>4, <1>6, <3>1, <3>2, Joined
  <2>8. GroupsWhole(lists.batch)' /\ Differing(lists.batch)'
    BY <2>5, <2>6
  <2> QED BY <1>2, <2>7, <2>8 DEF Grouped
<1>9. Filled'
  <2>1. Len(v) = Len(b) + Cardinality(Chosen) /\ Len(b) \in Nat
    <3> HIDE DEF b
    <3>1. Len(b \o Added) = Len(b) + Len(Added) /\ Len(b) \in Nat
      BY <1>4
    <3> QED BY <1>4, <1>6, <3>1
  <2>2. Cardinality(Chosen) \in Nat /\ Cardinality(Chosen) <= Target
    BY KeptIs
  <2>3. tries = MaxTries => Cardinality(Chosen) = Target
    BY KeptIs, DynamicNumbers DEF LastTry
  <2>4. Len(b) < Target
    BY <1>1, <1>2 DEF Filled
  <2> DEFINE l == Len(b)
             c == Cardinality(Chosen)
  <2>5. l \in Nat /\ c \in Nat /\ c <= Target /\ l < Target /\ Len(lists'.batch) = l + c
        /\ (tries = MaxTries => c = Target) /\ Target \in Nat
    BY <2>1, <2>2, <2>3, <2>4, DynamicNumbers
  <2> HIDE DEF l, c
  <2> QED BY <1>2, <2>5 DEF Filled
<1> QED BY <1>3, <1>7, <1>8, <1>9 DEF DynamicInv

LEMMA FinishInv == DynamicInv /\ (Finish \/ UNCHANGED dynamicVars) => DynamicInv'
<1> SUFFICES ASSUME DynamicInv, Finish \/ UNCHANGED dynamicVars PROVE DynamicInv'
  OBVIOUS
<1> USE DEF DynamicInv
<1>1. /\ tries' = tries /\ task' = task /\ episodes' = episodes /\ lists' = lists /\ rates' = rates
      /\ stage' # "filter" \/ stage' = stage
      /\ stage' = stage \/ (stage' \in {"done", "failed"} /\ Enough /\ stage = "sample")
  BY DEF Finish, dynamicVars
<1>2. Sampled'
  BY <1>1 DEF Sampled
<1>3. Listed'
  BY <1>1, ListedKept
<1>4. Grouped'
  BY <1>1 DEF Grouped, GroupsWhole, Differing, First, Total
<1>5. Filled'
  <2>1. tries >= MaxTries => tries = MaxTries
    BY DynamicNumbers DEF Sampled
  <2> QED BY <1>1, <2>1, DynamicNumbers DEF Filled, Enough, Listed
<1> QED BY <1>2, <1>3, <1>4, <1>5

LEMMA DynamicInvariant == DynamicSpec => []DynamicInv
<1>1. DynamicInv /\ [DynamicNext]_dynamicVars => DynamicInv'
  BY SampleInv, FilterInv, FinishInv DEF DynamicNext
<1> QED BY <1>1, DynamicInitInv, PTL DEF DynamicSpec

\* For any number of prompts, episodes in a group and tries, and whatever the
\* episodes earn: when dynamic_multi_turn_loop returns, the batch is full, and
\* groups that all earned the same are in it only from the last try.
THEOREM TriesFill == DynamicSpec => []TriesFillTheBatch
<1>1. ASSUME DynamicInv PROVE BatchIsFull
  BY <1>1 DEF DynamicInv, Filled, BatchIsFull
<1>2. ASSUME DynamicInv PROVE UniformGroupsAreTheLast
  <2>1. ASSUME NEW k \in DOMAIN lists.batch, lists.batch[k].uid[1] # MaxTries
        PROVE  \E m \in DOMAIN lists.batch :
                 lists.batch[m].uid = lists.batch[k].uid /\ lists.rewards[m] # lists.rewards[k]
    BY <1>2, <2>1 DEF DynamicInv, Grouped, Differing, Listed, Totals
  <2> QED BY <2>1 DEF UniformGroupsAreTheLast
<1> QED BY <1>1, <1>2, DynamicInvariant, PTL DEF TriesFillTheBatch

\* Likewise: the lists that filter_group_data filters one by one keep speaking
\* of the same episode at the same place, and the episodes of a uid stay one
\* whole group, side by side.
THEOREM EpisodesStay == DynamicSpec => []EpisodesStayTogether
<1>1. ASSUME DynamicInv PROVE ListsAgree
  <2>1. /\ lists.rewards = Totals(lists.batch) /\ lists.envRewards = EnvOnlys(lists.batch)
        /\ FlattenSeq(AllRates) = Wins(lists.batch) /\ lists.batch \in Seq(Episode)
        /\ lists.rewards \in Seq(Int) /\ lists.envRewards \in Seq(Int)
    BY <1>1 DEF DynamicInv, Listed
  <2>2. DOMAIN lists.batch = 1 .. Len(lists.batch) /\ Len(lists.batch) \in Nat
    BY <2>1
  <2>3. Len(lists.rewards) = Len(lists.batch) /\ Len(lists.envRewards) = Len(lists.batch)
    BY <2>1, <2>2 DEF Totals, EnvOnlys
  <2>4. \A k \in DOMAIN lists.batch :
          lists.rewards[k] = Total(lists.batch[k]) /\ lists.envRewards[k] = EnvTotal(lists.batch[k])
    BY <2>1 DEF Totals, EnvOnlys
  <2> QED BY <2>1, <2>3, <2>4 DEF ListsAgree, AllRates, Wins
<1>2. ASSUME DynamicInv PROVE GroupsStayWhole
  <2> DEFINE b == lists.batch
  <2>1. GroupsWhole(b)
    BY <1>2 DEF DynamicInv, Grouped
  <2>2. ASSUME NEW k \in DOMAIN b
        PROVE  LET e == b[k]
                   same == {m \in DOMAIN b : b[m].uid = e.uid}
                   first == k - ((e.slot - 1) % GroupSize)
               IN  /\ same = first .. first + GroupSize - 1
                   /\ \A m \in same : b[m].slot - e.slot = m - k
    BY <2>1 DEF GroupsWhole, First
  <2> QED BY <2>2 DEF GroupsStayWhole
<1> QED BY <1>1, <1>2, DynamicInvariant, PTL DEF EpisodesStayTogether
=============================================================================
