----------------------------- MODULE TokenBucket -----------------------------
(***************************************************************************)
(* The rate limiter of the search tool: a TokenBucketWorker, one named Ray *)
(* actor for the whole job, and the SearchExecutionWorker whose threads    *)
(* take a token around every search.                                       *)
(*                                                                         *)
(* acquire runs on one thread of the actor, so a blocked call keeps those  *)
(* behind it waiting.  release is sent without waiting for its answer and  *)
(* runs on up to ten threads.  Both touch the semaphore and then the       *)
(* counter, which no lock protects: += and -= read it in one step and      *)
(* write it in another.                                                    *)
(***************************************************************************)
EXTENDS Integers, Sequences, FiniteSets

CONSTANTS
  Calls,            \* the searches that can be under way
  RateLimit,        \* tokens in the bucket
  NumWorkers,       \* max_concurrency of the execution pool
  ReleaseThreads    \* the threads of the concurrency group "release"

ASSUME BucketAssumption ==
  /\ IsFiniteSet(Calls)
  /\ RateLimit \in Nat \ {0}
  /\ NumWorkers \in Nat \ {0}
  /\ ReleaseThreads # {} /\ "acquire" \notin ReleaseThreads

VARIABLES
  call,        \* call[c]: how far search c has come
  waiting,     \* calls of acquire that have not returned, oldest first
  free,        \* the semaphore
  count,       \* current_count
  sent,        \* release calls under way to the actor
  release,     \* release[t]: how far the release on thread t has come
  seen         \* seen[t]: the counter as thread t has read it

bucket == <<call, waiting, free, count, sent, release, seen>>

\* The searches that have a token.
Holding == {c \in Calls : call[c] \in {"granted", "counting", "searching"}}

\* The threads of the execution pool that are at work.
Busy == Holding \union {c \in Calls : call[c] = "acquiring"}

BucketInit ==
  /\ call = [c \in Calls |-> "idle"]
  /\ waiting = <<>>
  /\ free = RateLimit
  /\ count = 0
  /\ sent = 0
  /\ release = [t \in ReleaseThreads |-> "idle"]
  /\ seen = [t \in ReleaseThreads \union {"acquire"} |-> 0]

\* execution_pool.execute.remote: queued until a thread is free.
Queue(cs) == call' = [c \in Calls |-> IF c \in cs THEN "queued" ELSE call[c]]

PoolIsFull == Cardinality(Busy) >= NumWorkers

\* SearchExecutionWorker.execute: promise the release, ask for a token.
BeginExecute(c) ==
  /\ call[c] = "queued"
  /\ ~ PoolIsFull
  /\ call' = [call EXCEPT ![c] = "acquiring"]
  /\ waiting' = Append(waiting, c)
  /\ UNCHANGED <<free, count, sent, release, seen>>

TokenFree == free > 0

\* TokenBucketWorker.acquire, the semaphore.
TakeToken ==
  /\ waiting # <<>>
  /\ call[Head(waiting)] = "acquiring"
  /\ TokenFree
  /\ free' = free - 1
  /\ call' = [call EXCEPT ![Head(waiting)] = "granted"]
  /\ UNCHANGED <<waiting, count, sent, release, seen>>

\* TokenBucketWorker.acquire reads the counter ...
ReadToCount ==
  /\ waiting # <<>>
  /\ call[Head(waiting)] = "granted"
  /\ seen' = [seen EXCEPT !["acquire"] = count]
  /\ call' = [call EXCEPT ![Head(waiting)] = "counting"]
  /\ UNCHANGED <<waiting, free, count, sent, release>>

\* ... writes it, whatever it is by now, and returns: the search runs.
CountToken ==
  /\ waiting # <<>>
  /\ call[Head(waiting)] = "counting"
  /\ count' = seen["acquire"] + 1
  /\ seen' = [seen EXCEPT !["acquire"] = 0]
  /\ call' = [call EXCEPT ![Head(waiting)] = "searching"]
  /\ waiting' = Tail(waiting)
  /\ UNCHANGED <<free, sent, release>>

\* Mutant: the release is registered after the search, so that a search
\* that raises gives no token back.
BugReturned(raised) == IF raised THEN 0 ELSE 1

\* Mutant: a search that raises gives its token back in the handler too.
BugReturnedTwice(raised) == IF raised THEN 2 ELSE 1

\* Tokens that leaving the ExitStack gives back, whatever the search did.
Returned(raised) == 1

\* The search returns or raises; execute logs an exception and returns None.
EndExecute(c) ==
  /\ call[c] = "searching"
  /\ \E raised \in BOOLEAN :
       /\ call' = [call EXCEPT ![c] = IF raised THEN "none" ELSE "found"]
       /\ sent' = sent + Returned(raised)
  /\ UNCHANGED <<waiting, free, count, release, seen>>

\* TokenBucketWorker.release, the semaphore.
PutToken(t) ==
  /\ sent > 0
  /\ release[t] = "idle"
  /\ sent' = sent - 1
  /\ release' = [release EXCEPT ![t] = "put"]
  /\ free' = free + 1
  /\ UNCHANGED <<call, waiting, count, seen>>

\* TokenBucketWorker.release reads the counter ...
ReadToUncount(t) ==
  /\ release[t] = "put"
  /\ release' = [release EXCEPT ![t] = "read"]
  /\ seen' = [seen EXCEPT ![t] = count]
  /\ UNCHANGED <<call, waiting, free, count, sent>>

\* ... and writes it.
UncountToken(t) ==
  /\ release[t] = "read"
  /\ release' = [release EXCEPT ![t] = "idle"]
  /\ count' = seen[t] - 1
  /\ seen' = [seen EXCEPT ![t] = 0]
  /\ UNCHANGED <<call, waiting, free, sent>>

\* The caller submits searches at a time and takes the answers of finished
\* ones; a call that needed no search is idle throughout.
Collect(cs) == call' = [c \in Calls |-> IF c \in cs THEN "idle" ELSE call[c]]
Answered(c) == call[c] \in {"idle", "found", "none"}

Submit(cs) ==
  /\ \A c \in cs : call[c] = "idle"
  /\ Queue(cs)
  /\ UNCHANGED <<waiting, free, count, sent, release, seen>>
Take(cs) ==
  /\ \A c \in cs : Answered(c)
  /\ Collect(cs)
  /\ UNCHANGED <<waiting, free, count, sent, release, seen>>

Work ==
  \/ \E c \in Calls : BeginExecute(c) \/ EndExecute(c)
  \/ TakeToken \/ ReadToCount \/ CountToken
  \/ \E t \in ReleaseThreads :
       PutToken(t) \/ ReadToUncount(t) \/ UncountToken(t)

BucketNext == Work \/ \E cs \in SUBSET Calls : Submit(cs) \/ Take(cs)

BucketSpec == BucketInit /\ [][BucketNext]_bucket

-----------------------------------------------------------------------------

BucketTypeOK ==
  /\ call \in [Calls -> {"idle", "queued", "acquiring", "granted", "counting",
                         "searching", "found", "none"}]
  /\ waiting \in Seq(Calls)
  /\ free \in 0 .. RateLimit
  /\ sent \in Nat
  /\ release \in [ReleaseThreads -> {"idle", "put", "read"}]
  /\ count \in Int
  /\ seen \in [ReleaseThreads \union {"acquire"} -> Int]

\* No token is lost and none is made: those in the bucket, those held and
\* those on their way back are always RateLimit, so that no more than
\* RateLimit searches run at once, and in the end all come back.  Of
\* current_count nothing is promised: an update may be lost to another.
TokensAreConserved == free + Cardinality(Holding) + sent = RateLimit

\* The searches that run.
Searching == {c \in Calls : call[c] = "searching"}
=============================================================================
