------------------------- MODULE TrainBatchProofs -------------------------
(***************************************************************************)
(* For any number of trajectories, of any lengths, grouped in any way by   *)
(* prompt: however the batch was padded and dealt out to the ranks, every  *)
(* step is trained on once or twice, returns follow time where they are    *)
(* said to, and the advantages of a prompt are relative to one another.    *)
(***************************************************************************)
EXTENDS TrainBatch, ProofLemmas

-----------------------------------------------------------------------------
(* Discounted sums.                                                        *)

LEMMA DiscountIs ==
  /\ Discount \in [Nat -> Int]
  /\ Discount[0] = 1
  /\ \A n \in Nat : Discount[n + 1] = Gamma * Discount[n]
<1> DEFINE F == [x \in Int \X Nat |-> Gamma * x[1]]
           One(g, n) == IF n = 0 THEN 1 ELSE Gamma * g[n - 1]
           Good(g) == g = [n \in Nat |-> One(g, n)]
<1>1. \A a \in Int, n \in Nat : F[<<a, n>>] = Gamma * a /\ F[<<a, n>>] \in Int
  <2> TAKE a \in Int, n \in Nat
  <2>1. <<a, n>> \in Int \X Nat /\ <<a, n>>[1] = a /\ Gamma \in Int
    BY TrainBatchAssumption
  <2> QED BY <2>1
<1> HIDE DEF F
<1>2. PICK g : IteratesForever(g, Int, 1, F)
  <2>1. 1 \in Int
    OBVIOUS
  <2>2. ClosedForever(Int, F)
    BY <1>1 DEF ClosedForever
  <2> QED BY <2>1, <2>2, IteratedForever
<1>3. ASSUME NEW n \in Nat PROVE g[n] = One(g, n)
  <2>1. CASE n = 0
    BY <1>2, <2>1 DEF IteratesForever
  <2>2. CASE n # 0
    <3>1. n - 1 \in Nat /\ (n - 1) + 1 = n
      BY <2>2
    <3>2. g[n] = F[<<g[n - 1], n>>] /\ g[n - 1] \in Int
      BY <1>2, <3>1 DEF IteratesForever
    <3> QED BY <1>1, <2>2, <3>2
  <2> QED BY <2>1, <2>2
<1>4. Good(g)
  <2> DEFINE w == [n \in Nat |-> One(g, n)]
  <2>1. \A n \in Nat : g[n] = w[n]
    BY <1>3
  <2>2. g = [n \in Nat |-> g[n]] /\ w = [n \in Nat |-> w[n]]
    BY <1>2 DEF IteratesForever
  <2> HIDE DEF w
  <2>3. g = w
    BY <2>1, <2>2
  <2> QED BY <2>3 DEF w
<1>5. Good(Discount)
  <2>1. Discount = CHOOSE h : Good(h)
    BY DEF Discount
  <2> HIDE DEF Good
  <2> QED BY <1>4, <2>1
<1>6. Discount[0] = 1 /\ \A n \in Nat \ {0} : Discount[n] = Gamma * Discount[n - 1]
  BY <1>5
<1>7. ASSUME NEW n \in Nat PROVE Discount[n + 1] = Gamma * Discount[n]
  <2>1. n + 1 \in Nat \ {0} /\ (n + 1) - 1 = n
    OBVIOUS
  <2> QED BY <1>6, <2>1
<1>8. Discount \in [Nat -> Int]
  <2> DEFINE T == {n \in Nat : Discount[n] \in Int}
  <2>1. 0 \in T
    BY <1>6
  <2>2. ASSUME NEW n \in Nat, n \in T PROVE n + 1 \in T
    <3>1. Discount[n] \in Int /\ Gamma \in Int /\ n + 1 \in Nat
      BY <2>2, TrainBatchAssumption
    <3>2. Gamma * Discount[n] \in Int
      BY <3>1
    <3> QED BY <1>7, <3>1, <3>2
  <2>3. ASSUME NEW n \in Nat PROVE n \in T
    <3>1. \A k \in 1 .. n : k - 1 \in T => k \in T
      <4> TAKE k \in 1 .. n
      <4>1. k - 1 \in Nat /\ (k - 1) + 1 = k
        OBVIOUS
      <4> HIDE DEF T
      <4> QED BY <2>2, <4>1
    <3>2. \A k \in 0 .. n : k \in T
      <4> HIDE DEF T
      <4> QED BY <2>1, <3>1, Induct
    <3> HIDE DEF T
    <3> QED BY <3>2
  <2>4. \A n \in Nat : Discount[n] \in Int
    BY <2>3
  <2>5. Discount = [n \in Nat |-> Discount[n]]
    <3>1. DOMAIN Discount = Nat
      <4> HIDE DEF One
      <4> QED BY <1>5
    <3>2. Discount = [n \in DOMAIN Discount |-> Discount[n]]
      <4> HIDE DEF One
      <4> QED BY <1>5
    <3> QED BY <3>1, <3>2
  <2> QED BY <2>4, <2>5
<1> QED BY <1>6, <1>7, <1>8

\* FromStep by one step.
LEMMA FromStepIs ==
  ASSUME NEW v \in Seq(Int)
  PROVE  /\ FromStep(v, Len(v) + 1) = 0
         /\ \A t \in 1 .. Len(v) :
              /\ FromStep(v, t) \in Int
              /\ FromStep(v, t) = v[t] + Gamma * FromStep(v, t + 1)
<1> DEFINE n == Len(v)
           Term(t) == [k \in t .. n |-> Discount[k - t] * v[k]]
<1>1. n \in Nat /\ \A k \in 1 .. n : v[k] \in Int
  OBVIOUS
<1>2. \A t \in 1 .. n + 1 : FromStep(v, t) = SumFunctionOnSet(Term(t), t .. n)
  BY DEF FromStep, SumFunction
<1> HIDE DEF n
<1>3. ASSUME NEW t \in 1 .. n + 1
      PROVE  /\ IsFiniteSet(t .. n)
             /\ \A k \in t .. n : /\ k \in 1 .. n /\ k - t \in Nat
                                  /\ Term(t)[k] = Discount[k - t] * v[k]
                                  /\ Term(t)[k] \in Int
  <2>1. IsFiniteSet(t .. n)
    BY <1>1, FS_Interval
  <2>2. ASSUME NEW k \in t .. n
        PROVE  /\ k \in 1 .. n /\ k - t \in Nat
               /\ Term(t)[k] = Discount[k - t] * v[k] /\ Term(t)[k] \in Int
    <3>1. k \in 1 .. n /\ k - t \in Nat /\ Term(t)[k] = Discount[k - t] * v[k]
      BY <1>1
    <3>2. Discount[k - t] \in Int /\ v[k] \in Int
      BY <1>1, <3>1, DiscountIs
    <3> QED BY <3>1, <3>2
  <2> QED BY <2>1, <2>2
<1> HIDE DEF Term
<1>4. FromStep(v, n + 1) = 0
  <2>1. n + 1 \in 1 .. n + 1 /\ (n + 1) .. n = {}
    BY <1>1
  <2> QED BY <1>2, <2>1, SumEmpty
<1>5. ASSUME NEW t \in 1 .. n + 1 PROVE FromStep(v, t) \in Int
  <2>1. IsFiniteSet(t .. n) /\ \A k \in t .. n : Term(t)[k] \in Int
    BY <1>3
  <2>2. SumFunctionOnSet(Term(t), t .. n) \in Int
    BY <2>1, SumInt
  <2> QED BY <1>2, <2>2
<1>6. ASSUME NEW t \in 1 .. n PROVE FromStep(v, t) = v[t] + Gamma * FromStep(v, t + 1)
  <2>1. t \in 1 .. n + 1 /\ t + 1 \in 1 .. n + 1 /\ t \in t .. n
        /\ (t .. n) \ {t} = (t + 1) .. n
    BY <1>1
  <2>2. FromStep(v, t) = Term(t)[t] + SumFunctionOnSet(Term(t), (t + 1) .. n)
    <3>1. SumFunctionOnSet(Term(t), t .. n)
            = Term(t)[t] + SumFunctionOnSet(Term(t), (t .. n) \ {t})
      <4>1. IsFiniteSet(t .. n) /\ \A k \in t .. n : Term(t)[k] \in Int
        BY <1>3, <2>1
      <4> QED BY <2>1, <4>1, SumOut
    <3> QED BY <1>2, <2>1, <3>1
  <2>3. Term(t)[t] = v[t]
    <3>1. Term(t)[t] = Discount[t - t] * v[t] /\ v[t] \in Int
      BY <1>1, <1>3, <2>1
    <3>2. t - t = 0
      OBVIOUS
    <3>3. Discount[t - t] = 1
      BY <3>2, DiscountIs
    <3> QED BY <3>1, <3>3
  <2>4. ASSUME NEW k \in (t + 1) .. n PROVE Term(t)[k] = Gamma * Term(t + 1)[k] - 0
    <3>1. k \in t .. n /\ k - (t + 1) \in Nat /\ k - t = (k - (t + 1)) + 1
      BY <2>1
    <3>2. Term(t)[k] = Discount[k - t] * v[k]
          /\ Term(t + 1)[k] = Discount[k - (t + 1)] * v[k] /\ v[k] \in Int
      BY <1>1, <1>3, <2>1, <3>1
    <3>3. Discount[k - t] = Gamma * Discount[k - (t + 1)]
          /\ Discount[k - (t + 1)] \in Int
      BY <3>1, DiscountIs
    <3> DEFINE d == Discount[k - (t + 1)]
               w == v[k]
    <3>4. Term(t)[k] = (Gamma * d) * w /\ Term(t + 1)[k] = d * w
          /\ d \in Int /\ w \in Int /\ Gamma \in Int
      BY <3>2, <3>3, TrainBatchAssumption
    <3> HIDE DEF d, w
    <3>5. (Gamma * d) * w = Gamma * (d * w) - 0
      BY <3>4
    <3> QED BY <3>4, <3>5
  <2>5. SumFunctionOnSet(Term(t), (t + 1) .. n)
          = Gamma * SumFunctionOnSet(Term(t + 1), (t + 1) .. n)
            - Cardinality((t + 1) .. n) * 0
    <3>1. Gamma \in Int /\ 0 \in Int
      BY TrainBatchAssumption
    <3>2. IsFiniteSet((t + 1) .. n) /\ \A k \in (t + 1) .. n : Term(t + 1)[k] \in Int
      BY <1>3, <2>1
    <3> QED BY <2>4, <3>1, <3>2, SumLinear
  <2>6. Cardinality((t + 1) .. n) \in Nat
    BY <1>3, <2>1, FS_CardinalityType
  <2> DEFINE rest == FromStep(v, t + 1)
  <2>7. SumFunctionOnSet(Term(t + 1), (t + 1) .. n) = rest /\ rest \in Int
    BY <1>2, <1>5, <2>1
  <2>8. Gamma * rest \in Int
    BY <2>7, TrainBatchAssumption
  <2> HIDE DEF rest
  <2>9. SumFunctionOnSet(Term(t), (t + 1) .. n) = Gamma * rest
    BY <2>5, <2>6, <2>7, <2>8
  <2> QED BY <2>2, <2>3, <2>9 DEF rest
<1>7. \A t \in 1 .. n : t \in 1 .. n + 1
  BY <1>1
<1> QED BY <1>4, <1>5, <1>6, <1>7 DEF n

\* The returns of a sequence are the discounted sums of what is to come.
LEMMA ReturnsAre ==
  ASSUME NEW v \in Seq(Int), NEW t \in 1 .. Len(v)
  PROVE  Returns(v)[t] = FromStep(v, t)
<1> DEFINE n == Len(v)
           One(g, k) == IF k = 0 THEN 0 ELSE v[n + 1 - k] + Gamma * g[k - 1]
           Good(g) == g = [k \in 0 .. n |-> One(g, k)]
           h == [k \in 0 .. n |-> FromStep(v, n + 1 - k)]
           g == CHOOSE g : Good(g)
<1>1. n \in Nat /\ DOMAIN v = 1 .. n /\ Gamma \in Int
  BY TrainBatchAssumption
<1>2. ASSUME NEW k \in 0 .. n PROVE h[k] = One(h, k)
  <2>1. CASE k = 0
    <3>1. n + 1 - k = n + 1
      BY <1>1, <2>1
    <3> QED BY <2>1, <3>1, FromStepIs
  <2>2. CASE k # 0
    <3>1. n + 1 - k \in 1 .. n /\ (n + 1 - k) + 1 = n + 1 - (k - 1) /\ k - 1 \in 0 .. n
      BY <1>1, <2>2
    <3>2. h[k] = FromStep(v, n + 1 - k) /\ h[k - 1] = FromStep(v, n + 1 - (k - 1))
      BY <3>1
    <3>3. FromStep(v, n + 1 - k) = v[n + 1 - k] + Gamma * FromStep(v, (n + 1 - k) + 1)
      BY <3>1, FromStepIs
    <3> HIDE DEF h, n
    <3> QED BY <2>2, <3>1, <3>2, <3>3
  <2> QED BY <2>1, <2>2
<1>3. Good(h)
  <2> DEFINE w == [k \in 0 .. n |-> One(h, k)]
  <2>1. \A k \in 0 .. n : h[k] = w[k]
    BY <1>2
  <2>2. h = [k \in 0 .. n |-> h[k]] /\ w = [k \in 0 .. n |-> w[k]]
    OBVIOUS
  <2> HIDE DEF w, h
  <2>3. h = w
    BY <2>1, <2>2
  <2> QED BY <2>3 DEF w
<1>4. Good(g)
  <2> HIDE DEF Good, h
  <2> QED BY <1>3
<1>5. Returns(v)[t] = g[n + 1 - t]
  BY <1>1 DEF Returns
<1> HIDE DEF g, n
<1>6. \A k \in 0 .. n : g[k] = One(g, k)
  BY <1>4
<1> DEFINE T == {k \in Nat : g[k] = h[k]}
<1>7. 0 \in T
  <2>1. 0 \in 0 .. n
    BY <1>1
  <2> HIDE DEF h
  <2> QED BY <1>2, <1>6, <2>1
<1>8. ASSUME NEW k \in 1 .. n, k - 1 \in T PROVE k \in T
  <2>1. k \in 0 .. n /\ k \in Nat /\ g[k - 1] = h[k - 1]
    BY <1>1, <1>8
  <2>2. One(g, k) = One(h, k)
    BY <2>1
  <2> HIDE DEF h, One
  <2> QED BY <1>2, <1>6, <2>1, <2>2
<1>9. \A k \in 0 .. n : k \in T
  <2> HIDE DEF T
  <2> QED BY <1>1, <1>7, <1>8, Induct
<1>10. n + 1 - t \in 0 .. n /\ n + 1 - (n + 1 - t) = t
  BY <1>1 DEF n
<1>11. g[n + 1 - t] = h[n + 1 - t]
  BY <1>9, <1>10
<1> QED BY <1>5, <1>10, <1>11

-----------------------------------------------------------------------------
(* The rows of a batch.                                                    *)

Frac == [num : Int, den : Int]
RowType == [traj : Trajs, t : Nat \ {0}, stepReward : Int, score : Int,
            task : Frac, step : Frac]
WellFormed == play \in [Trajs -> Plays] /\ batch \in Seq(RowType)
InEpisode == \A p \in DOMAIN batch : batch[p].t \in 1 .. Length(batch[p].traj)

\* What the assumption says of an episode.
LEMMA EpisodeIs ==
  ASSUME play \in [Trajs -> Plays], NEW i \in Trajs
  PROVE  /\ Length(i) \in Nat \ {0}
         /\ play[i].cons \in Seq(Int)
         /\ Rewards(i) \in Seq(Int) /\ Len(Rewards(i)) = Length(i)
         /\ \A t \in 1 .. Length(i) : /\ RCons(i, t) \in Int
                                      /\ Rewards(i)[t] = Reward(i, t)
         /\ EnvReward(i) \in Int
<1>1. play[i] \in Plays
  OBVIOUS
<1>2. play[i].cons \in Seq(Int) /\ play[i].cons # <<>>
  BY <1>1, TrainBatchAssumption
<1>3. Length(i) \in Nat \ {0}
  BY <1>2 DEF Length
<1>4. \A t \in 1 .. Length(i) : RCons(i, t) \in Int
  BY <1>2 DEF Length, RCons
<1>5. EnvReward(i) \in Int
  BY TrainBatchAssumption DEF EnvReward
<1>6. \A t \in 1 .. Length(i) : Reward(i, t) \in Int
  BY <1>4, <1>5 DEF Reward
<1>7. Rewards(i) \in Seq(Int) /\ Len(Rewards(i)) = Length(i)
      /\ \A t \in 1 .. Length(i) : Rewards(i)[t] = Reward(i, t)
  <2> DEFINE n == Length(i)
  <2>1. n \in Nat /\ Rewards(i) = [t \in 1 .. n |-> Reward(i, t)]
    BY <1>3 DEF Rewards
  <2>2. \A t \in 1 .. n : Reward(i, t) \in Int
    BY <1>6
  <2> HIDE DEF n
  <2>3. Rewards(i) \in [1 .. n -> Int] /\ \A t \in 1 .. n : Rewards(i)[t] = Reward(i, t)
    BY <2>1, <2>2
  <2>4. Rewards(i) \in Seq(Int) /\ Len(Rewards(i)) = n
    BY <2>1, <2>3
  <2> QED BY <2>3, <2>4 DEF n
<1> QED BY <1>2, <1>3, <1>4, <1>5, <1>7

LEMMA RowIs ==
  ASSUME WellFormed, NEW p \in DOMAIN batch
  PROVE  /\ batch[p] \in RowType /\ batch[p].traj \in Trajs
         /\ batch[p].score \in Int /\ batch[p].stepReward \in Int
         /\ PenaltyOf(batch[p]) \in Int
         /\ p \in Nat \ {0} /\ p \in Positions(batch[p].traj)
<1>1. batch[p] \in RowType /\ p \in Nat \ {0}
  BY DEF WellFormed
<1>2. PenaltyOf(batch[p]) \in Int
  BY TrainBatchAssumption DEF PenaltyOf
<1>3. p \in Positions(batch[p].traj)
  BY DEF Positions
<1> QED BY <1>1, <1>2, <1>3 DEF RowType

LEMMA PositionsAre ==
  ASSUME WellFormed, NEW i
  PROVE  /\ Positions(i) \in SUBSET DOMAIN batch
         /\ Positions(i) \in SUBSET Int
         /\ IsFiniteSet(Positions(i))
         /\ IsFiniteSet(DOMAIN batch)
<1>1. DOMAIN batch = 1 .. Len(batch) /\ Len(batch) \in Nat
  BY DEF WellFormed
<1>2. IsFiniteSet(DOMAIN batch)
  BY <1>1, FS_Interval
<1>3. Positions(i) \in SUBSET DOMAIN batch
  BY DEF Positions
<1>4. IsFiniteSet(Positions(i))
  BY <1>2, <1>3, FS_Subset
<1> QED BY <1>1, <1>2, <1>3, <1>4

-----------------------------------------------------------------------------
(* Rows in the order of time.                                              *)

\* Every step has a row, and those of a trajectory are in the order of time.
InTime ==
  /\ InEpisode
  /\ \A i \in Trajs : \A t \in 1 .. Length(i) : \E p \in Positions(i) : batch[p].t = t
  /\ \A p, q \in DOMAIN batch :
       batch[p].traj = batch[q].traj /\ p < q => batch[p].t < batch[q].t

\* Then the return at a row is that of its step.
LEMMA ReturnInTime ==
  ASSUME WellFormed, InTime, NEW column, NEW p \in DOMAIN batch,
         NEW v \in Seq(Int), Len(v) = Length(batch[p].traj),
         \A q \in Positions(batch[p].traj) : column[q] = v[batch[q].t]
  PROVE  ReturnAt(column, p) = FromStep(v, batch[p].t)
<1> DEFINE i == batch[p].traj
           S == Positions(i)
           L == Length(i)
           time == [q \in S |-> batch[q].t]
           own == Ordered(S)
           w == [k \in DOMAIN own |-> column[own[k]]]
<1>1. i \in Trajs /\ p \in S
  BY RowIs
<1>2. S \in SUBSET Int /\ IsFiniteSet(S) /\ S \in SUBSET DOMAIN batch
  BY PositionsAre
<1>3. L \in Nat
  BY <1>1, EpisodeIs DEF WellFormed
<1>4. \A q \in S : batch[q].traj = i
  BY DEF Positions
<1>5. time \in [S -> 1 .. L]
  <2>1. \A q \in S : batch[q].t \in 1 .. L
    BY <1>2, <1>4 DEF InTime, InEpisode
  <2> HIDE DEF S, L
  <2> QED BY <2>1
<1>6. \A k \in 1 .. L : \E q \in S : time[q] = k
  BY <1>1 DEF InTime
<1>7. \A q, r \in S : q < r => time[q] < time[r]
  <2>1. \A q, r \in S : q < r => batch[q].t < batch[r].t
    BY <1>2, <1>4 DEF InTime
  <2> HIDE DEF S
  <2> QED BY <2>1
<1> HIDE DEF S, L, time
<1>8. /\ Cardinality(S) = L
      /\ \A q \in S : Below(S, q) = time[q] /\ own[time[q]] = q
  BY <1>2, <1>3, <1>5, <1>6, <1>7, RisingIsOrder
<1>9. DOMAIN own = 1 .. L
  BY <1>8 DEF Ordered
<1>10. ASSUME NEW k \in 1 .. L PROVE w[k] = v[k]
  <2>1. PICK q \in S : time[q] = k
    BY <1>6
  <2>2. own[k] = q /\ batch[q].t = k
    BY <1>8, <2>1 DEF time
  <2>3. column[q] = v[k]
    BY <2>2 DEF S
  <2> QED BY <1>9, <2>2, <2>3
<1>11. w = v
  <2>1. v = [k \in 1 .. L |-> v[k]]
    BY DEF L
  <2>2. w = [k \in 1 .. L |-> w[k]]
    BY <1>9
  <2> HIDE DEF w
  <2> QED BY <1>10, <2>1, <2>2
<1>12. Rank(p) = batch[p].t /\ batch[p].t \in 1 .. Len(v)
  <2>1. Rank(p) = Below(S, p)
    BY DEF Rank, Below, S
  <2>2. Below(S, p) = time[p] /\ time[p] = batch[p].t /\ time[p] \in 1 .. L
    BY <1>1, <1>5, <1>8 DEF time
  <2> QED BY <2>1, <2>2 DEF L
<1>13. ReturnAt(column, p) = Returns(w)[Rank(p)]
  BY DEF ReturnAt, InOrder, S
<1> HIDE DEF w
<1>14. Returns(v)[batch[p].t] = FromStep(v, batch[p].t)
  BY <1>12, ReturnsAre
<1> QED BY <1>11, <1>12, <1>13, <1>14

-----------------------------------------------------------------------------
(* What gather_rollout_data lays out.                                      *)

N == Cardinality(Trajs)
Lengths == [i \in 1 .. N |-> Length(i)]
RowAt(b, p, i, t) == p \in DOMAIN b /\ b[p].traj = i /\ b[p].t = t

\* Trajectory i follows position o[i - 1] of b, step by step.
LaidOut(b, o) ==
  /\ Offsets(o, Lengths, N)
  /\ \A i \in Trajs : \A t \in 1 .. Length(i) : RowAt(b, o[i - 1] + t, i, t)
  /\ \A p \in DOMAIN b : /\ b[p].t \in 1 .. Length(b[p].traj)
                         /\ p = o[b[p].traj - 1] + b[p].t

LEMMA TrajsAre ==
  N \in Nat \ {0} /\ Trajs = 1 .. N
<1>1. IsFiniteSet(Trajs) /\ Trajs = 1 .. N /\ Trajs # {}
  BY TrainBatchAssumption DEF N
<1>2. N \in Nat
  BY <1>1, FS_CardinalityType DEF N
<1> QED BY <1>1, <1>2

LEMMA GatheredIs ==
  ASSUME play \in [Trajs -> Plays]
  PROVE  /\ Gathered \in Seq(RowType)
         /\ \E o : LaidOut(Gathered, o)
<1> DEFINE Mine(i) == [t \in 1 .. Length(i) |-> Row(i, t)]
           s == [i \in Trajs |-> Mine(i)]
<1>1. \A i \in 1 .. N : Length(i) \in Nat \ {0}
  BY EpisodeIs, TrajsAre
<1>2. ASSUME NEW i \in 1 .. N
      PROVE  /\ Mine(i) \in Seq(RowType) /\ Len(Mine(i)) = Length(i)
             /\ \A t \in 1 .. Length(i) : Mine(i)[t] = Row(i, t)
  <2> DEFINE n == Length(i)
  <2>1. n \in Nat
    BY <1>1
  <2>2. \A t \in 1 .. n : Row(i, t) \in RowType
    <3>1. i \in Trajs /\ \A t \in 1 .. n : t \in Nat \ {0}
      BY <2>1, TrajsAre
    <3>2. [num |-> 0, den |-> 1] \in Frac
      BY DEF Frac
    <3> QED BY <3>1, <3>2 DEF Row, RowType
  <2> HIDE DEF n
  <2>3. [t \in 1 .. n |-> Row(i, t)] \in [1 .. n -> RowType]
    BY <2>2
  <2> DEFINE m == [t \in 1 .. n |-> Row(i, t)]
  <2>4. \A t \in 1 .. n : m[t] = Row(i, t)
    OBVIOUS
  <2> HIDE DEF m
  <2>5. m \in Seq(RowType) /\ Len(m) = n
    BY <2>1, <2>3 DEF m
  <2>6. m = Mine(i)
    BY DEF m, n
  <2> HIDE DEF Mine
  <2> QED BY <2>4, <2>5, <2>6 DEF n
<1>3. s \in [1 .. N -> Seq(RowType)] /\ \A i \in 1 .. N : s[i] = Mine(i)
  <2>1. \A i \in 1 .. N : Mine(i) \in Seq(RowType)
    BY <1>2
  <2> HIDE DEF Mine
  <2> QED BY <2>1, TrajsAre
<1>4. Gathered = FlattenSeq(s)
  BY DEF Gathered
<1> HIDE DEF s, Mine
<1>5. [i \in 1 .. N |-> Len(s[i])] = Lengths
  BY <1>2, <1>3 DEF Lengths
<1>6. Lengths \in [1 .. N -> Nat] /\ \A i \in 1 .. N : Lengths[i] = Length(i)
  BY <1>1 DEF Lengths
<1>7. PICK o : Offsets(o, Lengths, N)
  BY <1>6, OffsetsExist, TrajsAre
<1>8. Gathered \in Seq(RowType) /\ PartsOf(Gathered, s, o)
  <2>1. Offsets(o, [i \in 1 .. N |-> Len(s[i])], N)
    BY <1>5, <1>7
  <2>2. N \in Nat
    BY TrajsAre
  <2> QED BY <1>3, <1>4, <2>1, <2>2, Flattened
<1>9. Len(s) = N
  <2> DEFINE R == Seq(RowType)
  <2>1. s \in [1 .. N -> R] /\ N \in Nat
    BY <1>3, TrajsAre
  <2> HIDE DEF R
  <2> QED BY <2>1
<1>10. Len(Gathered) = o[N]
  BY <1>8, <1>9 DEF PartsOf
<1>11. ASSUME NEW i \in 1 .. N, NEW t \in 1 .. Length(i)
       PROVE  o[i - 1] + t \in DOMAIN Gathered /\ Gathered[o[i - 1] + t] = Row(i, t)
  <2>1. Gathered[o[i - 1] + t] = Row(i, t)
    BY <1>2, <1>3, <1>8, <1>9 DEF PartsOf
  <2>2. o[i] <= o[N]
    <3>1. N \in Nat /\ i \in 0 .. N /\ N \in i .. N
      BY TrajsAre
    <3> QED BY <1>6, <1>7, <3>1, OffsetsRise
  <2>3. o[i - 1] \in Nat /\ o[i] = o[i - 1] + Length(i) /\ o[N] \in Nat
    <3>1. i \in 1 .. N /\ i - 1 \in 0 .. N /\ N \in 0 .. N
      BY TrajsAre
    <3> QED BY <1>6, <1>7, <3>1 DEF Offsets
  <2>4. o[i - 1] + t \in 1 .. o[N]
    BY <1>1, <2>2, <2>3
  <2>5. DOMAIN Gathered = 1 .. o[N]
    BY <1>8, <1>10
  <2> QED BY <2>1, <2>4, <2>5
<1>12. ASSUME NEW p \in DOMAIN Gathered
       PROVE  \E i \in 1 .. N : \E t \in 1 .. Length(i) :
                p = o[i - 1] + t /\ Gathered[p] = Row(i, t)
  <2>1. p \in 1 .. o[N] /\ N \in Nat
    BY <1>8, <1>10, TrajsAre
  <2>2. PICK i \in 1 .. N : p - o[i - 1] \in 1 .. Lengths[i]
    BY <1>6, <1>7, <2>1, OffsetsCover
  <2>3. o[i - 1] \in Nat
    <3>1. i - 1 \in 0 .. N
      BY <2>1
    <3> QED BY <1>7, <3>1 DEF Offsets
  <2> DEFINE t == p - o[i - 1]
  <2>4. t \in 1 .. Length(i) /\ p = o[i - 1] + t
    BY <1>6, <2>1, <2>2, <2>3
  <2> HIDE DEF t
  <2>5. Gathered[o[i - 1] + t] = Row(i, t)
    BY <1>11, <2>4
  <2> QED BY <2>4, <2>5
<1>13. LaidOut(Gathered, o)
  <2>1. ASSUME NEW i \in Trajs, NEW t \in 1 .. Length(i)
        PROVE  RowAt(Gathered, o[i - 1] + t, i, t)
    <3> DEFINE q == o[i - 1] + t
    <3>1. i \in 1 .. N
      BY TrajsAre
    <3>2. q \in DOMAIN Gathered /\ Gathered[q] = Row(i, t)
      BY <1>11, <3>1
    <3> HIDE DEF q
    <3>3. Gathered[q].traj = i /\ Gathered[q].t = t
      BY <3>2 DEF Row
    <3>4. RowAt(Gathered, q, i, t)
      BY <3>2, <3>3 DEF RowAt
    <3> QED BY <3>4 DEF q
  <2>2. ASSUME NEW p \in DOMAIN Gathered
        PROVE  /\ Gathered[p].t \in 1 .. Length(Gathered[p].traj)
               /\ p = o[Gathered[p].traj - 1] + Gathered[p].t
    BY <1>12 DEF Row
  <2> QED BY <1>7, <2>1, <2>2 DEF LaidOut
<1> QED BY <1>8, <1>13

\* A batch as it was gathered is in the order of time, each step once.
LEMMA LaidOutIs ==
  ASSUME WellFormed, NEW o, LaidOut(batch, o)
  PROVE  /\ InTime
         /\ \A i \in Trajs : \A t \in 1 .. Length(i) :
              Occurrences(i, t) = {o[i - 1] + t}
<1>1. InEpisode
  BY DEF InEpisode, LaidOut
<1>2. ASSUME NEW i \in Trajs, NEW t \in 1 .. Length(i)
      PROVE  /\ \E p \in Positions(i) : batch[p].t = t
             /\ Occurrences(i, t) = {o[i - 1] + t}
  <2> DEFINE p == o[i - 1] + t
  <2>1. p \in DOMAIN batch /\ batch[p].traj = i /\ batch[p].t = t
    BY DEF LaidOut, RowAt
  <2>2. \A q \in DOMAIN batch : batch[q].traj = i /\ batch[q].t = t => q = p
    BY DEF LaidOut
  <2> HIDE DEF p
  <2>3. p \in Positions(i) /\ Occurrences(i, t) = {p}
    BY <2>1, <2>2 DEF Positions, Occurrences
  <2> QED BY <2>1, <2>3 DEF p
<1>3. ASSUME NEW p \in DOMAIN batch, NEW q \in DOMAIN batch,
             batch[p].traj = batch[q].traj, p < q
      PROVE  batch[p].t < batch[q].t
  <2> DEFINE a == o[batch[p].traj - 1]
  <2>1. p = a + batch[p].t /\ q = a + batch[q].t
    BY <1>3 DEF LaidOut
  <2>2. a \in Nat
    <3>1. batch[p].traj \in 1 .. N
      BY RowIs, TrajsAre
    <3>2. batch[p].traj - 1 \in 0 .. N
      BY <3>1, TrajsAre
    <3> QED BY <3>2 DEF LaidOut, Offsets
  <2>3. batch[p].t \in Nat /\ batch[q].t \in Nat
    BY RowIs DEF RowType
  <2> HIDE DEF a
  <2> QED BY <1>3, <2>1, <2>2, <2>3
<1> QED BY <1>1, <1>2, <1>3 DEF InTime

-----------------------------------------------------------------------------
(* Rows copied and rows dealt out.                                         *)

OccurIn(b, i, t) == {p \in DOMAIN b : b[p].traj = i /\ b[p].t = t}

\* Every row of b is one of the batch.
Among(b) == \A p \in DOMAIN b : \E q \in DOMAIN batch : b[p] = batch[q]

\* What it lacks to the next multiple of the divisor.
LEMMA ToAddIs ==
  ASSUME NEW n \in Nat, NEW d \in Nat \ {0}
  PROVE  /\ (d - (n % d)) % d \in Nat
         /\ (n + ((d - (n % d)) % d)) % d = 0
<1> DEFINE r == n % d
           m == n \div d
<1>1. r \in 0 .. d - 1 /\ m \in Nat /\ n = d * m + r
  BY SMT
<1>2. \A k \in Nat : (d * k) % d = 0
  <2>1. \A k \in Nat : d * k \in Nat
    BY SMT
  <2> QED BY <2>1, SMT
<1>3. \A k \in 1 .. d - 1 : k % d = k
  BY SMT
<1>4. CASE r = 0
  <2>1. d - r = d * 1 /\ d * m = n
    BY <1>1, <1>4
  <2>2. (d - r) % d = 0
    BY <1>2, <2>1
  <2>3. n % d = 0
    BY <1>4
  <2> DEFINE x == (d - r) % d
  <2>4. x = 0
    BY <2>2
  <2> HIDE DEF x, r
  <2>5. n + x = n /\ x \in Nat
    BY <2>4
  <2>6. (n + x) % d = 0
    BY <2>3, <2>5
  <2>7. (d - (n % d)) % d = x
    BY DEF x, r
  <2> QED BY <2>5, <2>6, <2>7
<1>5. CASE r # 0
  <2> HIDE DEF r, m
  <2>1. d - r \in 1 .. d - 1
    BY <1>1, <1>5
  <2>2. (d - r) % d = d - r
    BY <1>3, <2>1
  <2>3. d * (m + 1) = d * m + d /\ m + 1 \in Nat /\ d * m \in Nat
    BY <1>1
  <2>4. n + (d - r) = d * (m + 1)
    BY <1>1, <2>3
  <2>5. (d * (m + 1)) % d = 0
    BY <1>2, <2>3
  <2> QED BY <2>1, <2>2, <2>4, <2>5 DEF r
<1> QED BY <1>4, <1>5

LEMMA PaddedIs ==
  ASSUME WellFormed, NEW k \in Nat, NEW D \in kSubset(k, DOMAIN batch),
         NEW dups \in SetToSeqs(D)
  PROVE  /\ Padded(dups) \in Seq(RowType)
         /\ Len(Padded(dups)) = Len(batch) + k
         /\ Among(Padded(dups))
         /\ \A i, t, p : OccurIn(batch, i, t) = {p} =>
              Cardinality(OccurIn(Padded(dups), i, t)) \in {1, 2}
         /\ k = 0 => Padded(dups) = batch
<1> DEFINE n == Len(batch)
           more == [j \in DOMAIN dups |-> batch[dups[j]]]
           c == Padded(dups)
<1>1. n \in Nat /\ DOMAIN batch = 1 .. n /\ batch \in Seq(RowType)
  BY DEF WellFormed
<1>2. D \in SUBSET DOMAIN batch /\ Cardinality(D) = k
  BY DEF kSubset
<1>3. dups \in [1 .. k -> D] /\ \A i, j \in 1 .. k : i # j => dups[i] # dups[j]
  BY <1>2 DEF SetToSeqs
<1>4. \A j \in 1 .. k : dups[j] \in DOMAIN batch /\ batch[dups[j]] \in RowType
  BY <1>1, <1>2, <1>3
<1>5. more \in Seq(RowType) /\ Len(more) = k /\ \A j \in 1 .. k : more[j] = batch[dups[j]]
  <2>1. DOMAIN dups = 1 .. k
    BY <1>3
  <2>2. more = [j \in 1 .. k |-> batch[dups[j]]]
    BY <2>1
  <2>3. more \in [1 .. k -> RowType]
    BY <1>4, <2>2
  <2> HIDE DEF more
  <2> QED BY <2>2, <2>3
<1> HIDE DEF more
<1>6. c = batch \o more
  BY DEF Padded, more
<1>7. c \in Seq(RowType) /\ Len(c) = n + k
  <2>1. batch \o more \in Seq(RowType) /\ Len(batch \o more) = Len(batch) + Len(more)
    BY <1>1, <1>5
  <2> QED BY <1>5, <1>6, <2>1
<1>8. \A p \in 1 .. n : c[p] = batch[p]
  BY <1>1, <1>5, <1>6
<1>9. \A j \in 1 .. k : c[n + j] = batch[dups[j]]
  BY <1>1, <1>5, <1>6
<1> HIDE DEF c
<1>10. ASSUME NEW p \in DOMAIN c
       PROVE  p \in 1 .. n \/ \E j \in 1 .. k : p = n + j
  <2>1. p \in 1 .. n + k
    BY <1>7
  <2>2. p \in 1 .. n \/ (p - n \in 1 .. k /\ p = n + (p - n))
    BY <1>1, <2>1
  <2> QED BY <2>2
<1>11. Among(c)
  <2> SUFFICES ASSUME NEW p \in DOMAIN c PROVE \E q \in DOMAIN batch : c[p] = batch[q]
    BY DEF Among
  <2>1. CASE p \in 1 .. n
    BY <1>1, <1>8, <2>1
  <2>2. ASSUME NEW j \in 1 .. k, p = n + j PROVE \E q \in DOMAIN batch : c[p] = batch[q]
    BY <1>4, <1>9, <2>2
  <2> QED BY <1>10, <2>1, <2>2
<1>12. ASSUME NEW i, NEW t, NEW p, OccurIn(batch, i, t) = {p}
       PROVE  Cardinality(OccurIn(c, i, t)) \in {1, 2}
  <2> DEFINE copies == {j \in 1 .. k : dups[j] = p}
  <2>1. p \in 1 .. n /\ batch[p].traj = i /\ batch[p].t = t
        /\ \A q \in 1 .. n : batch[q].traj = i /\ batch[q].t = t => q = p
    BY <1>1, <1>12 DEF OccurIn
  <2>2. p \in OccurIn(c, i, t)
    <3>1. p \in DOMAIN c
      BY <1>1, <1>7, <2>1
    <3> QED BY <1>8, <2>1, <3>1 DEF OccurIn
  <2>3. ASSUME NEW q \in OccurIn(c, i, t)
        PROVE  q = p \/ \E j \in copies : q = n + j
    <3>1. q \in DOMAIN c /\ c[q].traj = i /\ c[q].t = t
      BY DEF OccurIn
    <3>2. CASE q \in 1 .. n
      BY <1>8, <2>1, <3>1, <3>2
    <3>3. ASSUME NEW j \in 1 .. k, q = n + j PROVE j \in copies
      <4>1. c[q] = batch[dups[j]] /\ dups[j] \in 1 .. n
        BY <1>1, <1>4, <1>9, <3>3
      <4>2. dups[j] = p
        BY <2>1, <3>1, <4>1
      <4> QED BY <4>2
    <3> QED BY <1>10, <3>1, <3>2, <3>3
  <2>4. ASSUME NEW j \in copies PROVE n + j \in OccurIn(c, i, t) /\ n + j # p
    <3>1. j \in 1 .. k /\ n + j \in 1 .. n + k /\ n + j \notin 1 .. n
      BY <1>1
    <3>2. n + j \in DOMAIN c /\ c[n + j] = batch[p]
      BY <1>7, <1>9, <3>1
    <3> QED BY <2>1, <3>1, <3>2 DEF OccurIn
  <2>5. CASE copies = {}
    <3>1. OccurIn(c, i, t) = {p}
      BY <2>2, <2>3, <2>5
    <3> QED BY <3>1, FS_Singleton
  <2>6. ASSUME NEW j \in copies PROVE Cardinality(OccurIn(c, i, t)) = 2
    <3>1. \A l \in copies : l = j
      BY <1>3
    <3>2. OccurIn(c, i, t) = {p} \cup {n + j}
      BY <2>2, <2>3, <2>4, <3>1
    <3>3. IsFiniteSet({p}) /\ Cardinality({p}) = 1
      BY FS_Singleton
    <3> DEFINE q == n + j
    <3>4. q \notin {p}
      BY <2>4
    <3> HIDE DEF q
    <3> DEFINE V == {p}
    <3>5. IsFiniteSet(V) /\ q \notin V /\ Cardinality(V) = 1
      BY <3>3, <3>4
    <3> HIDE DEF V
    <3>6. Cardinality(V \cup {q}) = Cardinality(V) + 1
      BY <3>5, FS_AddElement
    <3> QED BY <3>2, <3>5, <3>6 DEF q, V
  <2> QED BY <2>5, <2>6
<1>13. ASSUME k = 0 PROVE c = batch
  <2>1. Len(c) = n
    BY <1>1, <1>7, <1>13
  <2>2. c = [p \in 1 .. n |-> c[p]] /\ batch = [p \in 1 .. n |-> batch[p]]
    BY <1>1, <1>7, <2>1
  <2> QED BY <1>8, <2>2
<1> QED BY <1>7, <1>11, <1>12, <1>13 DEF c

\* The rows of b are those of c in another order.
Moves(rho, b, c) ==
  /\ rho \in Bijection(DOMAIN b, DOMAIN c)
  /\ \A p \in DOMAIN b : c[rho[p]] = b[p]

LEMMA MovedIs ==
  ASSUME NEW b, IsFiniteSet(DOMAIN b), NEW c, NEW rho, Moves(rho, b, c), NEW i, NEW t
  PROVE  Cardinality(OccurIn(c, i, t)) = Cardinality(OccurIn(b, i, t))
<1> DEFINE S == OccurIn(b, i, t)
           T == OccurIn(c, i, t)
           f == [p \in S |-> rho[p]]
<1>1. rho \in [DOMAIN b -> DOMAIN c]
      /\ (\A p, q \in DOMAIN b : rho[p] = rho[q] => p = q)
      /\ \A r \in DOMAIN c : \E p \in DOMAIN b : rho[p] = r
  BY DEF Moves, Bijection, Injection, Surjection, IsInjective
<1>2. f \in [S -> T]
  <2>1. \A p \in S : rho[p] \in T
    BY <1>1 DEF OccurIn, Moves
  <2> HIDE DEF S, T
  <2> QED BY <2>1
<1>3. IsInjective(f)
  <2>1. \A p \in S : p \in DOMAIN b
    BY DEF OccurIn
  <2> HIDE DEF S
  <2> QED BY <1>1, <2>1 DEF IsInjective
<1>4. \A r \in T : \E p \in S : f[p] = r
  <2> SUFFICES ASSUME NEW r \in T PROVE \E p \in S : f[p] = r
    OBVIOUS
  <2>1. r \in DOMAIN c /\ c[r].traj = i /\ c[r].t = t
    BY DEF OccurIn
  <2>2. PICK p \in DOMAIN b : rho[p] = r
    BY <1>1, <2>1
  <2>3. b[p] = c[r]
    BY <2>2 DEF Moves
  <2>4. p \in S
    BY <2>1, <2>3 DEF OccurIn
  <2> QED BY <2>2, <2>4
<1>5. f \in Bijection(S, T)
  <2> HIDE DEF f, S, T
  <2> QED BY <1>2, <1>3, <1>4 DEF Bijection, Injection, Surjection
<1>6. IsFiniteSet(S)
  <2>1. S \in SUBSET DOMAIN b
    BY DEF OccurIn
  <2> QED BY <2>1, FS_Subset
<1> HIDE DEF S, T, f
<1>7. Cardinality(T) = Cardinality(S)
  BY <1>5, <1>6, FS_Bijection DEF ExistsBijection
<1> QED BY <1>7 DEF S, T

LEMMA DealtIs ==
  ASSUME WellFormed, NEW deal \in Deals
  PROVE  /\ Dealt(deal) \in Seq(RowType)
         /\ Len(Dealt(deal)) = Len(batch)
         /\ Among(Dealt(deal))
         /\ \A i, t : Cardinality(OccurIn(Dealt(deal), i, t))
                        = Cardinality(OccurIn(batch, i, t))
<1> DEFINE W == WorldSize
           Part(r) == {p \in DOMAIN batch : deal[p] = r}
           size == [r \in 1 .. W |-> Cardinality(Part(r))]
           Mine(r) == [k \in DOMAIN Ordered(Part(r)) |-> batch[Ordered(Part(r))[k]]]
           s == [r \in 1 .. W |-> Mine(r)]
           c == Dealt(deal)
<1>1. W \in Nat /\ deal \in [DOMAIN batch -> 1 .. W]
  BY TrainBatchAssumption DEF Deals
<1>2. Len(batch) \in Nat /\ DOMAIN batch = 1 .. Len(batch)
      /\ \A p \in DOMAIN batch : batch[p] \in RowType
  BY DEF WellFormed
<1>3. ASSUME NEW r
      PROVE  Part(r) \in SUBSET Int /\ IsFiniteSet(Part(r)) /\ Cardinality(Part(r)) \in Nat
  <2>1. Part(r) \in SUBSET Int /\ Part(r) \in SUBSET DOMAIN batch
    BY <1>2
  <2>2. IsFiniteSet(Part(r))
    <3>1. IsFiniteSet(DOMAIN batch)
      BY <1>2, FS_Interval
    <3> QED BY <2>1, <3>1, FS_Subset
  <2> QED BY <2>1, <2>2, FS_CardinalityType
<1>4. ASSUME NEW r \in 1 .. W
      PROVE  /\ Mine(r) \in Seq(RowType) /\ Len(Mine(r)) = size[r] /\ size[r] \in Nat
             /\ \A k \in 1 .. size[r] : Mine(r)[k] = batch[Ordered(Part(r))[k]]
  <2> DEFINE n == Cardinality(Part(r))
             own == Ordered(Part(r))
             m == [k \in 1 .. n |-> batch[own[k]]]
  <2>1. n \in Nat /\ size[r] = n
    BY <1>3
  <2>2. own \in [1 .. n -> Part(r)]
    BY <1>3, OrderedIs
  <2>3. m = Mine(r)
    BY <2>2
  <2>4. \A k \in 1 .. n : batch[own[k]] \in RowType
    BY <1>2, <2>2
  <2> HIDE DEF n, own
  <2>5. m \in [1 .. n -> RowType] /\ \A k \in 1 .. n : m[k] = batch[own[k]]
    BY <2>4
  <2>6. m \in Seq(RowType) /\ Len(m) = n
    BY <2>1, <2>5
  <2> HIDE DEF m, Mine, size
  <2> QED BY <2>1, <2>3, <2>5, <2>6 DEF own
<1>5. s \in [1 .. W -> Seq(RowType)] /\ \A r \in 1 .. W : s[r] = Mine(r)
  <2>1. \A r \in 1 .. W : Mine(r) \in Seq(RowType)
    BY <1>4
  <2> HIDE DEF Mine
  <2> QED BY <2>1
<1>6. c = FlattenSeq(s)
  BY DEF Dealt
<1>7. size \in [1 .. W -> Nat] /\ \A r \in 1 .. W : size[r] = Cardinality(Part(r))
  BY <1>3
<1> HIDE DEF s, Mine, size, c
<1>8. [r \in 1 .. W |-> Len(s[r])] = size
  <2>1. \A r \in 1 .. W : Len(s[r]) = size[r]
    BY <1>4, <1>5
  <2> QED BY <1>7, <2>1
<1>9. PICK o : Offsets(o, size, W)
  BY <1>1, <1>7, OffsetsExist
<1>10. c \in Seq(RowType) /\ PartsOf(c, s, o)
  <2>1. Offsets(o, [r \in 1 .. W |-> Len(s[r])], W)
    BY <1>8, <1>9
  <2> QED BY <1>1, <1>5, <1>6, <2>1, Flattened
<1>11. Len(s) = W
  <2> DEFINE R == Seq(RowType)
  <2>1. s \in [1 .. W -> R]
    BY <1>5
  <2> HIDE DEF R
  <2> QED BY <1>1, <2>1
<1>12. DOMAIN c = 1 .. o[W] /\ o[W] \in Nat /\ Len(c) = o[W]
  <2>1. Len(c) = o[W]
    BY <1>10, <1>11 DEF PartsOf
  <2> QED BY <1>10, <2>1
<1>13. \A r \in 1 .. W : \A k \in 1 .. size[r] :
         c[o[r - 1] + k] = batch[Ordered(Part(r))[k]]
  <2> TAKE r \in 1 .. W
  <2>1. Len(s[r]) = size[r] /\ \A k \in 1 .. size[r] : s[r][k] = batch[Ordered(Part(r))[k]]
    BY <1>4, <1>5
  <2>2. \A k \in 1 .. Len(s[r]) : c[o[r - 1] + k] = s[r][k]
    BY <1>10, <1>11 DEF PartsOf
  <2> HIDE DEF Part
  <2> QED BY <2>1, <2>2
<1> DEFINE Within(p) == Below(Part(deal[p]), p)
           rho == [p \in DOMAIN batch |-> o[deal[p] - 1] + Within(p)]
<1>14. ASSUME NEW p \in DOMAIN batch
       PROVE  /\ deal[p] \in 1 .. W /\ p \in Part(deal[p])
              /\ Within(p) \in 1 .. size[deal[p]]
              /\ Ordered(Part(deal[p]))[Within(p)] = p
  <2>1. deal[p] \in 1 .. W /\ p \in Part(deal[p])
    BY <1>1
  <2>2. Within(p) \in 1 .. Cardinality(Part(deal[p]))
    <3>1. Part(deal[p]) \in SUBSET Int /\ IsFiniteSet(Part(deal[p]))
      BY <1>3
    <3> HIDE DEF Part
    <3> QED BY <2>1, <3>1, BelowIs
  <2>3. Ordered(Part(deal[p]))[Within(p)] = p
    <3>1. Part(deal[p]) \in SUBSET Int /\ IsFiniteSet(Part(deal[p]))
      BY <1>3
    <3> HIDE DEF Part
    <3> QED BY <2>1, <3>1, OrderedIs
  <2> HIDE DEF Within, Part
  <2> QED BY <1>7, <2>1, <2>2, <2>3
<1>15. rho \in [DOMAIN batch -> DOMAIN c]
  <2>1. \A p \in DOMAIN batch : o[deal[p] - 1] + Within(p) \in DOMAIN c
    <3> TAKE p \in DOMAIN batch
    <3>1. o[deal[p] - 1] + Within(p) \in 1 .. o[W]
      <4> HIDE DEF Within
      <4> QED BY <1>1, <1>7, <1>9, <1>14, OffsetsWithin
    <3> QED BY <1>12, <3>1
  <2> HIDE DEF Within
  <2> QED BY <2>1
<1>16. ASSUME NEW p \in DOMAIN batch PROVE c[rho[p]] = batch[p]
  <2> HIDE DEF Within, Part
  <2> QED BY <1>13, <1>14
<1>17. ASSUME NEW p \in DOMAIN batch, NEW q \in DOMAIN batch, rho[p] = rho[q] PROVE p = q
  <2>1. o[deal[p] - 1] + Within(p) = o[deal[q] - 1] + Within(q)
    BY <1>17
  <2> DEFINE i == deal[p]
             j == deal[q]
             k == Within(p)
             l == Within(q)
  <2>2. i \in 1 .. W /\ j \in 1 .. W /\ k \in 1 .. size[i] /\ l \in 1 .. size[j]
    BY <1>14
  <2>3. o[i - 1] + k = o[j - 1] + l
    BY <2>1
  <2> HIDE DEF i, j, k, l
  <2>4. i = j /\ k = l
    <3>1. Apart(o, size, W)
      BY <1>1, <1>7, <1>9, OffsetsApart
    <3> QED BY <2>2, <2>3, <3>1 DEF Apart
  <2>5. p = Ordered(Part(i))[k] /\ q = Ordered(Part(j))[l]
    BY <1>14 DEF i, j, k, l
  <2> HIDE DEF Part
  <2> QED BY <2>4, <2>5
<1>18. ASSUME NEW x \in DOMAIN c PROVE \E p \in DOMAIN batch : rho[p] = x
  <2>1. x \in 1 .. o[W]
    BY <1>12
  <2>2. PICK r \in 1 .. W : x - o[r - 1] \in 1 .. size[r]
    BY <1>1, <1>7, <1>9, <2>1, OffsetsCover
  <2> DEFINE k == x - o[r - 1]
             p == Ordered(Part(r))[k]
  <2>3. k \in 1 .. Cardinality(Part(r))
    BY <1>7, <2>2
  <2>4. p \in Part(r) /\ Below(Part(r), p) = k
    <3> HIDE DEF k, Part
    <3> QED BY <1>3, <2>3, OrderedIs
  <2>5. o[r - 1] \in Nat /\ x \in Nat
    <3>1. r - 1 \in 0 .. W
      BY <1>1
    <3> QED BY <1>9, <2>1, <3>1 DEF Offsets
  <2>6. x = o[r - 1] + k
    BY <2>5
  <2> HIDE DEF p, k
  <2>7. p \in DOMAIN batch /\ deal[p] = r
    BY <2>4
  <2>8. rho[p] = x
    BY <2>4, <2>6, <2>7
  <2> QED BY <2>7, <2>8
<1> HIDE DEF rho
<1>19. rho \in Bijection(DOMAIN batch, DOMAIN c)
  <2>1. IsInjective(rho)
    BY <1>15, <1>17 DEF IsInjective
  <2> QED BY <1>15, <1>18, <2>1 DEF Bijection, Injection, Surjection
<1>20. Moves(rho, batch, c)
  BY <1>16, <1>19 DEF Moves
<1>21. IsFiniteSet(DOMAIN batch)
  BY <1>2, FS_Interval
<1>22. \A i, t : Cardinality(OccurIn(c, i, t)) = Cardinality(OccurIn(batch, i, t))
  BY <1>20, <1>21, MovedIs
<1>23. Len(c) = Len(batch)
  <2>1. Cardinality(DOMAIN c) = Cardinality(DOMAIN batch)
    BY <1>19, <1>21, FS_Bijection DEF ExistsBijection
  <2>2. \A n \in Nat : Cardinality(1 .. n) = n
    <3> TAKE n \in Nat
    <3> QED BY FS_Interval
  <2> QED BY <1>2, <1>12, <2>1, <2>2
<1>24. Among(c)
  <2> SUFFICES ASSUME NEW x \in DOMAIN c PROVE \E q \in DOMAIN batch : c[x] = batch[q]
    BY DEF Among
  <2> QED BY <1>16, <1>18
<1> QED BY <1>10, <1>22, <1>23, <1>24 DEF c

-----------------------------------------------------------------------------
(* The invariant.                                                          *)

\* The rows are those of Gathered, but for the columns computed since.
AsGathered ==
  /\ Len(batch) = Len(Gathered)
  /\ \A p \in DOMAIN batch : /\ batch[p].traj = Gathered[p].traj
                             /\ batch[p].t = Gathered[p].t

\* Every step is there once or twice, and once if there are no copies.
Trained ==
  /\ Len(batch) % Divisor = 0
  /\ \A s \in Steps : Cardinality(Occurrences(s[1], s[2])) \in {1, 2}
  /\ Len(batch) = Len(Gathered) =>
       \A s \in Steps : Cardinality(Occurrences(s[1], s[2])) = 1

\* The step reward is the return of the step, less a penalty taken off it.
StepRewards(off(_)) ==
  \A p \in DOMAIN batch :
    batch[p].stepReward = FromStep(Rewards(batch[p].traj), batch[p].t) - off(batch[p])
NoPenalty(row) == 0

Shape ==
  /\ pc \in {"idle", "returns", "adjust", "balance", "score", "advantage",
             "failed", "done"}
  /\ est \in {"gigpo", "rebel", "grpo", "rloo", "passk"}
  /\ uid \in Uids
  /\ play \in [Trajs -> Plays]
  /\ pc # "done" => WellFormed /\ InEpisode
  /\ pc = "returns" => est = "gigpo"
Laid == pc \in {"returns", "adjust"} => AsGathered
Kept == pc \in {"balance", "score", "advantage"} => Trained
Scored ==
  est = "gigpo" =>
    /\ pc \in {"adjust", "balance", "score"} => StepRewards(NoPenalty)
    /\ pc = "advantage" => StepRewards(PenaltyOf)

\* What the batch promises, and what it takes to keep it.
IInv ==
  /\ Shape /\ Laid /\ Kept /\ Scored
  /\ EveryStepTrains /\ ReturnsFollowTime
  /\ TaskAdvantagesCancel /\ LoneStepsAreNeutral

LEMMA StepsAre ==
  /\ \A i \in Trajs : \A t \in 1 .. Length(i) :
       <<i, t>> \in Steps /\ <<i, t>>[1] = i /\ <<i, t>>[2] = t
  /\ \A s \in Steps : s[1] \in Trajs /\ s[2] \in 1 .. Length(s[1])
<1>1. ASSUME NEW i \in Trajs, NEW t \in 1 .. Length(i) PROVE <<i, t>> \in Steps
  <2>1. <<i, t>> \in {i} \X (1 .. Length(i))
    OBVIOUS
  <2> QED BY <2>1 DEF Steps
<1>2. ASSUME NEW s \in Steps PROVE s[1] \in Trajs /\ s[2] \in 1 .. Length(s[1])
  <2>1. PICK i \in Trajs : s \in {i} \X (1 .. Length(i))
    BY DEF Steps
  <2>2. s[1] = i /\ s[2] \in 1 .. Length(i)
    BY <2>1
  <2> QED BY <2>2
<1> QED BY <1>1, <1>2

LEMMA AsGatheredIs ==
  ASSUME WellFormed, AsGathered
  PROVE  InTime /\ \E o : LaidOut(batch, o)
<1>1. play \in [Trajs -> Plays] /\ batch \in Seq(RowType)
  BY DEF WellFormed
<1>2. Gathered \in Seq(RowType)
  BY <1>1, GatheredIs
<1>3. PICK o : LaidOut(Gathered, o)
  BY <1>1, GatheredIs
<1>4. DOMAIN batch = DOMAIN Gathered
  BY <1>1, <1>2 DEF AsGathered
<1>5. LaidOut(batch, o)
  BY <1>3, <1>4 DEF LaidOut, RowAt, AsGathered
<1>6. InTime
  BY <1>5, LaidOutIs
<1> QED BY <1>5, <1>6

\* Every step of every trajectory is there.
LEMMA NoneIsLost ==
  ASSUME WellFormed, Trained, NEW i \in Trajs, NEW t \in 1 .. Length(i)
  PROVE  \E p \in Positions(i) : batch[p].t = t
<1>1. <<i, t>> \in Steps /\ <<i, t>>[1] = i /\ <<i, t>>[2] = t
  BY StepsAre
<1>2. Cardinality(Occurrences(i, t)) \in {1, 2}
  BY <1>1 DEF Trained
<1>3. Occurrences(i, t) # {}
  BY <1>2, FS_EmptySet
<1> QED BY <1>3 DEF Occurrences, Positions

-----------------------------------------------------------------------------
(* What the estimators compute.                                            *)

\* ReBel's returns for beliefs, as long as no row was copied or moved.
LEMMA BeliefReturnIs ==
  ASSUME WellFormed, InEpisode, Trained, Untouched, NEW p \in DOMAIN batch
  PROVE  BeliefReturn(p) = FromStep(play[batch[p].traj].cons, batch[p].t)
<1> DEFINE i == batch[p].traj
           v == play[i].cons
           column == [q \in DOMAIN batch |-> RCons(batch[q].traj, batch[q].t)]
<1>1. i \in Trajs
  BY RowIs
<1>2. v \in Seq(Int) /\ Len(v) = Length(i)
  BY <1>1, EpisodeIs DEF WellFormed, Length
<1>3. InTime
  <2>1. \A j \in Trajs : \A t \in 1 .. Length(j) : \E q \in Positions(j) : batch[q].t = t
    BY NoneIsLost
  <2> QED BY <2>1 DEF InTime, Untouched
<1>4. \A q \in Positions(i) : column[q] = v[batch[q].t]
  BY DEF Positions, RCons
<1>5. BeliefReturn(p) = ReturnAt(column, p)
  BY DEF BeliefReturn
<1> HIDE DEF column, v
<1>6. ReturnAt(column, p) = FromStep(v, batch[p].t)
  BY <1>2, <1>3, <1>4, ReturnInTime
<1> QED BY <1>5, <1>6 DEF v

\* n times a function less its sum adds up to nothing.
LEMMA DifferencesCancel ==
  ASSUME NEW S, IsFiniteSet(S), NEW f \in [S -> Int], NEW h, DOMAIN h = S,
         \A x \in S : h[x] = Cardinality(S) * f[x] - SumFunction(f)
  PROVE  SumFunction(h) = 0
<1> DEFINE n == Cardinality(S)
           c == SumFunctionOnSet(f, S)
<1>1. n \in Nat /\ c \in Int
  BY FS_CardinalityType, SumInt
<1>2. SumFunction(f) = c /\ SumFunction(h) = SumFunctionOnSet(h, S)
  BY DEF SumFunction
<1>3. \A x \in S : h[x] = n * f[x] - c
  BY <1>2
<1>4. SumFunctionOnSet(h, S) = n * c - n * c
  <2> HIDE DEF c
  <2>1. SumFunctionOnSet(h, S) = n * SumFunctionOnSet(f, S) - Cardinality(S) * c
    <3>1. n \in Int /\ c \in Int /\ \A x \in S : f[x] \in Int
      BY <1>1
    <3> HIDE DEF n
    <3> QED BY <1>3, <3>1, SumLinear
  <2> QED BY <2>1 DEF c
<1>5. n * c \in Int
  BY <1>1
<1> HIDE DEF n, c
<1>6. n * c - n * c = 0
  BY <1>5
<1> QED BY <1>2, <1>4, <1>6

LEMMA LastIs ==
  ASSUME WellFormed, InEpisode, NEW i \in Trajs, Positions(i) # {}
  PROVE  /\ Max(Positions(i)) \in DOMAIN batch
         /\ batch[Max(Positions(i))].traj = i
         /\ TaskScore(i) \in Int
<1> DEFINE m == Max(Positions(i))
           f == [p \in Positions(i) |-> RCons(i, batch[p].t)]
<1>1. Positions(i) \in SUBSET Int /\ IsFiniteSet(Positions(i))
      /\ Positions(i) \in SUBSET DOMAIN batch
  BY PositionsAre
<1>2. m \in Positions(i)
  BY <1>1, MaxIs
<1>3. m \in DOMAIN batch /\ batch[m].traj = i
  BY <1>2 DEF Positions
<1>4. batch[m].score \in Int
  BY <1>3, RowIs
<1>5. \A p \in Positions(i) : RCons(i, batch[p].t) \in Int
  <2> TAKE p \in Positions(i)
  <2>1. batch[p].t \in 1 .. Length(i)
    BY DEF Positions, InEpisode
  <2> QED BY <2>1, EpisodeIs DEF WellFormed
<1>6. SumCons(i) \in Int
  <2> DEFINE S == Positions(i)
  <2>1. DOMAIN f = S /\ \A p \in S : f[p] \in Int
    BY <1>5
  <2>2. SumCons(i) = SumFunctionOnSet(f, S)
    BY DEF SumCons, SumFunction
  <2> HIDE DEF f, S
  <2>3. SumFunctionOnSet(f, S) \in Int
    <3>1. IsFiniteSet(S)
      BY <1>1 DEF S
    <3> QED BY <2>1, <3>1, SumInt
  <2> QED BY <2>2, <2>3
<1>7. TaskScore(i) = batch[m].score - SumCons(i)
  BY DEF TaskScore
<1> HIDE DEF m
<1>8. TaskScore(i) \in Int
  BY <1>4, <1>6, <1>7
<1> QED BY <1>3, <1>8 DEF m

LEMMA MinusMeanIs ==
  ASSUME NEW S, NEW f, DOMAIN f = S, NEW p
  PROVE  MinusMean(f, p).num = Cardinality(S) * f[p] - SumFunction(f)
BY DEF MinusMean, DivisorOfMean

\* The task advantages of ReBel, one for each trajectory of a prompt.
LEMMA RebelTasksCancel ==
  ASSUME WellFormed, InEpisode, Trained, NEW i \in Trajs,
         NEW group, group = {j \in Trajs : uid[j] = uid[i]}, Cardinality(group) > 1,
         NEW h, h = [j \in group |-> RebelTask(Max(Positions(j))).num]
  PROVE  SumFunction(h) = 0
<1> DEFINE f == [j \in group |-> TaskScore(j)]
<1>1. ASSUME NEW j \in Trajs PROVE Positions(j) # {}
  <2>1. 1 \in 1 .. Length(j)
    <3>1. Length(j) \in Nat \ {0}
      BY EpisodeIs DEF WellFormed
    <3> QED BY <3>1
  <2> QED BY <2>1, NoneIsLost
<1>2. \A j \in group : Present(uid[j]) = group
  BY <1>1 DEF Present
<1>3. IsFiniteSet(group)
  <2>1. IsFiniteSet(Trajs) /\ group \in SUBSET Trajs
    BY TrainBatchAssumption
  <2> QED BY <2>1, FS_Subset
<1>4. ASSUME NEW j \in group
      PROVE  f[j] \in Int /\ h[j] = Cardinality(group) * f[j] - SumFunction(f)
  <2>1. j \in Trajs /\ Positions(j) # {}
    BY <1>1
  <2>2. Max(Positions(j)) \in DOMAIN batch /\ batch[Max(Positions(j))].traj = j
        /\ TaskScore(j) \in Int
    BY <2>1, LastIs
  <2>3. RebelTask(Max(Positions(j))) = MinusMean(f, j)
    <3>1. Present(uid[j]) = group /\ Cardinality(group) # 1
      <4>1. Cardinality(group) \in Nat
        BY <1>3, FS_CardinalityType
      <4> QED BY <1>2, <4>1
    <3> QED BY <2>2, <3>1 DEF RebelTask
  <2>4. MinusMean(f, j).num = Cardinality(group) * f[j] - SumFunction(f)
    <3>1. DOMAIN f = group
      OBVIOUS
    <3> HIDE DEF f
    <3> QED BY <3>1, MinusMeanIs
  <2>5. h[j] = RebelTask(Max(Positions(j))).num /\ f[j] = TaskScore(j)
    OBVIOUS
  <2> HIDE DEF f
  <2> QED BY <2>2, <2>3, <2>4, <2>5
<1>5. f \in [group -> Int] /\ DOMAIN h = group
  BY <1>4
<1> HIDE DEF f
<1> QED BY <1>3, <1>4, <1>5, DifferencesCancel

\* The rows of a prompt.
LEMMA PromptRowsAre ==
  ASSUME WellFormed, NEW p \in DOMAIN batch
  PROVE  /\ PromptRows(p) \in SUBSET DOMAIN batch /\ p \in PromptRows(p)
         /\ IsFiniteSet(PromptRows(p))
         /\ \A q \in PromptRows(p) : PromptRows(q) = PromptRows(p)
         /\ \A q \in PromptRows(p) : RowScore(q) \in Int
<1>1. PromptRows(p) \in SUBSET DOMAIN batch /\ p \in PromptRows(p)
  BY DEF PromptRows
<1>2. IsFiniteSet(PromptRows(p))
  BY <1>1, PositionsAre, FS_Subset
<1>3. \A q \in PromptRows(p) : PromptRows(q) = PromptRows(p)
  BY DEF PromptRows
<1>4. \A q \in PromptRows(p) : RowScore(q) \in Int
  BY <1>1, RowIs DEF RowScore
<1> QED BY <1>1, <1>2, <1>3, <1>4

\* The task advantages of GRPO, GiGPO and RLOO, one for each row.
LEMMA RowTasksCancel ==
  ASSUME WellFormed, NEW p \in DOMAIN batch, Cardinality(PromptRows(p)) > 1,
         NEW h, \/ h = [q \in PromptRows(p) |-> GrpoTask(q).num]
                \/ h = [q \in PromptRows(p) |-> RlooTask(q).num]
  PROVE  SumFunction(h) = 0
<1> DEFINE S == PromptRows(p)
           f == [q \in S |-> RowScore(q)]
<1>1. IsFiniteSet(S) /\ (\A q \in S : PromptRows(q) = S) /\ \A q \in S : RowScore(q) \in Int
  BY PromptRowsAre
<1>2. Cardinality(S) # 1 /\ Cardinality(S) > 1
  <2>1. Cardinality(S) \in Nat
    BY <1>1, FS_CardinalityType
  <2> QED BY <2>1
<1> HIDE DEF S
<1>3. f \in [S -> Int] /\ DOMAIN f = S
  BY <1>1
<1>4. ASSUME NEW q \in S
      PROVE  /\ GrpoTask(q).num = Cardinality(S) * f[q] - SumFunction(f)
             /\ RlooTask(q).num = Cardinality(S) * f[q] - SumFunction(f)
  <2>1. GrpoTask(q) = MinusMean(f, q)
    BY <1>1, <1>2 DEF GrpoTask
  <2>2. RlooTask(q).num = Cardinality(S) * RowScore(q) - SumFunction(f)
    BY <1>1, <1>2 DEF RlooTask
  <2>3. f[q] = RowScore(q)
    OBVIOUS
  <2> HIDE DEF f
  <2>4. MinusMean(f, q).num = Cardinality(S) * f[q] - SumFunction(f)
    BY <1>3, MinusMeanIs
  <2> QED BY <2>1, <2>2, <2>3, <2>4
<1>5. DOMAIN h = S /\ \A q \in S : h[q] = Cardinality(S) * f[q] - SumFunction(f)
  <2> HIDE DEF f
  <2> QED BY <1>4 DEF S
<1> HIDE DEF f
<1> QED BY <1>1, <1>3, <1>5, DifferencesCancel

-----------------------------------------------------------------------------
(* The step advantages.                                                    *)

LEMMA BeliefReturnInt ==
  ASSUME WellFormed, InEpisode, NEW p \in DOMAIN batch
  PROVE  BeliefReturn(p) \in Int
<1> DEFINE i == batch[p].traj
           S == Positions(i)
           own == Ordered(S)
           column == [q \in DOMAIN batch |-> RCons(batch[q].traj, batch[q].t)]
           v == [k \in DOMAIN own |-> column[own[k]]]
           n == Cardinality(S)
<1>1. i \in Trajs /\ p \in S
  BY RowIs
<1>2. S \in SUBSET Int /\ IsFiniteSet(S) /\ S \in SUBSET DOMAIN batch /\ n \in Nat
  BY PositionsAre, FS_CardinalityType
<1>3. \A q \in S : column[q] \in Int
  <2> TAKE q \in S
  <2>1. q \in DOMAIN batch /\ batch[q].traj = i
    BY DEF Positions
  <2>2. batch[q].t \in 1 .. Length(i)
    BY <2>1 DEF InEpisode
  <2>3. RCons(i, batch[q].t) \in Int
    BY <1>1, <2>2, EpisodeIs DEF WellFormed
  <2> QED BY <2>1, <2>3
<1>4. BeliefReturn(p) = Returns(v)[Rank(p)]
  BY DEF BeliefReturn, ReturnAt, InOrder
<1>5. Rank(p) = Below(S, p)
  BY DEF Rank, Below
<1> HIDE DEF S, column, n
<1>6. own \in [1 .. n -> S]
  BY <1>2, OrderedIs DEF n
<1>7. v \in Seq(Int) /\ Len(v) = n
  <2> HIDE DEF own
  <2>1. v \in [1 .. n -> Int]
    BY <1>3, <1>6
  <2> HIDE DEF v
  <2> QED BY <1>2, <2>1
<1>8. Rank(p) \in 1 .. n
  BY <1>1, <1>2, <1>5, BelowIs DEF n
<1> HIDE DEF v
<1>9. Returns(v)[Rank(p)] = FromStep(v, Rank(p)) /\ FromStep(v, Rank(p)) \in Int
  BY <1>7, <1>8, ReturnsAre, FromStepIs
<1> QED BY <1>4, <1>9

LEMMA EnvReturnInt ==
  ASSUME WellFormed, InEpisode, NEW p \in DOMAIN batch
  PROVE  EnvReturn(p) \in Int
<1> DEFINE i == batch[p].traj
           S == Positions(i)
           d == Cardinality(S) - Rank(p)
<1>1. i \in Trajs /\ p \in S
  BY RowIs
<1>2. S \in SUBSET Int /\ IsFiniteSet(S) /\ Cardinality(S) \in Nat
  BY PositionsAre, FS_CardinalityType
<1>3. Rank(p) = Below(S, p)
  BY DEF Rank, Below
<1>4. EnvReturn(p) = Discount[d] * TaskScore(i)
  BY DEF EnvReturn
<1>5. TaskScore(i) \in Int
  BY <1>1, LastIs
<1> HIDE DEF S
<1>6. d \in Nat
  <2>1. Rank(p) \in 1 .. Cardinality(S)
    BY <1>1, <1>2, <1>3, BelowIs
  <2> QED BY <1>2, <2>1
<1> HIDE DEF d
<1>7. Discount[d] \in Int
  BY <1>6, DiscountIs
<1> DEFINE a == Discount[d]
           b == TaskScore(i)
<1>8. a \in Int /\ b \in Int
  BY <1>5, <1>7
<1> HIDE DEF a, b
<1>9. a * b \in Int
  BY <1>8
<1> QED BY <1>4, <1>9 DEF a, b

\* A column that is constant over the rows of a group is at its mean.
LEMMA ConstantIsNeutral ==
  ASSUME NEW S, IsFiniteSet(S), NEW f, DOMAIN f = S, NEW c \in Int,
         \A q \in S : f[q] = c, NEW p \in S
  PROVE  MinusMean(f, p).num = 0
<1> DEFINE n == Cardinality(S)
<1>1. n \in Nat
  BY FS_CardinalityType
<1>2. SumFunction(f) = n * c
  <2>1. SumFunctionOnSet(f, S) = n * c
    BY SumConstant
  <2> QED BY <2>1 DEF SumFunction
<1>3. MinusMean(f, p).num = n * f[p] - SumFunction(f)
  BY MinusMeanIs
<1>4. n * c \in Int
  BY <1>1
<1> HIDE DEF n
<1> QED BY <1>2, <1>3, <1>4

LEMMA StepGroupIs ==
  ASSUME WellFormed, NEW p \in DOMAIN batch
  PROVE  /\ StepGroup(p) \in SUBSET DOMAIN batch /\ p \in StepGroup(p)
         /\ IsFiniteSet(StepGroup(p))
<1>1. StepGroup(p) \in SUBSET DOMAIN batch /\ p \in StepGroup(p)
  BY DEF StepGroup, SameGroup
<1>2. IsFiniteSet(DOMAIN batch)
  BY PositionsAre
<1> QED BY <1>1, <1>2, FS_Subset

\* The rows of the group of p are those of its own step.
AloneInGroup(p) ==
  \A q \in DOMAIN batch : SameGroup(batch[q], batch[p]) =>
    batch[q].traj = batch[p].traj /\ batch[q].t = batch[p].t

LEMMA GigpoIsNeutral ==
  ASSUME WellFormed, StepRewards(PenaltyOf), NEW p \in DOMAIN batch, AloneInGroup(p)
  PROVE  GigpoStep(p).num = 0
<1> DEFINE S == StepGroup(p)
           f == [q \in S |-> batch[q].stepReward]
           c == batch[p].stepReward
<1>1. S \in SUBSET DOMAIN batch /\ p \in S /\ IsFiniteSet(S)
  BY StepGroupIs
<1>2. c \in Int
  BY RowIs
<1>3. ASSUME NEW q \in S PROVE f[q] = c
  <2>1. q \in DOMAIN batch /\ batch[q].traj = batch[p].traj /\ batch[q].t = batch[p].t
    BY DEF StepGroup, AloneInGroup
  <2>2. PenaltyOf(batch[q]) = PenaltyOf(batch[p])
    BY <2>1 DEF PenaltyOf
  <2>3. batch[q].stepReward
          = FromStep(Rewards(batch[q].traj), batch[q].t) - PenaltyOf(batch[q])
        /\ batch[p].stepReward
             = FromStep(Rewards(batch[p].traj), batch[p].t) - PenaltyOf(batch[p])
    BY <2>1 DEF StepRewards
  <2>4. batch[q].stepReward = batch[p].stepReward
    BY <2>1, <2>2, <2>3
  <2> QED BY <2>4
<1>4. GigpoStep(p) = MinusMean(f, p) /\ DOMAIN f = S
  BY DEF GigpoStep
<1> HIDE DEF f, S, c
<1> QED BY <1>1, <1>2, <1>3, <1>4, ConstantIsNeutral

LEMMA RebelIsNeutral ==
  ASSUME WellFormed, InEpisode, Trained, Len(batch) = Len(Gathered),
         NEW p \in DOMAIN batch, AloneInGroup(p)
  PROVE  RebelStep(p).num = 0
<1> DEFINE S == StepGroup(p)
           f == [q \in S |-> EnvReturn(q) + BeliefReturn(q)]
           c == EnvReturn(p) + BeliefReturn(p)
           i == batch[p].traj
           t == batch[p].t
<1>1. S \in SUBSET DOMAIN batch /\ p \in S /\ IsFiniteSet(S)
  BY StepGroupIs
<1>2. c \in Int
  <2>1. EnvReturn(p) \in Int /\ BeliefReturn(p) \in Int
    BY EnvReturnInt, BeliefReturnInt
  <2> QED BY <2>1
<1>3. S \in SUBSET Occurrences(i, t) /\ p \in Occurrences(i, t)
  BY DEF Occurrences, StepGroup, AloneInGroup
<1>4. Cardinality(Occurrences(i, t)) = 1
  <2>1. i \in Trajs /\ t \in 1 .. Length(i)
    BY RowIs DEF InEpisode
  <2>2. <<i, t>> \in Steps /\ <<i, t>>[1] = i /\ <<i, t>>[2] = t
    BY <2>1, StepsAre
  <2> HIDE DEF i, t
  <2> QED BY <2>2 DEF Trained
<1>5. Occurrences(i, t) = {p}
  <2>1. IsFiniteSet(Occurrences(i, t))
    <3>1. Occurrences(i, t) \in SUBSET DOMAIN batch /\ IsFiniteSet(DOMAIN batch)
      BY PositionsAre DEF Occurrences
    <3> QED BY <3>1, FS_Subset
  <2>2. \E x : Occurrences(i, t) = {x}
    BY <1>4, <2>1, FS_Singleton
  <2> QED BY <1>3, <2>2
<1>6. \A q \in S : f[q] = c
  BY <1>3, <1>5
<1>7. RebelStep(p) = MinusMean(f, p) /\ DOMAIN f = S
  BY DEF RebelStep
<1> HIDE DEF f, S, c
<1> QED BY <1>1, <1>2, <1>6, <1>7, ConstantIsNeutral

-----------------------------------------------------------------------------
(* The steps.                                                              *)

LEMMA InitInv == Init => IInv
<1> SUFFICES ASSUME Init PROVE IInv
  OBVIOUS
<1>1. Shape
  <2>1. batch \in Seq(RowType) /\ DOMAIN batch = {}
    BY DEF Init
  <2> QED BY <2>1 DEF Init, Shape, WellFormed, InEpisode
<1>2. pc = "idle"
  BY DEF Init
<1> QED BY <1>1, <1>2 DEF IInv, Laid, Kept, Scored, EveryStepTrains, ReturnsFollowTime,
      TaskAdvantagesCancel, TrajectoriesCancel, RowsCancel, LoneStepsAreNeutral

LEMMA GatherInv == IInv /\ Gather => IInv'
<1> SUFFICES ASSUME IInv, Gather PROVE IInv'
  OBVIOUS
<1>1. play \in [Trajs -> Plays] /\ play' = play /\ uid' = uid /\ est' = est
      /\ batch' = Gathered /\ pc' = IF est = "gigpo" THEN "returns" ELSE "adjust"
  BY DEF Gather, IInv, Shape
<1>2. Gathered \in Seq(RowType) /\ \E o : LaidOut(Gathered, o)
  BY <1>1, GatheredIs
<1>3. Gathered' = Gathered /\ \A i : Length(i)' = Length(i)
  BY <1>1 DEF Gathered, Length, Row
<1>4. WellFormed'
  BY <1>1, <1>2 DEF WellFormed
<1>5. InEpisode'
  BY <1>1, <1>2, <1>3 DEF InEpisode, LaidOut
<1>6. Shape'
  <2>1. est \in {"gigpo", "rebel", "grpo", "rloo", "passk"} /\ uid \in Uids
    BY DEF IInv, Shape
  <2>2. pc' \in {"returns", "adjust"} /\ (pc' = "returns" => est' = "gigpo")
    BY <1>1
  <2> QED BY <1>1, <1>4, <1>5, <2>1, <2>2 DEF Shape
<1>7. AsGathered'
  BY <1>1, <1>3 DEF AsGathered
<1>8. pc' # "done" /\ Kept' /\ EveryStepTrains'
  BY <1>1 DEF Kept, EveryStepTrains
<1>9. Scored'
  BY <1>1, <1>8 DEF Scored
<1>10. (ReturnsFollowTime /\ TaskAdvantagesCancel /\ LoneStepsAreNeutral)'
  BY <1>8 DEF ReturnsFollowTime, TaskAdvantagesCancel, TrajectoriesCancel, RowsCancel,
       LoneStepsAreNeutral
<1> QED BY <1>6, <1>7, <1>8, <1>9, <1>10 DEF IInv, Laid

\* Rows that are changed in place.
LEMMA ChangedInPlace ==
  ASSUME NEW b \in Seq(RowType), NEW c, c = [p \in DOMAIN b |-> c[p]],
         \A p \in DOMAIN b : c[p] \in RowType
  PROVE  c \in Seq(RowType) /\ Len(c) = Len(b) /\ DOMAIN c = DOMAIN b
<1>1. DOMAIN b = 1 .. Len(b) /\ Len(b) \in Nat
  OBVIOUS
<1>2. c \in [1 .. Len(b) -> RowType]
  BY <1>1
<1> QED BY <1>1, <1>2

LEMMA StepReturnsInv == IInv /\ StepReturns => IInv'
<1> SUFFICES ASSUME IInv, StepReturns PROVE IInv'
  OBVIOUS
<1> DEFINE reward == [q \in DOMAIN batch |-> Reward(batch[q].traj, batch[q].t)]
<1>1. /\ pc = "returns" /\ pc' = "adjust" /\ play' = play /\ uid' = uid /\ est' = est
      /\ batch' = [p \in DOMAIN batch |->
                     [batch[p] EXCEPT !.stepReward = ReturnAt(reward, p)]]
  BY DEF StepReturns
<1>2. WellFormed /\ InEpisode /\ AsGathered /\ InTime
  BY <1>1, AsGatheredIs DEF IInv, Shape, Laid
<1>3. ASSUME NEW p \in DOMAIN batch
      PROVE  LET r == FromStep(Rewards(batch[p].traj), batch[p].t)
             IN  ReturnAt(reward, p) = r /\ r \in Int
  <2> DEFINE i == batch[p].traj
             v == Rewards(i)
  <2>1. i \in Trajs /\ batch[p].t \in 1 .. Length(i)
    BY <1>2, RowIs DEF InEpisode
  <2>2. v \in Seq(Int) /\ Len(v) = Length(i) /\ \A t \in 1 .. Length(i) : v[t] = Reward(i, t)
    BY <1>2, <2>1, EpisodeIs DEF WellFormed
  <2>3. \A q \in Positions(i) : reward[q] = v[batch[q].t]
    <3> TAKE q \in Positions(i)
    <3>1. q \in DOMAIN batch /\ batch[q].traj = i
      BY DEF Positions
    <3>2. batch[q].t \in 1 .. Length(i)
      BY <1>2, <3>1 DEF InEpisode
    <3> HIDE DEF v
    <3> QED BY <2>2, <3>1, <3>2
  <2> HIDE DEF v, reward
  <2>4. ReturnAt(reward, p) = FromStep(v, batch[p].t)
    BY <1>2, <2>2, <2>3, ReturnInTime
  <2>5. FromStep(v, batch[p].t) \in Int
    BY <2>1, <2>2, FromStepIs
  <2> QED BY <2>4, <2>5 DEF v
<1> HIDE DEF reward
<1>4. ASSUME NEW p \in DOMAIN batch
      PROVE  /\ batch'[p] \in RowType
             /\ batch'[p].traj = batch[p].traj /\ batch'[p].t = batch[p].t
             /\ batch'[p].stepReward = FromStep(Rewards(batch[p].traj), batch[p].t)
  <2> DEFINE r == FromStep(Rewards(batch[p].traj), batch[p].t)
  <2>1. batch'[p] = [batch[p] EXCEPT !.stepReward = r] /\ r \in Int
    BY <1>1, <1>3
  <2>2. batch[p] \in RowType
    BY <1>2, RowIs
  <2> HIDE DEF r
  <2>3. /\ batch'[p] \in RowType /\ batch'[p].stepReward = r
        /\ batch'[p].traj = batch[p].traj /\ batch'[p].t = batch[p].t
    BY <2>1, <2>2 DEF RowType
  <2> QED BY <2>3 DEF r
<1>5. batch' \in Seq(RowType) /\ Len(batch') = Len(batch) /\ DOMAIN batch' = DOMAIN batch
  <2>1. batch \in Seq(RowType)
    BY <1>2 DEF WellFormed
  <2>2. batch' = [p \in DOMAIN batch |-> batch'[p]]
    BY <1>1
  <2> QED BY <1>4, <2>1, <2>2, ChangedInPlace
<1>6. Gathered' = Gathered /\ \A i : Length(i)' = Length(i) /\ Rewards(i)' = Rewards(i)
  BY <1>1 DEF Gathered, Length, Row, Rewards, Reward, RCons, EnvReward
<1>7. WellFormed' /\ InEpisode'
  <2>1. play' \in [Trajs -> Plays]
    BY <1>1, <1>2 DEF WellFormed
  <2>2. InEpisode'
    BY <1>2, <1>4, <1>5, <1>6 DEF InEpisode
  <2> QED BY <1>5, <2>1, <2>2 DEF WellFormed
<1>8. Shape'
  BY <1>1, <1>7 DEF IInv, Shape
<1>9. AsGathered'
  BY <1>2, <1>4, <1>5, <1>6 DEF AsGathered
<1>10. StepRewards(NoPenalty)'
  <2>1. ASSUME NEW p \in DOMAIN batch
        PROVE  batch'[p].stepReward = FromStep(Rewards(batch[p].traj), batch[p].t) - 0
    BY <1>3, <1>4
  <2> QED BY <1>4, <1>5, <1>6, <2>1 DEF StepRewards, NoPenalty
<1>11. Kept' /\ EveryStepTrains' /\ Scored'
  BY <1>1, <1>10 DEF Kept, EveryStepTrains, Scored
<1>12. (ReturnsFollowTime /\ TaskAdvantagesCancel /\ LoneStepsAreNeutral)'
  BY <1>1 DEF ReturnsFollowTime, TaskAdvantagesCancel, TrajectoriesCancel, RowsCancel,
       LoneStepsAreNeutral
<1> QED BY <1>8, <1>9, <1>11, <1>12 DEF IInv, Laid

\* What holds of all rows holds of some of them, in any order.
LEMMA AmongInv ==
  ASSUME WellFormed, InEpisode, play' = play, batch' \in Seq(RowType), Among(batch')
  PROVE  /\ WellFormed' /\ InEpisode'
         /\ StepRewards(NoPenalty) => StepRewards(NoPenalty)'
<1>1. \A i : Length(i)' = Length(i) /\ Rewards(i)' = Rewards(i)
  BY DEF Length, Rewards, Reward, RCons, EnvReward
<1>2. WellFormed'
  BY DEF WellFormed
<1>3. InEpisode'
  BY <1>1 DEF InEpisode, Among
<1>4. ASSUME StepRewards(NoPenalty) PROVE StepRewards(NoPenalty)'
  BY <1>1, <1>4 DEF StepRewards, NoPenalty, Among
<1> QED BY <1>2, <1>3, <1>4

LEMMA AdjustBatchInv == IInv /\ AdjustBatch => IInv'
<1> SUFFICES ASSUME IInv, AdjustBatch PROVE IInv'
  OBVIOUS
<1>1. pc = "adjust" /\ play' = play /\ uid' = uid /\ est' = est
  BY DEF AdjustBatch
<1>2. WellFormed /\ InEpisode /\ AsGathered
  BY <1>1 DEF IInv, Shape, Laid
<1>3. est = "gigpo" => StepRewards(NoPenalty)
  BY <1>1 DEF IInv, Scored
<1>4. Gathered' = Gathered /\ Steps' = Steps
  BY <1>1 DEF Gathered, Length, Row, Steps
<1>5. ASSUME pc' # "done"
      PROVE  (ReturnsFollowTime /\ TaskAdvantagesCancel /\ LoneStepsAreNeutral)'
  BY <1>5 DEF ReturnsFollowTime, TaskAdvantagesCancel, TrajectoriesCancel, RowsCancel,
       LoneStepsAreNeutral
<1>6. CASE pc' = "failed" /\ batch' = batch
  <2>1. Shape'
    BY <1>1, <1>2, <1>6 DEF IInv, Shape, WellFormed, InEpisode, Length
  <2>2. Laid' /\ Kept' /\ Scored' /\ EveryStepTrains'
    BY <1>6 DEF Laid, Kept, Scored, EveryStepTrains
  <2> QED BY <1>5, <1>6, <2>1, <2>2 DEF IInv
<1>7. ASSUME NEW D \in kSubset(ToAdd, DOMAIN batch), NEW dups \in SetToSeqs(D),
             batch' = Padded(dups), pc' = IF BalanceBatch THEN "balance" ELSE "score"
      PROVE  IInv'
  <2>1. Len(batch) \in Nat /\ Divisor \in Nat \ {0}
    BY <1>2, TrainBatchAssumption DEF WellFormed
  <2>2. ToAdd \in Nat /\ (Len(batch) + ToAdd) % Divisor = 0
    BY <2>1, ToAddIs DEF ToAdd
  <2>3. /\ batch' \in Seq(RowType) /\ Len(batch') = Len(batch) + ToAdd
        /\ Among(batch')
        /\ \A i, t, p : OccurIn(batch, i, t) = {p} =>
             Cardinality(OccurIn(batch', i, t)) \in {1, 2}
        /\ ToAdd = 0 => batch' = batch
    BY <1>2, <1>7, <2>2, PaddedIs
  <2>4. /\ WellFormed' /\ InEpisode'
        /\ StepRewards(NoPenalty) => StepRewards(NoPenalty)'
    BY <1>1, <1>2, <2>3, AmongInv
  <2>5. \A i, t : Occurrences(i, t) = OccurIn(batch, i, t)
                  /\ Occurrences(i, t)' = OccurIn(batch', i, t)
    BY DEF Occurrences, OccurIn
  <2>6. PICK o : LaidOut(batch, o)
    BY <1>2, AsGatheredIs
  <2>7. ASSUME NEW s \in Steps
        PROVE  \E p : OccurIn(batch, s[1], s[2]) = {p}
    <3>1. s[1] \in Trajs /\ s[2] \in 1 .. Length(s[1])
      BY StepsAre
    <3> QED BY <1>2, <2>5, <2>6, <3>1, LaidOutIs
  <2>8. Trained'
    <3>1. Len(batch') % Divisor = 0
      BY <2>2, <2>3
    <3>2. ASSUME NEW s \in Steps PROVE Cardinality(Occurrences(s[1], s[2])') \in {1, 2}
      BY <2>3, <2>5, <2>7
    <3>3. ASSUME Len(batch') = Len(Gathered), NEW s \in Steps
          PROVE  Cardinality(Occurrences(s[1], s[2])') = 1
      <4>1. ToAdd = 0
        BY <1>2, <2>1, <2>2, <2>3, <3>3 DEF AsGathered
      <4>2. \E p : OccurIn(batch', s[1], s[2]) = {p}
        BY <2>3, <2>7, <4>1
      <4> QED BY <2>5, <4>2, FS_Singleton
    <3> QED BY <1>4, <3>1, <3>2, <3>3 DEF Trained
  <2>9. Shape'
    BY <1>1, <1>7, <2>4 DEF IInv, Shape
  <2>10. Laid' /\ Kept' /\ Scored' /\ EveryStepTrains'
    <3>1. pc' \in {"balance", "score"}
      BY <1>7
    <3>2. EveryStepTrains'
      BY <2>8 DEF EveryStepTrains, Trained
    <3>3. Scored'
      BY <1>1, <1>3, <2>4, <3>1 DEF Scored
    <3> QED BY <2>8, <3>1, <3>2, <3>3 DEF Laid, Kept
  <2>11. pc' # "done"
    BY <1>7
  <2> QED BY <1>5, <2>9, <2>10, <2>11 DEF IInv
<1> QED BY <1>6, <1>7 DEF AdjustBatch

LEMMA BalanceInv == IInv /\ Balance => IInv'
<1> SUFFICES ASSUME IInv, Balance PROVE IInv'
  OBVIOUS
<1>1. pc = "balance" /\ pc' = "score" /\ play' = play /\ uid' = uid /\ est' = est
  BY DEF Balance
<1>2. PICK deal \in Deals : batch' = Dealt(deal)
  BY DEF Balance
<1>3. WellFormed /\ InEpisode /\ Trained
  BY <1>1 DEF IInv, Shape, Kept
<1>4. est = "gigpo" => StepRewards(NoPenalty)
  BY <1>1 DEF IInv, Scored
<1>5. Gathered' = Gathered /\ Steps' = Steps
  BY <1>1 DEF Gathered, Length, Row, Steps
<1>6. /\ batch' \in Seq(RowType) /\ Len(batch') = Len(batch) /\ Among(batch')
      /\ \A i, t : Cardinality(OccurIn(batch', i, t)) = Cardinality(OccurIn(batch, i, t))
  BY <1>2, <1>3, DealtIs
<1>7. /\ WellFormed' /\ InEpisode'
      /\ StepRewards(NoPenalty) => StepRewards(NoPenalty)'
  BY <1>1, <1>3, <1>6, AmongInv
<1>8. Trained'
  <2>1. \A i, t : Cardinality(Occurrences(i, t)') = Cardinality(Occurrences(i, t))
    BY <1>6 DEF Occurrences, OccurIn
  <2> QED BY <1>3, <1>5, <1>6, <2>1 DEF Trained
<1>9. Shape'
  BY <1>1, <1>7 DEF IInv, Shape
<1>10. EveryStepTrains'
  BY <1>8 DEF EveryStepTrains, Trained
<1>11. Laid' /\ Kept' /\ Scored'
  BY <1>1, <1>4, <1>7, <1>8 DEF Laid, Kept, Scored
<1>12. (ReturnsFollowTime /\ TaskAdvantagesCancel /\ LoneStepsAreNeutral)'
  BY <1>1 DEF ReturnsFollowTime, TaskAdvantagesCancel, TrajectoriesCancel, RowsCancel,
       LoneStepsAreNeutral
<1> QED BY <1>9, <1>10, <1>11, <1>12 DEF IInv

LEMMA ScoreInv == IInv /\ Score => IInv'
<1> SUFFICES ASSUME IInv, Score PROVE IInv'
  OBVIOUS
<1>1. /\ pc = "score" /\ pc' = "advantage" /\ play' = play /\ uid' = uid /\ est' = est
      /\ batch' = [p \in DOMAIN batch |->
                     [batch[p] EXCEPT
                        !.score = EnvReward(batch[p].traj) - PenaltyOf(batch[p]),
                        !.stepReward = IF est = "gigpo"
                                       THEN @ - PenaltyOf(batch[p]) ELSE @]]
  BY DEF Score
<1>2. WellFormed /\ InEpisode /\ Trained
  BY <1>1 DEF IInv, Shape, Kept
<1>3. est = "gigpo" => StepRewards(NoPenalty)
  BY <1>1 DEF IInv, Scored
<1>4. ASSUME NEW p \in DOMAIN batch
      PROVE  /\ batch'[p] \in RowType
             /\ batch'[p].traj = batch[p].traj /\ batch'[p].t = batch[p].t
             /\ est = "gigpo" =>
                  batch'[p].stepReward = batch[p].stepReward - PenaltyOf(batch[p])
  <2> DEFINE a == EnvReward(batch[p].traj)
             b == PenaltyOf(batch[p])
             x == a - b
             y == IF est = "gigpo" THEN batch[p].stepReward - b ELSE batch[p].stepReward
  <2>1. batch[p] \in RowType /\ batch[p].traj \in Trajs /\ b \in Int
        /\ batch[p].stepReward \in Int
    BY <1>2, RowIs
  <2>2. a \in Int
    BY <1>2, <2>1, EpisodeIs DEF WellFormed
  <2>3. batch'[p] = [batch[p] EXCEPT !.score = x, !.stepReward = y]
    BY <1>1
  <2> HIDE DEF a, b
  <2>4. x \in Int /\ y \in Int
    BY <2>1, <2>2
  <2>5. est = "gigpo" => y = batch[p].stepReward - b
    OBVIOUS
  <2> HIDE DEF x, y
  <2>6. /\ batch'[p] \in RowType /\ batch'[p].stepReward = y
        /\ batch'[p].traj = batch[p].traj /\ batch'[p].t = batch[p].t
    BY <2>1, <2>3, <2>4 DEF RowType
  <2> QED BY <2>5, <2>6 DEF b
<1>5. batch' \in Seq(RowType) /\ Len(batch') = Len(batch) /\ DOMAIN batch' = DOMAIN batch
  <2>1. batch \in Seq(RowType)
    BY <1>2 DEF WellFormed
  <2>2. batch' = [p \in DOMAIN batch |-> batch'[p]]
    BY <1>1
  <2> QED BY <1>4, <2>1, <2>2, ChangedInPlace
<1>6. /\ Gathered' = Gathered /\ Steps' = Steps
      /\ \A i : Length(i)' = Length(i) /\ Rewards(i)' = Rewards(i)
  BY <1>1 DEF Gathered, Length, Row, Rewards, Reward, RCons, EnvReward, Steps
<1>7. WellFormed' /\ InEpisode'
  <2>1. play' \in [Trajs -> Plays]
    BY <1>1, <1>2 DEF WellFormed
  <2>2. InEpisode'
    BY <1>2, <1>4, <1>5, <1>6 DEF InEpisode
  <2> QED BY <1>5, <2>1, <2>2 DEF WellFormed
<1>8. Shape'
  BY <1>1, <1>7 DEF IInv, Shape
<1>9. Trained'
  <2>1. \A i, t : Occurrences(i, t)' = Occurrences(i, t)
    BY <1>4, <1>5 DEF Occurrences
  <2> QED BY <1>2, <1>5, <1>6, <2>1 DEF Trained
<1>10. ASSUME est = "gigpo" PROVE StepRewards(PenaltyOf)'
  <2>1. ASSUME NEW p \in DOMAIN batch
        PROVE  batch'[p].stepReward
                 = FromStep(Rewards(batch[p].traj), batch[p].t) - PenaltyOf(batch[p])
    <3> DEFINE r == FromStep(Rewards(batch[p].traj), batch[p].t)
    <3>1. batch[p].traj \in Trajs /\ batch[p].t \in 1 .. Length(batch[p].traj)
      BY <1>2, RowIs DEF InEpisode
    <3>2. r \in Int
      BY <1>2, <3>1, EpisodeIs, FromStepIs DEF WellFormed
    <3>3. batch[p].stepReward = r - 0
      BY <1>3, <1>10 DEF StepRewards, NoPenalty
    <3> HIDE DEF r
    <3>4. batch[p].stepReward = r
      BY <3>2, <3>3
    <3> QED BY <1>4, <1>10, <3>4 DEF r
  <2>2. \A p \in DOMAIN batch : PenaltyOf(batch[p])' = PenaltyOf(batch[p])
    BY <1>1, <1>4 DEF PenaltyOf
  <2> QED BY <1>4, <1>5, <1>6, <2>1, <2>2 DEF StepRewards
<1>11. EveryStepTrains'
  BY <1>9 DEF EveryStepTrains, Trained
<1>12. Laid' /\ Kept' /\ Scored'
  BY <1>1, <1>9, <1>10 DEF Laid, Kept, Scored
<1>13. (ReturnsFollowTime /\ TaskAdvantagesCancel /\ LoneStepsAreNeutral)'
  BY <1>1 DEF ReturnsFollowTime, TaskAdvantagesCancel, TrajectoriesCancel, RowsCancel,
       LoneStepsAreNeutral
<1> QED BY <1>8, <1>11, <1>12, <1>13 DEF IInv

\* The advantages of a batch that was kept are what was promised.
LEMMA AdvantageInv == IInv /\ Advantage => IInv'
<1> SUFFICES ASSUME IInv, Advantage PROVE IInv'
  OBVIOUS
<1>1. pc = "advantage" /\ play' = play /\ uid' = uid /\ est' = est
  BY DEF Advantage
<1>2. WellFormed /\ InEpisode /\ Trained /\ play \in [Trajs -> Plays]
      /\ est \in {"gigpo", "rebel", "grpo", "rloo", "passk"}
  BY <1>1 DEF IInv, Shape, Kept
<1>3. est = "gigpo" => StepRewards(PenaltyOf)
  BY <1>1 DEF IInv, Scored
<1>4. /\ Gathered' = Gathered /\ Steps' = Steps
      /\ \A i : Length(i)' = Length(i) /\ Rewards(i)' = Rewards(i)
  BY <1>1 DEF Gathered, Length, Row, Rewards, Reward, RCons, EnvReward, Steps
<1>5. CASE pc' = "failed" /\ batch' = batch
  <2>1. Shape'
    BY <1>1, <1>2, <1>5 DEF IInv, Shape, WellFormed, InEpisode, Length
  <2>2. Laid' /\ Kept' /\ Scored' /\ EveryStepTrains'
    BY <1>5 DEF Laid, Kept, Scored, EveryStepTrains
  <2>3. (ReturnsFollowTime /\ TaskAdvantagesCancel /\ LoneStepsAreNeutral)'
    BY <1>5 DEF ReturnsFollowTime, TaskAdvantagesCancel, TrajectoriesCancel, RowsCancel,
         LoneStepsAreNeutral
  <2> QED BY <2>1, <2>2, <2>3 DEF IInv
<1>6. ASSUME batch' = [p \in DOMAIN batch |->
                 [batch[p] EXCEPT
                    !.task = TaskOf(p),
                    !.step = IF est = "gigpo" THEN GigpoStep(p)
                             ELSE IF est = "rebel" THEN RebelStep(p) ELSE @]],
             pc' = "done"
      PROVE  IInv'
  <2>1. DOMAIN batch' = DOMAIN batch /\ Len(batch') = Len(batch)
    <3>1. DOMAIN batch = 1 .. Len(batch) /\ Len(batch) \in Nat
      BY <1>2 DEF WellFormed
    <3>2. DOMAIN batch' = 1 .. Len(batch)
      BY <1>6, <3>1
    <3> DEFINE V == {batch'[p] : p \in DOMAIN batch}
    <3>3. batch' \in [1 .. Len(batch) -> V]
      BY <1>6, <3>1, <3>2
    <3> HIDE DEF V
    <3> QED BY <3>1, <3>2, <3>3
  <2>2. ASSUME NEW p \in DOMAIN batch
        PROVE  /\ batch'[p].traj = batch[p].traj /\ batch'[p].t = batch[p].t
               /\ batch'[p].score = batch[p].score
               /\ batch'[p].stepReward = batch[p].stepReward
               /\ batch'[p].task = TaskOf(p)
               /\ est = "gigpo" => batch'[p].step = GigpoStep(p)
               /\ est = "rebel" => batch'[p].step = RebelStep(p)
    <3> DEFINE x == TaskOf(p)
               y == IF est = "gigpo" THEN GigpoStep(p)
                    ELSE IF est = "rebel" THEN RebelStep(p) ELSE batch[p].step
    <3>1. batch'[p] = [batch[p] EXCEPT !.task = x, !.step = y]
      BY <1>6
    <3>2. batch[p] \in RowType
      BY <1>2, RowIs
    <3>3. (est = "gigpo" => y = GigpoStep(p)) /\ (est = "rebel" => y = RebelStep(p))
      OBVIOUS
    <3> HIDE DEF x, y
    <3>4. /\ batch'[p].traj = batch[p].traj /\ batch'[p].t = batch[p].t
          /\ batch'[p].score = batch[p].score
          /\ batch'[p].stepReward = batch[p].stepReward
          /\ batch'[p].task = x /\ batch'[p].step = y
      BY <3>1, <3>2 DEF RowType
    <3> QED BY <3>3, <3>4 DEF x
  <2>3. /\ \A i, t : Occurrences(i, t)' = Occurrences(i, t)
        /\ \A i : Positions(i)' = Positions(i)
        /\ \A p \in DOMAIN batch : PromptRows(p)' = PromptRows(p)
        /\ \A p, q \in DOMAIN batch :
             SameGroup(batch[q], batch[p])' <=> SameGroup(batch[q], batch[p])
        /\ \A p \in DOMAIN batch : PenaltyOf(batch[p])' = PenaltyOf(batch[p])
    <3>1. \A i, t : Occurrences(i, t)' = Occurrences(i, t)
      BY <2>1, <2>2 DEF Occurrences
    <3>2. \A i : Positions(i)' = Positions(i)
      BY <2>1, <2>2 DEF Positions
    <3>3. \A p \in DOMAIN batch : PromptRows(p)' = PromptRows(p)
      BY <1>1, <2>1, <2>2 DEF PromptRows
    <3>4. \A p, q \in DOMAIN batch :
            SameGroup(batch[q], batch[p])' <=> SameGroup(batch[q], batch[p])
      BY <1>1, <2>2 DEF SameGroup, StateOf
    <3>5. \A p \in DOMAIN batch : PenaltyOf(batch[p])' = PenaltyOf(batch[p])
      BY <1>1, <2>2 DEF PenaltyOf
    <3> QED BY <3>1, <3>2, <3>3, <3>4, <3>5
  <2>4. EveryStepTrains'
    BY <1>2, <1>4, <2>1, <2>3 DEF Trained, EveryStepTrains
  <2>5. ReturnsFollowTime'
    <3> SUFFICES ASSUME NEW p \in DOMAIN batch
                 PROVE  /\ est = "gigpo" =>
                             batch'[p].stepReward
                               = FromStep(Rewards(batch[p].traj)', batch'[p].t)
                                 - PenaltyOf(batch[p])'
                        /\ est = "rebel" /\ Untouched' =>
                             BeliefReturn(p)'
                               = FromStep(play[batch'[p].traj].cons, batch'[p].t)
      BY <1>1, <2>1 DEF ReturnsFollowTime
    <3>1. ASSUME est = "gigpo"
          PROVE  batch'[p].stepReward = FromStep(Rewards(batch[p].traj)', batch'[p].t)
                                        - PenaltyOf(batch[p])'
      <4>1. batch[p].stepReward
              = FromStep(Rewards(batch[p].traj), batch[p].t) - PenaltyOf(batch[p])
        BY <1>3, <3>1 DEF StepRewards
      <4> QED BY <1>4, <2>2, <2>3, <4>1
    <3>2. ASSUME Untouched'
          PROVE  BeliefReturn(p)' = FromStep(play[batch'[p].traj].cons, batch'[p].t)
      <4>1. Untouched
        BY <1>4, <2>1, <2>2, <3>2 DEF Untouched
      <4>2. BeliefReturn(p) = FromStep(play[batch[p].traj].cons, batch[p].t)
        BY <1>2, <4>1, BeliefReturnIs
      <4>3. BeliefReturn(p)' = BeliefReturn(p)
        <5> DEFINE c == [q \in DOMAIN batch |-> RCons(batch[q].traj, batch[q].t)]
        <5>1. c' = c
          BY <1>1, <2>1, <2>2 DEF RCons
        <5>2. \A col : ReturnAt(col, p)' = ReturnAt(col, p)
          BY <2>2, <2>3 DEF ReturnAt, InOrder, Rank
        <5> QED BY <5>1, <5>2 DEF BeliefReturn
      <4> QED BY <2>2, <4>2, <4>3
    <3> QED BY <3>1, <3>2
  <2>6. TrajectoriesCancel'
    <3> SUFFICES ASSUME est = "rebel"
                 PROVE  /\ \A p, q \in DOMAIN batch :
                             batch'[p].traj = batch'[q].traj
                               => batch'[p].task = batch'[q].task
                        /\ \A i \in Trajs :
                             LET group == {j \in Trajs : uid[j] = uid[i]}
                             IN  Cardinality(group) > 1 =>
                                   SumFunction([j \in group |->
                                     batch'[Max(Positions(j)')].task.num]) = 0
      BY <1>1, <2>1 DEF TrajectoriesCancel
    <3>1. \A p \in DOMAIN batch : batch'[p].task = RebelTask(p)
      BY <2>2 DEF TaskOf
    <3>2. \A p, q \in DOMAIN batch :
            batch'[p].traj = batch'[q].traj => batch'[p].task = batch'[q].task
      <4>1. \A p, q \in DOMAIN batch :
              batch[p].traj = batch[q].traj => RebelTask(p) = RebelTask(q)
        BY DEF RebelTask
      <4> QED BY <2>2, <3>1, <4>1
    <3>3. ASSUME NEW i \in Trajs,
                 NEW group, group = {j \in Trajs : uid[j] = uid[i]}, Cardinality(group) > 1
          PROVE  SumFunction([j \in group |-> batch'[Max(Positions(j)')].task.num]) = 0
      <4> DEFINE h == [j \in group |-> batch'[Max(Positions(j)')].task.num]
                 g == [j \in group |-> RebelTask(Max(Positions(j))).num]
      <4>1. \A j \in group : Max(Positions(j)) \in DOMAIN batch
        <5> TAKE j \in group
        <5>1. j \in Trajs
          BY <3>3
        <5>2. 1 \in 1 .. Length(j)
          <6>1. Length(j) \in Nat \ {0}
            BY <1>2, <5>1, EpisodeIs
          <6> QED BY <6>1
        <5>3. Positions(j) # {}
          BY <1>2, <5>1, <5>2, NoneIsLost
        <5> QED BY <1>2, <5>1, <5>3, LastIs
      <4>2. h = g
        BY <2>3, <3>1, <4>1
      <4> HIDE DEF h
      <4>3. SumFunction(g) = 0
        <5>1. g = [j \in group |-> RebelTask(Max(Positions(j))).num]
          OBVIOUS
        <5> HIDE DEF g
        <5> QED BY <1>2, <3>3, <5>1, RebelTasksCancel
      <4> QED BY <4>2, <4>3 DEF h
    <3> QED BY <3>2, <3>3
  <2>7. RowsCancel'
    <3> SUFFICES ASSUME est \in {"gigpo", "grpo", "rloo"}, NEW p \in DOMAIN batch,
                        Cardinality(PromptRows(p)') > 1
                 PROVE  SumFunction([q \in PromptRows(p)' |-> batch'[q].task.num]) = 0
      BY <1>1, <2>1 DEF RowsCancel
    <3> DEFINE S == PromptRows(p)
               h == [q \in S |-> batch'[q].task.num]
    <3>1. Cardinality(S) > 1 /\ PromptRows(p)' = S
      BY <2>3
    <3>2. S \in SUBSET DOMAIN batch
      BY <1>2, PromptRowsAre
    <3>3. \/ h = [q \in S |-> GrpoTask(q).num]
          \/ h = [q \in S |-> RlooTask(q).num]
      <4>1. \A q \in S : batch'[q].task = TaskOf(q)
        BY <2>2, <3>2
      <4>2. CASE est \in {"gigpo", "grpo"}
        <5>1. \A q \in S : batch'[q].task = GrpoTask(q)
          BY <4>1, <4>2 DEF TaskOf
        <5> QED BY <5>1
      <4>3. CASE est = "rloo"
        <5>1. \A q \in S : batch'[q].task = RlooTask(q)
          BY <4>1, <4>3 DEF TaskOf
        <5> QED BY <5>1
      <4> QED BY <4>2, <4>3
    <3>4. SumFunction(h) = 0
      <4> HIDE DEF h
      <4> QED BY <1>2, <3>1, <3>3, RowTasksCancel
    <3> QED BY <3>1, <3>4
  <2>9. LoneStepsAreNeutral'
    <3> SUFFICES ASSUME est \in {"gigpo", "rebel"}, NEW p \in DOMAIN batch,
                        \A q \in DOMAIN batch : SameGroup(batch[q], batch[p])' =>
                          batch'[q].traj = batch'[p].traj /\ batch'[q].t = batch'[p].t,
                        est = "gigpo" \/ Len(batch') = Len(Gathered')
                 PROVE  batch'[p].step.num = 0
      BY <1>1, <2>1 DEF LoneStepsAreNeutral
    <3>1. AloneInGroup(p)
      BY <2>2, <2>3 DEF AloneInGroup
    <3>2. CASE est = "gigpo"
      BY <1>2, <1>3, <2>2, <3>1, <3>2, GigpoIsNeutral
    <3>3. CASE est = "rebel"
      <4>1. Len(batch) = Len(Gathered)
        BY <1>4, <2>1, <3>3
      <4> QED BY <1>2, <2>2, <3>1, <3>3, <4>1, RebelIsNeutral
    <3> QED BY <3>2, <3>3
  <2>10. Shape' /\ Laid' /\ Kept' /\ Scored'
    BY <1>1, <1>6 DEF IInv, Shape, Laid, Kept, Scored
  <2> QED BY <2>4, <2>5, <2>6, <2>7, <2>9, <2>10 DEF IInv, TaskAdvantagesCancel
<1> QED BY <1>5, <1>6 DEF Advantage

LEMMA StepInv == IInv /\ [Next]_vars => IInv'
<1>1. ASSUME IInv, UNCHANGED vars PROVE IInv'
  <2>1. pc' = pc /\ est' = est /\ uid' = uid /\ play' = play /\ batch' = batch
    BY <1>1 DEF vars
  <2>2. Shape' /\ Laid' /\ Kept' /\ Scored'
    <3>1. /\ WellFormed' <=> WellFormed
          /\ InEpisode' <=> InEpisode
          /\ AsGathered' <=> AsGathered
          /\ Trained' <=> Trained
          /\ StepRewards(NoPenalty)' <=> StepRewards(NoPenalty)
          /\ StepRewards(PenaltyOf)' <=> StepRewards(PenaltyOf)
      BY <2>1 DEF WellFormed, InEpisode, AsGathered, Trained, StepRewards, NoPenalty,
        PenaltyOf, Length, Gathered, Row, Rewards, Reward, RCons, EnvReward, Steps,
        Occurrences
    <3> QED BY <1>1, <2>1, <3>1 DEF IInv, Shape, Laid, Kept, Scored
  <2>3. EveryStepTrains'
    BY <1>1, <2>1 DEF IInv, EveryStepTrains, Steps, Length, Occurrences
  <2>4. ReturnsFollowTime'
    <3>1. /\ \A p : BeliefReturn(p)' = BeliefReturn(p)
          /\ \A p : PenaltyOf(batch[p])' = PenaltyOf(batch[p])
          /\ \A i : Rewards(i)' = Rewards(i)
          /\ Untouched' <=> Untouched
      BY <2>1 DEF BeliefReturn, ReturnAt, InOrder, Positions, Rank, RCons, PenaltyOf,
        Rewards, Reward, EnvReward, Length, Untouched, Gathered, Row
    <3> QED BY <1>1, <2>1, <3>1 DEF IInv, ReturnsFollowTime
  <2>5. TaskAdvantagesCancel'
    <3>1. TrajectoriesCancel'
      BY <1>1, <2>1 DEF IInv, TaskAdvantagesCancel, TrajectoriesCancel, Positions
    <3>2. RowsCancel'
      BY <1>1, <2>1 DEF IInv, TaskAdvantagesCancel, RowsCancel, PromptRows
    <3> QED BY <3>1, <3>2 DEF TaskAdvantagesCancel
  <2>6. LoneStepsAreNeutral'
    BY <1>1, <2>1 DEF IInv, LoneStepsAreNeutral, SameGroup, StateOf, Gathered, Length, Row
  <2> QED BY <2>2, <2>3, <2>4, <2>5, <2>6 DEF IInv
<1> QED BY <1>1, GatherInv, StepReturnsInv, AdjustBatchInv, BalanceInv, ScoreInv,
      AdvantageInv DEF Next

-----------------------------------------------------------------------------
(* The theorems.                                                           *)

LEMMA Invariant == Spec => []IInv
BY InitInv, StepInv, PTL DEF Spec

\* adjust_batch and _balance_batch: whatever rows are copied and however they
\* are dealt out, every step of the rollout is trained on once or twice, and
\* the batch divides evenly among the ranks.
THEOREM StepsTrain == Spec => []EveryStepTrains
<1>1. IInv => EveryStepTrains
  BY DEF IInv
<1> QED BY <1>1, Invariant, PTL

\* compute_step_discounted_returns and compute_discounted_returns: the return
\* of a step is the discounted sum over the later steps of its own episode.
THEOREM ReturnsAreInTime == Spec => []ReturnsFollowTime
<1>1. IInv => ReturnsFollowTime
  BY DEF IInv
<1> QED BY <1>1, Invariant, PTL

\* compute_advantage: the task advantages of a prompt cancel out, over its
\* trajectories for ReBel, each counted once, and over its rows for GiGPO,
\* GRPO and RLOO.
THEOREM AdvantagesAreRelative == Spec => []TaskAdvantagesCancel
<1>1. IInv => TaskAdvantagesCancel
  BY DEF IInv
<1> QED BY <1>1, Invariant, PTL

\* step_norm_reward and the step part of compute_rebel_advantage: a step with
\* which no other shares its state gets no step advantage.
THEOREM LoneStepsGetNothing == Spec => []LoneStepsAreNeutral
<1>1. IInv => LoneStepsAreNeutral
  BY DEF IInv
<1> QED BY <1>1, Invariant, PTL
=============================================================================
