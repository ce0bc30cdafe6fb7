-------------------------- MODULE TokenBucketProofs --------------------------
(* Proofs of TokenBucket's bounds for every rate, cap, burst and horizon. *)
EXTENDS TokenBucket, TLAPS

\* What is still in the bucket counts against the bounds too: the tokens granted
\* in the window plus those a request would find stay within the window's
\* allowance, and the tokens granted ever plus those left within the lifetime's.
InWindow == taken - mark + Refilled =< Cap + (now - since) * rate
InLife == taken + tokens =< burst + last_refill * rate
IInv == TypeOK /\ tokens =< Cap /\ InWindow /\ InLife

\* A natural number of ticks is worth a natural number of tokens, one tick more
\* is worth rate more.
LEMMA Ticks ==
    ASSUME NEW n \in Nat
    PROVE  n * rate \in Nat /\ (n + 1) * rate = n * rate + rate
BY BucketAssumption

\* Longer is worth more.
LEMMA TicksMonotonic ==
    ASSUME NEW m \in Nat, NEW n \in Nat, m =< n
    PROVE  m * rate + (n - m) * rate = n * rate /\ m * rate =< n * rate
BY BucketAssumption

\* A refill neither takes tokens away, nor overfills, nor adds more than the
\* time since the last one is worth.
LEMMA RefilledBounds ==
    ASSUME TypeOK
    PROVE  /\ Refilled \in Nat
           /\ tokens =< Refilled
           /\ Refilled =< tokens + (now - last_refill) * rate
           /\ tokens =< Cap => Refilled =< Cap
<1> now - last_refill \in Nat
    BY DEF TypeOK
<1>1. (now - last_refill) * rate \in Nat
    BY Ticks
<1> QED
    BY <1>1, BucketAssumption DEF TypeOK, Refilled, Cap

LEMMA InitIInv == Init => IInv
BY BucketAssumption DEF Init, IInv, TypeOK, InWindow, InLife, Refilled, Cap

\* A try_take, granted or not, keeps the sum of what was granted and what is left
\* within both allowances.
LEMMA TryTakeIInv ==
    ASSUME IInv, NEW count \in Counts, try_take(count)
    PROVE  IInv'
<1> USE BucketAssumption
<1>0. count \in Nat /\ TypeOK
    BY DEF IInv
<1>1. TypeOK'
    BY <1>0, RefilledBounds DEF try_take, TypeOK
<1>2. Refilled' = tokens'
  <2>1. now' - last_refill' = 0
      BY <1>0 DEF try_take, TypeOK
  <2> QED
      BY <1>1, <2>1 DEF Refilled, TypeOK
<1>3. taken' + tokens' = taken + Refilled
    BY <1>0, RefilledBounds DEF try_take, TypeOK
<1>4. (tokens =< Cap)'
    BY <1>0, RefilledBounds DEF IInv, try_take, TypeOK, Cap
<1>5. InWindow'
  <2>1. InWindow /\ Cap' = Cap
      BY DEF IInv, Cap
  <2>2. now' = now /\ since' = since /\ mark' = mark
      BY DEF try_take
  <2>3. (now - since) \in Nat /\ (now - since) * rate \in Nat
      BY <1>0, Ticks DEF TypeOK
  <2>4. taken' - mark + tokens' =< Cap + (now - since) * rate
      BY <2>1, <2>3, <1>0, <1>1, <1>3, <2>2, RefilledBounds DEF InWindow, TypeOK, Cap
  <2> QED
      BY <2>1, <2>2, <2>4, <1>2 DEF InWindow
<1>6. InLife'
  <2>1. last_refill * rate + (now - last_refill) * rate = now * rate
      BY <1>0, TicksMonotonic DEF TypeOK
  <2>2. taken + Refilled =< burst + now * rate
    <3>1. last_refill * rate \in Nat /\ (now - last_refill) * rate \in Nat /\ now * rate \in Nat
      <4>1. last_refill \in Nat /\ now - last_refill \in Nat /\ now \in Nat
          BY <1>0 DEF TypeOK
      <4> QED
          BY <4>1, Ticks
    <3> QED
        BY <1>0, <2>1, <3>1, RefilledBounds DEF IInv, InLife, TypeOK
  <2> QED
      BY <1>3, <2>2 DEF InLife, try_take
<1> QED
    BY <1>1, <1>4, <1>5, <1>6 DEF IInv

\* Waiting a tick adds at most rate to what a request would find.
LEMMA TickIInv ==
    ASSUME IInv, Tick
    PROVE  IInv'
<1> USE BucketAssumption
<1>0. TypeOK
    BY DEF IInv
<1>1. TypeOK'
    BY <1>0 DEF Tick, TypeOK
<1>2. InLife' /\ (tokens =< Cap)'
    BY DEF IInv, InLife, Tick, Cap
<1>3. Refilled' =< Refilled + rate
  <2>1. now' - last_refill' = (now - last_refill) + 1 /\ now - last_refill \in Nat
      BY <1>0 DEF Tick, TypeOK
  <2>2. /\ (now' - last_refill') * rate = (now - last_refill) * rate + rate
        /\ (now - last_refill) * rate \in Nat
      BY <2>1, Ticks
  <2> QED
      BY <2>2, <1>0 DEF Refilled, Tick, TypeOK
<1>4. InWindow'
  <2>1. now' - since' = (now - since) + 1 /\ now - since \in Nat
      BY <1>0 DEF Tick, TypeOK
  <2>2. /\ (now' - since') * rate = (now - since) * rate + rate
        /\ (now - since) * rate \in Nat
      BY <2>1, Ticks
  <2>3. Refilled \in Nat /\ Refilled' \in Nat
      BY <1>0, <1>1, RefilledBounds DEF TypeOK, Refilled
  <2>4. taken' = taken /\ mark' = mark /\ Cap' = Cap /\ Cap \in Nat /\ rate \in Nat
      BY DEF Tick, Cap
  <2>5. taken - mark + Refilled =< Cap + (now - since) * rate
      BY DEF IInv, InWindow
  <2>6. taken - mark + Refilled' =< Cap + (now' - since') * rate
      BY <1>0, <1>3, <2>2, <2>3, <2>4, <2>5 DEF TypeOK
  <2> QED
      BY <2>4, <2>6 DEF InWindow
<1> QED
    BY <1>1, <1>2, <1>4 DEF IInv

\* A window may start at any moment, because the bucket is never above its cap.
LEMMA MarkIInv ==
    ASSUME IInv, Mark
    PROVE  IInv'
<1> USE BucketAssumption
<1>0. TypeOK /\ tokens =< Cap
    BY DEF IInv
<1>1. TypeOK' /\ InLife' /\ (tokens =< Cap)'
    BY <1>0 DEF IInv, InLife, Mark, TypeOK, Cap
<1>2. Refilled' = Refilled /\ Refilled =< Cap /\ Refilled \in Nat
    BY <1>0, RefilledBounds DEF Mark, Refilled
<1>3. now' - since' = 0 /\ taken' - mark' = 0
    BY <1>0 DEF Mark, TypeOK
<1>4. InWindow'
    BY <1>2, <1>3 DEF InWindow, Cap
<1> QED
    BY <1>1, <1>4 DEF IInv

\* The inductive invariant of the bucket holds for every rate, cap and burst.
THEOREM BucketInvariant == Spec => []IInv
<1>1. IInv /\ [Next]_bvars => IInv'
  <2> SUFFICES ASSUME IInv, [Next]_bvars PROVE IInv'
      OBVIOUS
  <2>1. CASE \E count \in Counts : try_take(count)
      BY <2>1, TryTakeIInv
  <2>2. CASE Tick
      BY <2>2, TickIInv
  <2>3. CASE Mark
      BY <2>3, MarkIInv
  <2>4. CASE UNCHANGED bvars
      BY <2>4 DEF IInv, TypeOK, InWindow, InLife, Refilled, Cap, bvars
  <2> QED
      BY <2>1, <2>2, <2>3, <2>4 DEF Next
<1> QED
    BY <1>1, InitIInv, PTL DEF Spec

\* In any window of time a client is granted at most the cap plus the rate for
\* each tick: TokenBucket::try_take cannot be outwitted by timing or by refusals.
THEOREM WindowBoundHolds == Spec => []WindowBound
<1>1. IInv => WindowBound
  <2> SUFFICES ASSUME IInv PROVE WindowBound
      OBVIOUS
  <2>1. TypeOK /\ Refilled \in Nat
      BY RefilledBounds DEF IInv
  <2>2. now - since \in Nat /\ (now - since) * rate \in Nat
      BY <2>1, Ticks DEF TypeOK
  <2> QED
      BY <2>1, <2>2, BucketAssumption DEF IInv, InWindow, WindowBound, TypeOK, Cap
<1> QED
    BY <1>1, BucketInvariant, PTL

\* Since its creation a bucket has granted at most its burst plus the rate for
\* each tick, max notwithstanding.
THEOREM LifetimeBoundHolds == Spec => []LifetimeBound
<1>1. IInv => LifetimeBound
  <2> SUFFICES ASSUME IInv PROVE LifetimeBound
      OBVIOUS
  <2>1. TypeOK
      BY DEF IInv
  <2>2. /\ last_refill * rate \in Nat /\ now * rate \in Nat
        /\ last_refill * rate =< now * rate
      BY <2>1, Ticks, TicksMonotonic DEF TypeOK
  <2> QED
      BY <2>1, <2>2, BucketAssumption DEF IInv, InLife, LifetimeBound, TypeOK
<1> QED
    BY <1>1, BucketInvariant, PTL

\* A client that keeps to the rate is never refused: a tick after the last
\* request the bucket holds at least rate tokens, below or above max.
THEOREM SteadyClientServedHolds == Spec => []SteadyClientServed
<1>1. IInv => SteadyClientServed
  <2> SUFFICES ASSUME IInv, now > last_refill, NEW c \in Counts, c =< rate
               PROVE  c =< Refilled
      BY DEF SteadyClientServed
  <2>1. TypeOK
      BY DEF IInv
  <2>2. now - last_refill - 1 \in Nat
      BY <2>1 DEF TypeOK
  <2>3. /\ (now - last_refill - 1) * rate \in Nat
        /\ (now - last_refill) * rate = (now - last_refill - 1) * rate + rate
    <3>1. now - last_refill = (now - last_refill - 1) + 1
        BY <2>1 DEF TypeOK
    <3> QED
        BY <2>2, <3>1, Ticks
  <2> QED
      BY <2>1, <2>3, BucketAssumption DEF Refilled, TypeOK
<1> QED
    BY <1>1, BucketInvariant, PTL

\* The numbers of a bucket stay natural: neither the subtraction of count in
\* try_take nor that of last_refill from the clock can wrap around.
THEOREM TypeCorrect == Spec => []TypeOK
<1>1. IInv => TypeOK
    BY DEF IInv
<1> QED
    BY <1>1, BucketInvariant, PTL
=============================================================================
