----------------------------- MODULE TokenBucket -----------------------------
(***************************************************************************)
(* The rate limiter behind every budget of the server (tokens.rs): peers,  *)
(* lobbies, players and sessions each own buckets, and a refused request   *)
(* usually costs the client its connection.  Tokens and time are integers  *)
(* here, f32 and Instant in the code: f32 rounding is left out.            *)
(*                                                                         *)
(* taken, mark and since are history: all tokens granted, and a window that*)
(* may start anywhere (Mark), for stating how much a client can get.       *)
(***************************************************************************)
EXTENDS Integers

CONSTANTS
    rate,      \* tokens per tick
    max,       \* refilling stops here
    burst,     \* what a new bucket holds; may exceed max
    Counts,    \* how much clients ask for
    Horizon    \* bound: the last tick explored

ASSUME BucketAssumption ==
    /\ rate \in Nat \ {0} /\ max \in Nat /\ burst \in Nat
    /\ rate =< max          \* true of every bucket the server makes
    /\ Counts \subseteq Nat /\ Horizon \in Nat

VARIABLES tokens, last_refill, now, taken, mark, since

bvars == <<tokens, last_refill, now, taken, mark, since>>

TypeOK ==
    /\ {tokens, last_refill, now, taken, mark, since} \subseteq Nat
    /\ last_refill =< now /\ since =< now /\ mark =< taken

\* TokenBucket::new at time 0.
Init ==
    /\ tokens = burst
    /\ last_refill = 0 /\ now = 0
    /\ taken = 0 /\ mark = 0 /\ since = 0

\* Mutants of Refilled: no cap; an overfull refill is skipped instead of capped.
RefilledUncapped == tokens + (now - last_refill) * rate
RefilledOrNot ==
    LET full == tokens + (now - last_refill) * rate
    IN  IF tokens =< max /\ full =< max THEN full ELSE tokens

\* The tokens a try_take at this moment finds: a bucket above max is not refilled.
Refilled ==
    LET full == tokens + (now - last_refill) * rate
    IN  IF tokens =< max THEN (IF full =< max THEN full ELSE max) ELSE tokens

\* Mutants of try_take: no check; a refusal does not move last_refill.
try_take_always(count) ==
    /\ last_refill' = now /\ tokens' = Refilled - count /\ taken' = taken + count
    /\ UNCHANGED <<now, mark, since>>
try_take_again(count) ==
    /\ \/ /\ Refilled < count
          /\ tokens' = Refilled
          /\ UNCHANGED <<taken, last_refill>>
       \/ /\ Refilled >= count
          /\ tokens' = Refilled - count
          /\ taken' = taken + count /\ last_refill' = now
    /\ UNCHANGED <<now, mark, since>>

\* try_take: the refill happens whether or not the request is granted.
try_take(count) ==
    /\ last_refill' = now
    /\ \/ /\ Refilled < count
          /\ tokens' = Refilled
          /\ UNCHANGED taken
       \/ /\ Refilled >= count
          /\ tokens' = Refilled - count
          /\ taken' = taken + count
    /\ UNCHANGED <<now, mark, since>>

Tick ==
    /\ now < Horizon
    /\ now' = now + 1
    /\ UNCHANGED <<tokens, last_refill, taken, mark, since>>

Mark ==
    /\ mark' = taken /\ since' = now
    /\ UNCHANGED <<tokens, last_refill, now, taken>>

Next == (\E count \in Counts : try_take(count)) \/ Tick \/ Mark

Spec == Init /\ [][Next]_bvars

-----------------------------------------------------------------------------
(* Properties *)

Cap == IF burst >= max THEN burst ELSE max

\* However requests are timed, a client never gets more than the cap and the
\* rate allow: in any window of time the tokens granted are at most the largest
\* filling plus rate for every tick of the window.
WindowBound == taken - mark =< Cap + (now - since) * rate

\* From the bucket's creation on the initial burst is the only extra, although
\* refusals also refill and although max may exceed burst.
LifetimeBound == taken =< burst + now * rate

\* A client that asks for at most rate tokens and not twice in a tick is never
\* refused, also while the bucket is above max and not refilling.
SteadyClientServed ==
    now > last_refill => \A c \in Counts : c =< rate => c =< Refilled
=============================================================================
