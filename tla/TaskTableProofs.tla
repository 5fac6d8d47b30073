--------------------------- MODULE TaskTableProofs ---------------------------
(* What the proofs about modules that use TaskTable share. *)
EXTENDS TaskTable, TLAPS

(* The delay computed for an attempt that was counted is a time span. *)
LEMMA RetryDelayType ==
    ASSUME NEW n \in 1..MaxAttempts
    PROVE  RetryDelay(n) \in Nat
<1> USE TableAssumption
<1>1. n - 1 \in 0..MaxAttempts /\ n \in Nat
  OBVIOUS
<1>2. 2^(n - 1) \in Nat
  BY <1>1, PowersAssumption
<1>3. Backoff * n \in Nat /\ \A k \in Nat : Backoff * k \in Nat
  BY <1>1
<1> DEFINE power == 2^(n - 1)
<1>4. Backoff * power \in Nat
  <2> HIDE DEF power
  <2> power \in Nat
    BY <1>2 DEF power
  <2> QED
    BY <1>3
<1> QED
  BY <1>3, <1>4 DEF RetryDelay
=============================================================================
