--------------------------- MODULE SnowflakeProofs ---------------------------
(***************************************************************************)
(* Proofs about the ID generator for every number of processes, goroutines *)
(* and clock readings, and for every width of the two lower ID fields.     *)
(***************************************************************************)
EXTENDS Snowflake, TLAPS

-----------------------------------------------------------------------------
(* Arithmetic of the packed representation                                 *)

(* A larger high field outweighs any low field smaller than its unit B.    *)
LEMMA HighFieldDecides ==
    ASSUME NEW a \in Nat, NEW b \in Nat, NEW B \in Nat, NEW x \in Nat,
           NEW y \in Nat, a < b, x < B
    PROVE  a * B + x < b * B + y
<1> DEFINE d == b - a - 1
<1>1. d \in Nat
  OBVIOUS
<1>2. d * B \in Nat
  BY <1>1
<1>3. b * B = a * B + B + d * B
  <2>1. b = a + 1 + d
    OBVIOUS
  <2> HIDE DEF d
  <2>2. (a + 1 + d) * B = a * B + B + d * B
    BY <1>1
  <2> QED
    BY <2>1, <2>2
<1>4. a * B \in Nat /\ b * B \in Nat
  OBVIOUS
<1> HIDE DEF d
<1> QED
  BY <1>2, <1>3, <1>4

(* The fields of an ID keep to their widths.                               *)
LEMMA WorkerIDType == \A n \in Nodes : workerID(n) \in 0..MaxWorkerID
  BY WorkerIDAssumption, BoundsAssumption DEF workerID, NewGenerator

(* A packed ID is a natural number within the ID space.                    *)
LEMMA PackType ==
    ASSUME NEW stamp \in 0..MaxClock, NEW w \in 0..MaxWorkerID,
           NEW seq \in 0..MaxSequence
    PROVE  Pack(stamp, w, seq) \in IDSpace
<1> USE BoundsAssumption
<1> DEFINE W == MaxWorkerID + 1  S == MaxSequence + 1
           lo == stamp * W + w
           hi == MaxClock * W + MaxWorkerID
<1>1. /\ stamp \in Nat /\ w \in Nat /\ seq \in Nat
      /\ W \in Nat /\ S \in Nat /\ MaxClock \in Nat
  OBVIOUS
<1>2. lo \in Nat /\ hi \in Nat
  BY <1>1
<1>3. lo <= hi
  <2>1. CASE stamp = MaxClock
    BY <2>1, <1>1
  <2>2. CASE stamp < MaxClock
    <3>1. stamp * W + w < MaxClock * W + MaxWorkerID
      BY <2>2, <1>1, HighFieldDecides
    <3> QED
      BY <3>1, <1>2
  <2> QED
    BY <2>1, <2>2
<1> HIDE DEF lo, hi, S
<1>4. lo * S + seq \in Nat /\ hi * S + MaxSequence \in Nat
  BY <1>1, <1>2
<1>5. lo * S + seq <= hi * S + MaxSequence
  <2>1. CASE lo = hi
    BY <2>1, <1>1, <1>2
  <2>2. CASE lo < hi
    <3>1. seq < S
      BY DEF S
    <3>2. lo * S + seq < hi * S + MaxSequence
      BY <2>2, <3>1, <1>1, <1>2, HighFieldDecides
    <3> QED
      BY <3>2, <1>4
  <2> QED
    BY <2>1, <2>2, <1>2, <1>3
<1>6. Pack(stamp, w, seq) = lo * S + seq
  BY DEF Pack, lo, S
<1>7. Pack(MaxClock, MaxWorkerID, MaxSequence) = hi * S + MaxSequence
  BY DEF Pack, hi, S
<1> QED
  BY <1>4, <1>5, <1>6, <1>7 DEF IDSpace

(* On one node, a later (stamp, sequence) pair packs to a larger ID.       *)
LEMMA PackOrder ==
    ASSUME NEW s1 \in Nat, NEW s2 \in Nat, NEW w \in 0..MaxWorkerID,
           NEW q1 \in 0..MaxSequence, NEW q2 \in 0..MaxSequence,
           s1 < s2 \/ (s1 = s2 /\ q1 < q2)
    PROVE  Pack(s1, w, q1) < Pack(s2, w, q2)
<1> USE BoundsAssumption
<1> DEFINE W == MaxWorkerID + 1  S == MaxSequence + 1
           a == s1 * W + w
           b == s2 * W + w
<1>1. W \in Nat /\ S \in Nat /\ w \in Nat /\ q1 \in Nat /\ q2 \in Nat /\ q1 < S
  OBVIOUS
<1>2. a \in Nat /\ b \in Nat
  BY <1>1
<1>3. CASE s1 < s2
  <2>1. a < b
    BY <1>1, <1>3, HighFieldDecides
  <2> HIDE DEF a, b, S
  <2>2. a * S + q1 < b * S + q2
    BY <2>1, <1>1, <1>2, HighFieldDecides
  <2> QED
    BY <2>2 DEF Pack, a, b, S
<1>4. CASE s1 = s2 /\ q1 < q2
  <2>1. a = b
    BY <1>4
  <2> HIDE DEF a, b, S
  <2>2. a * S \in Nat
    BY <1>1, <1>2
  <2>3. a * S + q1 < b * S + q2
    BY <2>1, <2>2, <1>1, <1>4
  <2> QED
    BY <2>3 DEF Pack, a, b, S
<1> QED
  BY <1>3, <1>4

(* Equal IDs carry equal worker IDs.                                       *)
LEMMA PackWorker ==
    ASSUME NEW s1 \in Nat, NEW s2 \in Nat,
           NEW w1 \in 0..MaxWorkerID, NEW w2 \in 0..MaxWorkerID,
           NEW q1 \in 0..MaxSequence, NEW q2 \in 0..MaxSequence,
           Pack(s1, w1, q1) = Pack(s2, w2, q2)
    PROVE  w1 = w2
<1> USE BoundsAssumption
<1> DEFINE W == MaxWorkerID + 1  S == MaxSequence + 1
           a == s1 * W + w1
           b == s2 * W + w2
<1>1. /\ W \in Nat /\ S \in Nat /\ w1 \in Nat /\ w2 \in Nat
      /\ q1 \in Nat /\ q2 \in Nat /\ q1 < S /\ q2 < S /\ w1 < W /\ w2 < W
  OBVIOUS
<1>2. a \in Nat /\ b \in Nat
  BY <1>1
<1>3. a * S + q1 = b * S + q2
  BY DEF Pack
<1>4. a = b
  <2> HIDE DEF a, b, S
  <2>1. ~(a < b)
    BY <1>1, <1>2, <1>3, HighFieldDecides
  <2>2. ~(b < a)
    BY <1>1, <1>2, <1>3, HighFieldDecides
  <2> QED
    BY <1>2, <2>1, <2>2
<1>5. s1 = s2
  <2>1. s1 * W + w1 = s2 * W + w2
    BY <1>4
  <2> HIDE DEF a, b, S, W
  <2>2. ~(s1 < s2)
    BY <1>1, <2>1, HighFieldDecides
  <2>3. ~(s2 < s1)
    BY <1>1, <2>1, HighFieldDecides
  <2> QED
    BY <2>2, <2>3
<1> QED
  <2>1. s1 * W \in Nat
    BY <1>1
  <2>2. s1 * W + w1 = s1 * W + w2
    BY <1>4, <1>5
  <2> HIDE DEF a, b, S, W
  <2> QED
    BY <2>1, <2>2, <1>1

-----------------------------------------------------------------------------
(* The inductive invariant                                                 *)

IInv == TypeOK /\ GeneratorInvariant

(* A fresh set of processes has handed out nothing and holds no mutex.     *)
LEMMA InitEstablishes == Init => IInv
  BY BoundsAssumption
  DEF Init, IInv, TypeOK, GeneratorInvariant, OneSpinner, IssuedBehind, Locked

(* Returning an ID later than everything handed out keeps the invariant:   *)
(* the common part of the three ways in which Next() returns.              *)
LEMMA ReturnKeeps ==
    ASSUME IInv, NEW n \in Nodes, NEW c \in Callers,
           NEW stamp \in 0..MaxClock, NEW seq \in 0..MaxSequence,
           Return(n, c, stamp, seq), stamp = clock[n],
           \A d \in Callers : pc[n][d] = "spin" => d = c,
           \A s \in 0..MaxClock, q \in 0..MaxSequence :
               BehindGenerator(n, s, q) => s < stamp \/ (s = stamp /\ q <= seq)
    PROVE  IInv'
<1> USE BoundsAssumption, WorkerIDType
<1> DEFINE new == Pack(stamp, workerID(n), seq)
<1>1. new \in IDSpace
  BY PackType
<1>2. TypeOK'
  <2>1. issued' \in [Nodes -> Seq(IDSpace)]
    <3> HIDE DEF new
    <3>1. issued' = [issued EXCEPT ![n] = Append(@, new)]
      BY DEF Return, new
    <3> QED
      BY <1>1, <3>1 DEF IInv, TypeOK
  <2>2. pc' \in [Nodes -> [Callers -> {"idle", "blocked", "spin"}]]
    BY DEF IInv, TypeOK, Return
  <2> QED
    BY <2>1, <2>2 DEF IInv, TypeOK, Return
<1>3. ~Locked(n)'
  BY DEF IInv, TypeOK, Return, Locked
<1>4. \A m \in Nodes \ {n} : Locked(m)' = Locked(m)
  BY DEF IInv, TypeOK, Return, Locked
<1>5. OneSpinner'
  <2> SUFFICES ASSUME NEW m \in Nodes
               PROVE  /\ lastStamp'[m] <= clock'[m]
                      /\ \A d, e \in Callers :
                            pc'[m][d] = "spin" /\ pc'[m][e] = "spin" => d = e
                      /\ Locked(m)' => sequence'[m] = 0
    BY DEF OneSpinner
  <2>1. CASE m = n
    BY <1>3, <2>1 DEF IInv, TypeOK, Return, Locked
  <2>2. CASE m # n
    BY <1>4, <2>2 DEF IInv, TypeOK, GeneratorInvariant, OneSpinner, Return
  <2> QED
    BY <2>1, <2>2
<1>6. IssuedBehind'
  <2> SUFFICES ASSUME NEW m \in Nodes, NEW i \in DOMAIN issued'[m]
               PROVE  \E s \in 0..MaxClock, q \in 0..MaxSequence :
                        /\ issued'[m][i] = Pack(s, workerID(m), q)
                        /\ BehindGenerator(m, s, q)'
    BY DEF IssuedBehind
  <2>1. CASE m # n
    <3>1. /\ issued'[m] = issued[m] /\ clock' = clock
          /\ lastStamp'[m] = lastStamp[m] /\ sequence'[m] = sequence[m]
      BY <2>1 DEF IInv, TypeOK, Return
    <3>2. PICK s \in 0..MaxClock, q \in 0..MaxSequence :
             issued[m][i] = Pack(s, workerID(m), q) /\ BehindGenerator(m, s, q)
      BY <3>1 DEF IInv, GeneratorInvariant, IssuedBehind
    <3>3. BehindGenerator(m, s, q)'
      BY <2>1, <1>4, <3>1, <3>2 DEF BehindGenerator
    <3> QED
      BY <3>1, <3>2, <3>3
  <2>2. CASE m = n
    <3>1. /\ issued[n] \in Seq(IDSpace) /\ issued'[n] = Append(issued[n], new)
          /\ clock' = clock /\ lastStamp'[n] = stamp /\ sequence'[n] = seq
      BY DEF IInv, TypeOK, Return
    <3>2. \A s \in 0..MaxClock, q \in 0..MaxSequence :
             s < stamp \/ (s = stamp /\ q <= seq) => BehindGenerator(n, s, q)'
      BY <1>3, <3>1 DEF BehindGenerator
    <3>3. CASE i = Len(issued[n]) + 1
      <4>1. issued'[n][i] = new
        BY <3>1, <3>3
      <4>2. BehindGenerator(n, stamp, seq)'
        BY <3>2
      <4> QED
        BY <2>2, <4>1, <4>2
    <3>4. CASE i # Len(issued[n]) + 1
      <4> HIDE DEF new
      <4>1. i \in DOMAIN issued[n] /\ issued'[n][i] = issued[n][i]
        BY <2>2, <3>1, <3>4, <1>1
      <4>2. PICK s \in 0..MaxClock, q \in 0..MaxSequence :
               issued[n][i] = Pack(s, workerID(n), q) /\ BehindGenerator(n, s, q)
        BY <4>1 DEF IInv, GeneratorInvariant, IssuedBehind
      <4>3. BehindGenerator(n, s, q)'
        BY <3>2, <4>2
      <4> QED
        BY <2>2, <4>1, <4>2, <4>3
    <3> QED
      BY <3>3, <3>4
  <2> QED
    BY <2>1, <2>2
<1> QED
  BY <1>2, <1>5, <1>6 DEF IInv, GeneratorInvariant

(* The three returns of Next() return something later than everything      *)
(* handed out by the node, which is what ReturnKeeps and the refinement    *)
(* need.                                                                   *)
Returns(n, c, stamp, seq) ==
    /\ Return(n, c, stamp, seq)
    /\ stamp = clock[n]
    /\ \A d \in Callers : pc[n][d] = "spin" => d = c
    /\ \A s \in 0..MaxClock, q \in 0..MaxSequence :
          BehindGenerator(n, s, q) => s < stamp \/ (s = stamp /\ q < seq)

(* Every return of Next() is a Returns step.                               *)
LEMMA ReturnIsLater ==
    ASSUME IInv, NEW n \in Nodes, NEW c \in Callers,
           NextSameMilli(n, c) \/ NextNewMilli(n, c) \/ SpinEnds(n, c)
    PROVE  \E stamp \in 0..MaxClock, seq \in 0..MaxSequence :
              Returns(n, c, stamp, seq)
<1> USE BoundsAssumption
<1>1. /\ clock[n] \in 1..MaxClock /\ lastStamp[n] \in 0..MaxClock
      /\ sequence[n] \in 0..MaxSequence /\ lastStamp[n] <= clock[n]
  BY DEF IInv, TypeOK, GeneratorInvariant, OneSpinner
<1>2. CASE NextSameMilli(n, c)
  <2>1. NextSequence(n) \in 0..MaxSequence /\ NextSequence(n) = sequence[n] + 1
    <3>1. CASE sequence[n] + 1 <= MaxSequence
      BY <1>1, <3>1 DEF NextSequence
    <3>2. CASE sequence[n] = MaxSequence
      BY <1>1, <1>2, <3>2 DEF NextSequence, NextSameMilli
    <3> QED
      BY <1>1, <3>1, <3>2
  <2>2. Returns(n, c, clock[n], NextSequence(n))
    BY <1>1, <1>2, <2>1
    DEF NextSameMilli, TakesLock, Locked, Returns, BehindGenerator
  <2> QED
    BY <1>1, <2>1, <2>2
<1>3. CASE NextNewMilli(n, c)
  <2>1. Returns(n, c, clock[n], 0)
    BY <1>1, <1>3 DEF NextNewMilli, TakesLock, Locked, Returns, BehindGenerator
  <2> QED
    BY <1>1, <2>1
<1>4. CASE SpinEnds(n, c)
  <2>1. Locked(n)
    BY <1>4 DEF SpinEnds, Locked
  <2>2. \A d \in Callers : pc[n][d] = "spin" => d = c
    BY <1>4 DEF SpinEnds, IInv, GeneratorInvariant, OneSpinner
  <2>3. Returns(n, c, clock[n], sequence[n])
    BY <1>1, <1>4, <2>1, <2>2 DEF SpinEnds, Returns, BehindGenerator
  <2> QED
    BY <1>1, <2>3
<1> QED
  BY <1>2, <1>3, <1>4

(* No step leaves the inductive invariant.                                 *)
LEMMA StepKeeps == IInv /\ [Next]_vars => IInv'
<1> USE BoundsAssumption
<1> SUFFICES ASSUME IInv, [Next]_vars
             PROVE  IInv'
  OBVIOUS
<1>1. CASE UNCHANGED vars
  BY <1>1 DEF vars, IInv, TypeOK, GeneratorInvariant, OneSpinner, IssuedBehind,
              BehindGenerator, Locked
<1>2. ASSUME NEW n \in Nodes, Tick(n)
      PROVE  IInv'
  <2>1. TypeOK'
    BY <1>2 DEF IInv, TypeOK, Tick
  <2>2. \A m \in Nodes : clock'[m] \in 1..MaxClock /\ clock[m] \in 1..MaxClock
                          /\ clock[m] <= clock'[m]
    BY <1>2 DEF IInv, TypeOK, Tick
  <2>3. OneSpinner'
    BY <1>2, <2>2
    DEF IInv, TypeOK, GeneratorInvariant, OneSpinner, Locked, Tick
  <2>4. \A m \in Nodes, s \in 0..MaxClock, q \in 0..MaxSequence :
           BehindGenerator(m, s, q) => BehindGenerator(m, s, q)'
    BY <1>2, <2>2 DEF BehindGenerator, Locked, Tick
  <2>5. IssuedBehind'
    BY <1>2, <2>4 DEF IInv, GeneratorInvariant, IssuedBehind, Tick
  <2> QED
    BY <2>1, <2>3, <2>5 DEF IInv, GeneratorInvariant
<1>3. ASSUME NEW n \in Nodes, Restart(n)
      PROVE  IInv'
  <2>1. TypeOK'
    BY <1>3 DEF IInv, TypeOK, Restart
  <2>2. /\ ~Locked(n)' /\ lastStamp'[n] = 0 /\ clock' = clock
        /\ \A m \in Nodes \ {n} : /\ Locked(m)' = Locked(m)
                                   /\ lastStamp'[m] = lastStamp[m]
                                   /\ sequence'[m] = sequence[m]
    BY <1>3 DEF IInv, TypeOK, Restart, Locked
  <2>3. OneSpinner'
    BY <1>3, <2>2 DEF IInv, TypeOK, GeneratorInvariant, OneSpinner, Locked, Restart
  <2>4. \A m \in Nodes, s \in 0..MaxClock, q \in 0..MaxSequence :
           BehindGenerator(m, s, q) => BehindGenerator(m, s, q)'
    <3> SUFFICES ASSUME NEW m \in Nodes, NEW s \in 0..MaxClock,
                        NEW q \in 0..MaxSequence, BehindGenerator(m, s, q)
                 PROVE  BehindGenerator(m, s, q)'
      OBVIOUS
    <3>1. CASE m = n
      BY <1>3, <2>2, <3>1 DEF BehindGenerator, Restart, IInv, TypeOK
    <3>2. CASE m # n
      BY <2>2, <3>2 DEF BehindGenerator
    <3> QED
      BY <3>1, <3>2
  <2>5. IssuedBehind'
    BY <1>3, <2>4 DEF IInv, GeneratorInvariant, IssuedBehind, Restart
  <2> QED
    BY <2>1, <2>3, <2>5 DEF IInv, GeneratorInvariant
<1>4. ASSUME NEW n \in Nodes, NEW c \in Callers, Call(n, c)
      PROVE  IInv'
  <2>1. TypeOK'
    BY <1>4 DEF IInv, TypeOK, Call
  <2>2. \A m \in Nodes, d \in Callers : pc'[m][d] = "spin" <=> pc[m][d] = "spin"
    BY <1>4 DEF IInv, TypeOK, Call
  <2>3. \A m \in Nodes : Locked(m)' <=> Locked(m)
    BY <2>2 DEF Locked
  <2>4. OneSpinner'
    BY <1>4, <2>2, <2>3 DEF IInv, GeneratorInvariant, OneSpinner, Call
  <2>5. \A m \in Nodes, s \in 0..MaxClock, q \in 0..MaxSequence :
           BehindGenerator(m, s, q) => BehindGenerator(m, s, q)'
    BY <1>4, <2>3 DEF BehindGenerator, Call
  <2>6. IssuedBehind'
    BY <1>4, <2>5 DEF IInv, GeneratorInvariant, IssuedBehind, Call
  <2> QED
    BY <2>1, <2>4, <2>6 DEF IInv, GeneratorInvariant
<1>5. ASSUME NEW n \in Nodes, NEW c \in Callers, NextExhausted(n, c)
      PROVE  IInv'
  <2>1. TypeOK'
    BY <1>5 DEF IInv, TypeOK, NextExhausted
  <2>2. /\ ~Locked(n) /\ Locked(n)' /\ lastStamp' = lastStamp
        /\ clock' = clock /\ clock[n] = lastStamp[n] /\ sequence'[n] = 0
        /\ \A d \in Callers : pc'[n][d] = "spin" => d = c
        /\ \A m \in Nodes \ {n} : /\ Locked(m)' = Locked(m)
                                   /\ pc'[m] = pc[m]
                                   /\ sequence'[m] = sequence[m]
    BY <1>5 DEF IInv, TypeOK, NextExhausted, TakesLock, Locked
  <2>3. OneSpinner'
    <3> SUFFICES ASSUME NEW m \in Nodes
                 PROVE  /\ lastStamp'[m] <= clock'[m]
                        /\ \A d, e \in Callers :
                              pc'[m][d] = "spin" /\ pc'[m][e] = "spin" => d = e
                        /\ Locked(m)' => sequence'[m] = 0
      BY DEF OneSpinner
    <3>1. CASE m = n
      BY <2>2, <3>1 DEF IInv, GeneratorInvariant, OneSpinner
    <3>2. CASE m # n
      BY <2>2, <3>2 DEF IInv, GeneratorInvariant, OneSpinner
    <3> QED
      BY <3>1, <3>2
  <2>4. \A m \in Nodes, s \in 0..MaxClock, q \in 0..MaxSequence :
           BehindGenerator(m, s, q) => BehindGenerator(m, s, q)'
    <3> SUFFICES ASSUME NEW m \in Nodes, NEW s \in 0..MaxClock,
                        NEW q \in 0..MaxSequence, BehindGenerator(m, s, q)
                 PROVE  BehindGenerator(m, s, q)'
      OBVIOUS
    <3>1. CASE m = n
      BY <2>2, <3>1 DEF BehindGenerator, IInv, TypeOK
    <3>2. CASE m # n
      BY <2>2, <3>2 DEF BehindGenerator
    <3> QED
      BY <3>1, <3>2
  <2>5. IssuedBehind'
    BY <1>5, <2>4 DEF IInv, GeneratorInvariant, IssuedBehind, NextExhausted
  <2> QED
    BY <2>1, <2>3, <2>5 DEF IInv, GeneratorInvariant
<1>6. ASSUME NEW n \in Nodes, NEW c \in Callers,
             NextSameMilli(n, c) \/ NextNewMilli(n, c) \/ SpinEnds(n, c)
      PROVE  IInv'
  <2>1. PICK stamp \in 0..MaxClock, seq \in 0..MaxSequence :
           Returns(n, c, stamp, seq)
    BY <1>6, ReturnIsLater
  <2>2. \A s \in 0..MaxClock, q \in 0..MaxSequence :
           BehindGenerator(n, s, q) => s < stamp \/ (s = stamp /\ q <= seq)
    BY <2>1 DEF Returns
  <2> QED
    BY <2>1, <2>2, ReturnKeeps DEF Returns
<1> QED
  BY <1>1, <1>2, <1>3, <1>4, <1>5, <1>6 DEF Next, ProcessStep

(* The clock, the generator's fields, the goroutines' positions and the    *)
(* IDs stay within the ranges of snowflake.go in every reachable state.    *)
THEOREM TypeCorrect == Spec => []TypeOK
<1>1. IInv => TypeOK
  BY DEF IInv
<1> QED
  BY InitEstablishes, StepKeeps, <1>1, PTL DEF Spec

(* No ID handed out can be produced again: each lies behind the position   *)
(* of its node's generator, and one goroutine at a time is in the busy     *)
(* wait of Next().                                                         *)
THEOREM GeneratorSafe == Spec => []GeneratorInvariant
<1>1. IInv => GeneratorInvariant
  BY DEF IInv
<1> QED
  BY InitEstablishes, StepKeeps, <1>1, PTL DEF Spec

(* A return of Next() is an Issue step of the oracle.                      *)
LEMMA ReturnIssues ==
    ASSUME IInv, NEW n \in Nodes, NEW c \in Callers,
           NEW stamp \in 0..MaxClock, NEW seq \in 0..MaxSequence,
           Returns(n, c, stamp, seq)
    PROVE  Oracle!Next
<1> USE BoundsAssumption, WorkerIDType
<1> DEFINE new == Pack(stamp, workerID(n), seq)
<1>1. new \in IDSpace
  BY PackType
<1>2. \A i \in DOMAIN issued[n] : issued[n][i] < new
  <2> SUFFICES ASSUME NEW i \in DOMAIN issued[n]
               PROVE  issued[n][i] < new
    OBVIOUS
  <2>1. PICK s \in 0..MaxClock, q \in 0..MaxSequence :
           issued[n][i] = Pack(s, workerID(n), q) /\ BehindGenerator(n, s, q)
    BY DEF IInv, GeneratorInvariant, IssuedBehind
  <2>2. s < stamp \/ (s = stamp /\ q < seq)
    BY <2>1 DEF Returns
  <2>3. Pack(s, workerID(n), q) < Pack(stamp, workerID(n), seq)
    BY <2>2, PackOrder
  <2> QED
    BY <2>1, <2>3
<1>3. new \notin Oracle!TakenElsewhere(n)
  <2> SUFFICES ASSUME NEW m \in Nodes \ {n}, NEW i \in DOMAIN issued[m],
                      issued[m][i] = new
               PROVE  FALSE
    BY DEF Oracle!TakenElsewhere
  <2>1. PICK s \in 0..MaxClock, q \in 0..MaxSequence :
           issued[m][i] = Pack(s, workerID(m), q)
    BY DEF IInv, GeneratorInvariant, IssuedBehind
  <2>2. Pack(s, workerID(m), q) = Pack(stamp, workerID(n), seq)
    BY <2>1
  <2>3. /\ workerID(m) \in 0..MaxWorkerID /\ workerID(n) \in 0..MaxWorkerID
        /\ s \in Nat /\ stamp \in Nat
    OBVIOUS
  <2>4. workerID(m) = workerID(n)
    <3> HIDE DEF new
    <3> QED
      BY <2>2, <2>3, PackWorker
  <2> QED
    BY <2>4, UniqueWorkers
<1>4. Oracle!Issue(n, new)
  BY <1>2, <1>3 DEF Oracle!Issue, Returns, Return
<1> QED
  BY <1>1, <1>4 DEF Oracle!Next

(* The generators implement the oracle: on every node the IDs strictly     *)
(* grow, and no ID is handed out twice anywhere, for any number of nodes,  *)
(* goroutines, restarts and exhausted milliseconds.                        *)
THEOREM Refinement == Spec => ImplementsOracle
<1>1. Init => Oracle!Init
  BY DEF Init, Oracle!Init
<1>2. IInv /\ [Next]_vars => [Oracle!Next]_issued
  <2> SUFFICES ASSUME IInv, [Next]_vars
               PROVE  [Oracle!Next]_issued
    OBVIOUS
  <2>1. CASE UNCHANGED vars
    BY <2>1 DEF vars
  <2>2. ASSUME NEW n \in Nodes, Tick(n) \/ Restart(n)
        PROVE  UNCHANGED issued
    BY <2>2 DEF Tick, Restart
  <2>3. ASSUME NEW n \in Nodes, NEW c \in Callers,
               Call(n, c) \/ NextExhausted(n, c)
        PROVE  UNCHANGED issued
    BY <2>3 DEF Call, NextExhausted
  <2>4. ASSUME NEW n \in Nodes, NEW c \in Callers,
               NextSameMilli(n, c) \/ NextNewMilli(n, c) \/ SpinEnds(n, c)
        PROVE  Oracle!Next
    BY <2>4, ReturnIsLater, ReturnIssues
  <2> QED
    BY <2>1, <2>2, <2>3, <2>4 DEF Next, ProcessStep
<1> QED
  BY InitEstablishes, StepKeeps, <1>1, <1>2, PTL
  DEF Spec, ImplementsOracle, Oracle!Spec

-----------------------------------------------------------------------------
(* A wall clock that is set back                                           *)

(* IDs of different processes differ.                                      *)
AcrossProcesses ==
    \A m, n \in Nodes : \A i \in DOMAIN issued[m], j \in DOMAIN issued[n] :
        m # n => issued[m][i] # issued[n][j]

Newest(n) == issued[n][Len(issued[n])]

(* A process that reads a clock which has not fallen behind its last stamp *)
(* hands out a larger ID than the one before.                              *)
BackOnlyWithClock ==
    [][\A n \in Nodes :
          issued'[n] # issued[n] /\ issued[n] # <<>> /\ clock[n] >= lastStamp[n]
             => Newest(n)' > Newest(n)]_vars

(* What the invariant of Spec keeps when the clock may go back: every ID   *)
(* has the worker ID of its process, and the generator's fields are those  *)
(* of the newest one.                                                      *)
Stamped ==
    \A n \in Nodes : \A i \in DOMAIN issued[n] :
        \E stamp \in 0..MaxClock, seq \in 0..MaxSequence :
            issued[n][i] = Pack(stamp, workerID(n), seq)

NewestHeld ==
    \A n \in Nodes : issued[n] # <<>> =>
        \E seq \in 0..MaxSequence :
            /\ Newest(n) = Pack(lastStamp[n], workerID(n), seq)
            /\ ~Locked(n) => seq = sequence[n]

RewindInv == TypeOK /\ Stamped /\ NewestHeld

(* Next() returns an ID made of the clock it has read.                     *)
LEMMA ReturnRewind ==
    ASSUME RewindInv, NEW n \in Nodes, NEW c \in Callers,
           NEW stamp \in 0..MaxClock, NEW seq \in 0..MaxSequence,
           Return(n, c, stamp, seq)
    PROVE  RewindInv' /\ Newest(n)' = Pack(stamp, workerID(n), seq)
<1> DEFINE new == Pack(stamp, workerID(n), seq)
<1>1. new \in IDSpace
  BY PackType, WorkerIDType
<1>2. /\ issued' = [issued EXCEPT ![n] = Append(@, new)]
      /\ issued \in [Nodes -> Seq(IDSpace)]
  BY DEF Return, RewindInv, TypeOK
<1>3. TypeOK'
  <2>1. issued' \in [Nodes -> Seq(IDSpace)]
    <3> HIDE DEF new
    <3> QED
      BY <1>1, <1>2
  <2> QED
    BY <2>1 DEF RewindInv, TypeOK, Return
<1>4. /\ issued'[n] = Append(issued[n], new)
      /\ \A m \in Nodes \ {n} : issued'[m] = issued[m]
  BY <1>2
<1>5. Newest(n)' = new
  <2> HIDE DEF new
  <2> QED
    BY <1>1, <1>2, <1>4 DEF Newest
<1>6. Stamped'
  <2> SUFFICES ASSUME NEW m \in Nodes, NEW i \in DOMAIN issued'[m]
               PROVE  \E s \in 0..MaxClock, q \in 0..MaxSequence :
                         issued'[m][i] = Pack(s, workerID(m), q)
    BY DEF Stamped
  <2>1. CASE m # n
    BY <1>4, <2>1 DEF RewindInv, Stamped
  <2>2. CASE m = n /\ i = Len(issued[n]) + 1
    <3>1. issued'[m][i] = new
      <4> HIDE DEF new
      <4> QED
        BY <1>1, <1>2, <1>4, <2>2
    <3> QED
      BY <2>2, <3>1
  <2>3. CASE m = n /\ i # Len(issued[n]) + 1
    <3>1. i \in DOMAIN issued[n] /\ issued'[n][i] = issued[n][i]
      <4> HIDE DEF new
      <4> QED
        BY <1>1, <1>2, <1>4, <2>3
    <3> QED
      BY <2>3, <3>1 DEF RewindInv, Stamped
  <2> QED
    BY <2>1, <2>2, <2>3
<1>7. NewestHeld'
  <2> SUFFICES ASSUME NEW m \in Nodes, issued'[m] # <<>>
               PROVE  \E q \in 0..MaxSequence :
                         /\ Newest(m)' = Pack(lastStamp'[m], workerID(m), q)
                         /\ ~Locked(m)' => q = sequence'[m]
    BY DEF NewestHeld
  <2>1. CASE m = n
    BY <1>5, <2>1 DEF Return, RewindInv, TypeOK
  <2>2. CASE m # n
    <3>1. /\ Newest(m)' = Newest(m) /\ issued[m] # <<>>
          /\ lastStamp'[m] = lastStamp[m] /\ sequence'[m] = sequence[m]
          /\ Locked(m)' <=> Locked(m)
      BY <1>4, <2>2 DEF Return, RewindInv, TypeOK, Newest, Locked
    <3> QED
      BY <3>1 DEF RewindInv, NewestHeld
  <2> QED
    BY <2>1, <2>2
<1> QED
  BY <1>3, <1>5, <1>6, <1>7 DEF RewindInv

(* The three ways in which Next() returns an ID, and what it then carries. *)
LEMMA ReturnForms ==
    ASSUME TypeOK, NEW n \in Nodes, NEW c \in Callers,
           NextSameMilli(n, c) \/ NextNewMilli(n, c) \/ SpinEnds(n, c)
    PROVE  \E seq \in 0..MaxSequence :
              /\ Return(n, c, clock[n], seq)
              /\ clock[n] = lastStamp[n] => ~Locked(n) /\ seq = sequence[n] + 1
<1> USE BoundsAssumption
<1>1. /\ clock[n] \in Nat /\ lastStamp[n] \in Nat /\ sequence[n] \in 0..MaxSequence
  BY DEF TypeOK
<1>2. CASE NextSameMilli(n, c)
  <2>1. NextSequence(n) \in 0..MaxSequence /\ NextSequence(n) = sequence[n] + 1
    <3>1. CASE sequence[n] + 1 <= MaxSequence
      BY <1>1, <3>1 DEF NextSequence
    <3>2. CASE sequence[n] = MaxSequence
      BY <1>1, <1>2, <3>2 DEF NextSequence, NextSameMilli
    <3> QED
      BY <1>1, <3>1, <3>2
  <2> QED
    BY <1>2, <2>1 DEF NextSameMilli, TakesLock
<1>3. CASE NextNewMilli(n, c)
  BY <1>1, <1>3 DEF NextNewMilli
<1>4. CASE SpinEnds(n, c)
  BY <1>1, <1>4 DEF SpinEnds
<1> QED
  BY <1>2, <1>3, <1>4

(* No step leaves the weaker invariant, whichever way the clock goes.      *)
LEMMA StepRewind ==
    ASSUME RewindInv, [\E n \in Nodes : ProcessStep(n) \/ Rewind(n)]_vars
    PROVE  RewindInv'
<1> USE BoundsAssumption
<1>1. CASE UNCHANGED vars
  BY <1>1 DEF vars, RewindInv, TypeOK, Stamped, NewestHeld, Newest, Locked
<1>2. ASSUME NEW n \in Nodes, Tick(n) \/ Rewind(n)
      PROVE  RewindInv'
  <2>1. TypeOK'
    <3>1. clock' \in [Nodes -> 1..MaxClock]
      <4>1. CASE Tick(n)
        BY <4>1 DEF Tick, RewindInv, TypeOK
      <4>2. CASE Rewind(n)
        <5>1. PICK t \in 1..(clock[n] - 1) : clock' = [clock EXCEPT ![n] = t]
          BY <4>2 DEF Rewind
        <5>2. t \in 1..MaxClock
          BY <5>1 DEF RewindInv, TypeOK
        <5> QED
          BY <5>1, <5>2 DEF RewindInv, TypeOK
      <4> QED
        BY <1>2, <4>1, <4>2
    <3> QED
      BY <1>2, <3>1 DEF Tick, Rewind, RewindInv, TypeOK
  <2>2. UNCHANGED <<lastStamp, sequence, pc, issued>>
    BY <1>2 DEF Tick, Rewind
  <2> QED
    BY <2>1, <2>2 DEF RewindInv, Stamped, NewestHeld, Newest, Locked
<1>3. ASSUME NEW n \in Nodes, NEW c \in Callers, Call(n, c)
      PROVE  RewindInv'
  <2>1. \A m \in Nodes : Locked(m)' <=> Locked(m)
    BY <1>3 DEF Call, RewindInv, TypeOK, Locked
  <2> QED
    BY <1>3, <2>1 DEF Call, RewindInv, TypeOK, Stamped, NewestHeld, Newest
<1>4. ASSUME NEW n \in Nodes, NEW c \in Callers, NextExhausted(n, c)
      PROVE  RewindInv'
  <2>1. /\ Locked(n)'
        /\ \A m \in Nodes \ {n} : pc'[m] = pc[m] /\ sequence'[m] = sequence[m]
    BY <1>4 DEF NextExhausted, RewindInv, TypeOK, Locked
  <2>2. TypeOK' /\ issued' = issued /\ lastStamp' = lastStamp
    BY <1>4 DEF NextExhausted, RewindInv, TypeOK
  <2>3. Stamped'
    BY <2>2 DEF RewindInv, Stamped
  <2>4. NewestHeld'
    <3> SUFFICES ASSUME NEW m \in Nodes, issued[m] # <<>>
                 PROVE  \E seq \in 0..MaxSequence :
                           /\ Newest(m) = Pack(lastStamp[m], workerID(m), seq)
                           /\ ~Locked(m)' => seq = sequence'[m]
      BY <2>2 DEF NewestHeld, Newest
    <3>1. PICK seq \in 0..MaxSequence :
             /\ Newest(m) = Pack(lastStamp[m], workerID(m), seq)
             /\ ~Locked(m) => seq = sequence[m]
      BY DEF RewindInv, NewestHeld
    <3>2. ~Locked(m)' => seq = sequence'[m]
      <4>1. CASE m = n
        BY <2>1, <4>1
      <4>2. CASE m # n
        BY <2>1, <3>1, <4>2 DEF Locked
      <4> QED
        BY <4>1, <4>2
    <3> QED
      BY <3>1, <3>2
  <2> QED
    BY <2>2, <2>3, <2>4 DEF RewindInv
<1>5. ASSUME NEW n \in Nodes, NEW c \in Callers,
             NextSameMilli(n, c) \/ NextNewMilli(n, c) \/ SpinEnds(n, c)
      PROVE  RewindInv'
  <2>1. PICK seq \in 0..MaxSequence : Return(n, c, clock[n], seq)
    BY <1>5, ReturnForms DEF RewindInv
  <2>2. clock[n] \in 0..MaxClock
    BY DEF RewindInv, TypeOK
  <2> QED
    BY <2>1, <2>2, ReturnRewind
<1> QED
  BY <1>1, <1>2, <1>3, <1>4, <1>5 DEF ProcessStep

(* Setting clocks back never makes two processes hand out the same ID: the *)
(* repetition that NoDuplicateIDs is about stays within one process.       *)
THEOREM RewindStaysLocal == RewindSpec => []AcrossProcesses
<1>1. Init => RewindInv
  BY BoundsAssumption DEF Init, RewindInv, TypeOK, Stamped, NewestHeld
<1>2. RewindInv => AcrossProcesses
  <2> SUFFICES ASSUME RewindInv, NEW m \in Nodes, NEW n \in Nodes,
                      NEW i \in DOMAIN issued[m], NEW j \in DOMAIN issued[n],
                      issued[m][i] = issued[n][j]
               PROVE  m = n
    BY DEF AcrossProcesses
  <2>1. PICK s \in 0..MaxClock, q \in 0..MaxSequence :
           issued[m][i] = Pack(s, workerID(m), q)
    BY DEF RewindInv, Stamped
  <2>2. PICK t \in 0..MaxClock, r \in 0..MaxSequence :
           issued[n][j] = Pack(t, workerID(n), r)
    BY DEF RewindInv, Stamped
  <2>3. s \in Nat /\ t \in Nat
    BY BoundsAssumption
  <2>4. workerID(m) = workerID(n)
    BY <2>1, <2>2, <2>3, WorkerIDType, PackWorker
  <2> QED
    BY <2>4, UniqueWorkers
<1> QED
  BY <1>1, <1>2, StepRewind, PTL DEF RewindSpec

(* An ID that is not above the one before it is handed out only when the   *)
(* clock reads less than the last stamp.  As long as that does not happen  *)
(* the IDs of a process grow, so none is repeated: the comparison that     *)
(* Next() lacks is what makes NoDuplicateIDs fail.                         *)
THEOREM OnlyRewindsGoBack == RewindSpec => BackOnlyWithClock
<1> DEFINE A == \A n \in Nodes :
                   issued'[n] # issued[n] /\ issued[n] # <<>> /\ clock[n] >= lastStamp[n]
                      => Newest(n)' > Newest(n)
<1>1. Init => RewindInv
  BY BoundsAssumption DEF Init, RewindInv, TypeOK, Stamped, NewestHeld
<1>2. RewindInv /\ [\E n \in Nodes : ProcessStep(n) \/ Rewind(n)]_vars => [A]_vars
  <2> SUFFICES ASSUME RewindInv, NEW m \in Nodes, ProcessStep(m) \/ Rewind(m),
                      NEW n \in Nodes, issued'[n] # issued[n], issued[n] # <<>>,
                      clock[n] >= lastStamp[n]
               PROVE  Newest(n)' > Newest(n)
    OBVIOUS
  <2>1. PICK c \in Callers :
           NextSameMilli(m, c) \/ NextNewMilli(m, c) \/ SpinEnds(m, c)
    BY DEF ProcessStep, Rewind, Tick, Call, NextExhausted
  <2>2. PICK seq \in 0..MaxSequence :
           /\ Return(m, c, clock[m], seq)
           /\ clock[m] = lastStamp[m] => ~Locked(m) /\ seq = sequence[m] + 1
    BY <2>1, ReturnForms DEF RewindInv
  <2>3. n = m
    BY <2>2 DEF Return, RewindInv, TypeOK
  <2>4. /\ clock[n] \in 0..MaxClock /\ clock[n] \in Nat
        /\ lastStamp[n] \in Nat /\ sequence[n] \in Nat
    BY BoundsAssumption DEF RewindInv, TypeOK
  <2>5. Newest(n)' = Pack(clock[n], workerID(n), seq)
    BY <2>2, <2>3, <2>4, ReturnRewind
  <2>6. PICK q \in 0..MaxSequence :
           /\ Newest(n) = Pack(lastStamp[n], workerID(n), q)
           /\ ~Locked(n) => q = sequence[n]
    BY DEF RewindInv, NewestHeld
  <2>7. lastStamp[n] < clock[n] \/ (lastStamp[n] = clock[n] /\ q < seq)
    BY <2>2, <2>3, <2>4, <2>6
  <2>8. Pack(lastStamp[n], workerID(n), q) < Pack(clock[n], workerID(n), seq)
    BY <2>4, <2>7, WorkerIDType, PackOrder
  <2> QED
    BY <2>5, <2>6, <2>8
<1> HIDE DEF A
<1>3. RewindSpec => [][A]_vars
  BY <1>1, <1>2, StepRewind, PTL DEF RewindSpec
<1> QED
  BY <1>3 DEF BackOnlyWithClock, A

=============================================================================
