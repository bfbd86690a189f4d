------------------------------ MODULE Snowflake ------------------------------
(***************************************************************************)
(* shared/snowflake: the per-process generator of 64-bit IDs.  A node is   *)
(* one process with one Generator and one wall clock; its callers are the  *)
(* request goroutines that share the Generator through its mutex.          *)
(*                                                                         *)
(* The mutex is held from Lock to the return of Next().  Only the busy     *)
(* wait for the next millisecond lets other steps happen in between, so a  *)
(* call is one step unless the sequence runs out, and then two.            *)
(***************************************************************************)
EXTENDS Integers, Sequences

CONSTANTS
    Nodes,              \* processes running a Generator
    Callers,            \* goroutines of a process that call Next()
    ConfiguredWorkerID, \* [Nodes -> Int]: the WORKER_ID each process was given
    MaxWorkerID,        \* 1023 in the code (10 bits)
    MaxSequence,        \* 4095 in the code (12 bits)
    MaxClock            \* last millisecond considered; 2^42 - 1 is the last
                        \* one whose packed ID fits 64 bits without wrapping

(* values outside [0, maxWorkerID] are clamped to 0                        *)
NewGenerator(w) ==
    IF w < 0 \/ w > MaxWorkerID THEN 0 ELSE w

workerID(n) == NewGenerator(ConfiguredWorkerID[n])

ASSUME BoundsAssumption ==
    /\ MaxWorkerID \in Nat
    /\ MaxSequence \in Nat
    /\ MaxClock \in Nat \ {0}

ASSUME WorkerIDAssumption ==
    ConfiguredWorkerID \in [Nodes -> Int]

(* Deployment rule of config.go: each instance must have a unique WorkerID. *)
ASSUME UniqueWorkers ==
    \A m, n \in Nodes : workerID(m) = workerID(n) => m = n

VARIABLES
    clock,      \* clock[n]: currentMillis() on n, since customEpoch
    lastStamp,  \* lastStamp[n]: stamp of the last ID of the current process
    sequence,   \* sequence[n]: counter within lastStamp[n]
    pc,         \* pc[n][c]: "idle", "blocked" on g.mu, or "spin" holding it
    issued      \* history: issued[n] is every ID returned on n, oldest first

vars == <<clock, lastStamp, sequence, pc, issued>>

(* timestamp | workerID | sequence; the fields do not overlap, so the      *)
(* shifts and the bitwise or are a mixed-radix sum.                        *)
Pack(stamp, worker, seq) ==
    (stamp * (MaxWorkerID + 1) + worker) * (MaxSequence + 1) + seq

IDSpace == 0 .. Pack(MaxClock, MaxWorkerID, MaxSequence)

TypeOK ==
    /\ clock \in [Nodes -> 1..MaxClock]
    /\ lastStamp \in [Nodes -> 0..MaxClock]
    /\ sequence \in [Nodes -> 0..MaxSequence]
    /\ pc \in [Nodes -> [Callers -> {"idle", "blocked", "spin"}]]
    /\ issued \in [Nodes -> Seq(IDSpace)]

Init ==
    /\ clock = [n \in Nodes |-> 1]
    /\ lastStamp = [n \in Nodes |-> 0]
    /\ sequence = [n \in Nodes |-> 0]
    /\ pc = [n \in Nodes |-> [c \in Callers |-> "idle"]]
    /\ issued = [n \in Nodes |-> <<>>]

Locked(n) == \E c \in Callers : pc[n][c] = "spin"

(* A goroutine calls Next() and queues for the mutex.                      *)
Call(n, c) ==
    /\ pc[n][c] = "idle"
    /\ pc' = [pc EXCEPT ![n][c] = "blocked"]
    /\ UNCHANGED <<clock, lastStamp, sequence, issued>>

(* Return the ID for stamp and sequence seq, and release the mutex.        *)
Return(n, c, stamp, seq) ==
    /\ lastStamp' = [lastStamp EXCEPT ![n] = stamp]
    /\ sequence' = [sequence EXCEPT ![n] = seq]
    /\ issued' = [issued EXCEPT ![n] = Append(@, Pack(stamp, workerID(n), seq))]
    /\ pc' = [pc EXCEPT ![n][c] = "idle"]
    /\ UNCHANGED clock

(* Faulty variant: the busy wait releases the mutex.                       *)
TakesLockWhileSpinning(n, c) == pc[n][c] = "blocked"

TakesLock(n, c) == pc[n][c] = "blocked" /\ ~Locked(n)

(* Faulty variant: the counter is not masked to its 12 bits.               *)
UnmaskedSequence(n) == sequence[n] + 1

NextSequence(n) == (sequence[n] + 1) % (MaxSequence + 1)

(* now == g.lastStamp and the millisecond has sequence numbers left.       *)
NextSameMilli(n, c) ==
    /\ TakesLock(n, c)
    /\ clock[n] = lastStamp[n]
    /\ NextSequence(n) # 0
    /\ Return(n, c, lastStamp[n], NextSequence(n))

(* now == g.lastStamp and the sequence wraps: keep the mutex and spin.     *)
NextExhausted(n, c) ==
    /\ TakesLock(n, c)
    /\ clock[n] = lastStamp[n]
    /\ NextSequence(n) = 0
    /\ sequence' = [sequence EXCEPT ![n] = 0]
    /\ pc' = [pc EXCEPT ![n][c] = "spin"]
    /\ UNCHANGED <<clock, lastStamp, issued>>

(* Any other reading of the clock, later or earlier, resets the sequence.  *)
NextNewMilli(n, c) ==
    /\ TakesLock(n, c)
    /\ clock[n] # lastStamp[n]
    /\ Return(n, c, clock[n], 0)

(* Faulty variant: the loop reads the clock but does not assign it to now. *)
SpinKeepsStamp(n, c) ==
    /\ pc[n][c] = "spin"
    /\ clock[n] > lastStamp[n]
    /\ Return(n, c, lastStamp[n], sequence[n])

(* Faulty variant: the loop does not read the clock again.                 *)
SpinWithoutReading(n, c) ==
    /\ pc[n][c] = "spin"
    /\ UNCHANGED vars

(* The busy wait reads a later clock, and the call returns.                *)
SpinEnds(n, c) ==
    /\ pc[n][c] = "spin"
    /\ clock[n] > lastStamp[n]
    /\ Return(n, c, clock[n], sequence[n])

(* The wall clock advances.                                                *)
Tick(n) ==
    /\ clock[n] < MaxClock
    /\ clock' = [clock EXCEPT ![n] = @ + 1]
    /\ UNCHANGED <<lastStamp, sequence, pc, issued>>

(* The process dies and a new one builds a fresh Generator.  main() pings  *)
(* MySQL before it does, so the millisecond of the last ID has passed.     *)
Restart(n) ==
    /\ clock[n] > lastStamp[n]
    /\ lastStamp' = [lastStamp EXCEPT ![n] = 0]
    /\ sequence' = [sequence EXCEPT ![n] = 0]
    /\ pc' = [pc EXCEPT ![n] = [c \in Callers |-> "idle"]]
    /\ UNCHANGED <<clock, issued>>

(* The wall clock is set back (an NTP step); not part of Next.             *)
Rewind(n) ==
    /\ \E t \in 1..(clock[n] - 1) : clock' = [clock EXCEPT ![n] = t]
    /\ UNCHANGED <<lastStamp, sequence, pc, issued>>

(* What can happen to node n while its process lives.                      *)
ProcessStep(n) ==
    \/ Tick(n)
    \/ \E c \in Callers : \/ Call(n, c)
                          \/ NextSameMilli(n, c)
                          \/ NextExhausted(n, c)
                          \/ NextNewMilli(n, c)
                          \/ SpinEnds(n, c)

Next == \E n \in Nodes : ProcessStep(n) \/ Restart(n)

Fairness ==
    \A n \in Nodes :
        /\ WF_vars(Tick(n))
        /\ \A c \in Callers : WF_vars(SpinEnds(n, c))

Spec == Init /\ [][Next]_vars

FairSpec == Spec /\ Fairness

(* Processes that never restart, under a wall clock that may be set back.  *)
RewindSpec == Init /\ [][\E n \in Nodes : ProcessStep(n) \/ Rewind(n)]_vars

-----------------------------------------------------------------------------
(* Properties                                                              *)

(* The mutex keeps at most one goroutine in the busy wait, which began in  *)
(* the clock's past with the counter already wrapped to zero.              *)
OneSpinner ==
    \A n \in Nodes :
        /\ lastStamp[n] <= clock[n]
        /\ \A c, d \in Callers :
              pc[n][c] = "spin" /\ pc[n][d] = "spin" => c = d
        /\ Locked(n) => sequence[n] = 0

(* Whether an ID with these fields lies behind node n's generator.  While  *)
(* the generator spins, nothing is later than lastStamp; otherwise an ID   *)
(* of the current millisecond has a sequence number already used up.       *)
BehindGenerator(n, stamp, seq) ==
    IF Locked(n)
    THEN stamp <= lastStamp[n]
    ELSE \/ stamp < clock[n]
         \/ stamp = clock[n] /\ stamp = lastStamp[n] /\ seq <= sequence[n]

IssuedBehind ==
    \A n \in Nodes : \A i \in DOMAIN issued[n] :
        \E stamp \in 0..MaxClock, seq \in 0..MaxSequence :
            /\ issued[n][i] = Pack(stamp, workerID(n), seq)
            /\ BehindGenerator(n, stamp, seq)

(* Every ID handed out lies behind the generator's position, so whatever   *)
(* Next() does from here, across goroutines, exhausted milliseconds and    *)
(* restarts, cannot produce it again.                                      *)
GeneratorInvariant == OneSpinner /\ IssuedBehind

Oracle == INSTANCE IdOracle WITH IDs <- IDSpace

(* The generators together implement the oracle: IDs of a node strictly    *)
(* grow and no ID is handed out twice anywhere ("unique, monotonically     *)
(* increasing", Next() in snowflake.go).                                   *)
ImplementsOracle == Oracle!Spec

(* A call that found its millisecond exhausted returns once the clock      *)
(* moves on: the busy wait that blocks every other caller ends.            *)
SpinTerminates ==
    \A n \in Nodes, c \in Callers :
        (pc[n][c] = "spin" /\ lastStamp[n] < MaxClock) ~> (pc[n][c] = "idle")

(* What the comment on Next() claims even when the clock goes backwards:   *)
(* "the generator stalls until the clock catches up, preventing duplicate  *)
(* IDs".                                                                   *)
NoDuplicateIDs ==
    \A n \in Nodes : \A i, j \in DOMAIN issued[n] :
        issued[n][i] = issued[n][j] => i = j

=============================================================================
