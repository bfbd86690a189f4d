------------------------------- MODULE Config -------------------------------
(***************************************************************************)
(* shared/config: what the environment makes of a process.  A value of the *)
(* environment is a sequence of characters, each written as its distance   *)
(* from '0', so that the digits are 0..9; a variable that is not set reads *)
(* as the empty sequence.  The other settings are addresses that the code  *)
(* hands on unread.  The worker ID goes to the Generator of Snowflake.     *)
(***************************************************************************)
EXTENDS Snowflake

CONSTANTS
    WORKER_ID,  \* WORKER_ID[n]: the variable of that name where process n runs
    HalfRange,  \* the parser's integers are -HalfRange..HalfRange-1, 2^63 in the code
    EnvChars,   \* bound: the characters considered
    MaxEnvLen   \* bound: the longest value considered

ASSUME ConfigAssumption ==
    HalfRange \in Nat \ {0} /\ EnvChars \subseteq Int /\ MaxEnvLen \in Nat

DefaultWorkerID == 1

(* Arithmetic on int64 wraps around.                                       *)
Wrap(n) == ((n + HalfRange) % (2 * HalfRange)) - HalfRange

(* Faulty variant: c >= '9' is refused.                                    *)
BelowNine(c) == c \in 0..8

IsDigit(c) == c \in 0..9

(* One round of the loop: n = n*10 + int64(c-'0')                          *)
AddDigit(n, c) == Wrap(Wrap(n * 10) + c)

(* The value of n before the loop and after each round of it.              *)
Rounds(v) ==
    LET n[i \in 0..Len(v)] == IF i = 0 THEN 0 ELSE AddDigit(n[i - 1], v[i]) IN n

getEnvInt64(v, fallback) ==
    IF v # <<>> /\ \A i \in DOMAIN v : IsDigit(v[i]) THEN Rounds(v)[Len(v)] ELSE fallback

(* Load().WorkerID of a process whose WORKER_ID reads v.                   *)
LoadWorkerID(v) == getEnvInt64(v, DefaultWorkerID)

(* main() hands the loaded worker ID to the generator of its process.      *)
ASSUME EnvironmentAssumption ==
    \A n \in Nodes : /\ WORKER_ID[n] \in Seq(Int)
                     /\ ConfiguredWorkerID[n] = LoadWorkerID(WORKER_ID[n])

-----------------------------------------------------------------------------
(* Properties                                                              *)

(* Place(v)[d]: what a digit is worth that has d digits to its right.      *)
Place(v) ==
    LET place[d \in 0..Len(v)] == IF d = 0 THEN 1 ELSE 10 * place[d - 1] IN place

(* The number that the first i digits of v contribute by their places.     *)
PlaceSum(v) ==
    LET sum[i \in 0..Len(v)] ==
            IF i = 0 THEN 0 ELSE sum[i - 1] + v[i] * Place(v)[Len(v) - i]
    IN  sum

(* The number that a string of digits denotes, without any width, and what *)
(* of it an integer of the parser's width can tell.                        *)
Denotes(v) == PlaceSum(v)[Len(v)]

Meaning(v) ==
    IF v # <<>> /\ \A i \in DOMAIN v : v[i] \in 0..9
    THEN CHOOSE n \in (-HalfRange) .. (HalfRange - 1) :
            (n - Denotes(v)) % (2 * HalfRange) = 0
    ELSE DefaultWorkerID

EnvValues == UNION {[1..n -> EnvChars] : n \in 0..MaxEnvLen}

ParserExact == \A v \in EnvValues : LoadWorkerID(v) = Meaning(v)

WorkerField(i) == (i \div (MaxSequence + 1)) % (MaxWorkerID + 1)

(* A WORKER_ID that is a number means that number, leading zeros or not,   *)
(* up to multiples of 2*HalfRange: a long one wraps and may come out as a  *)
(* legal worker ID.  Anything else, signs included, means the default.     *)
(* And every ID that a process hands out carries in its worker field what  *)
(* its WORKER_ID means, or 0 if that is out of range.                      *)
WorkerIDAsConfigured ==
    /\ ParserExact
    /\ \A n \in Nodes : \A i \in DOMAIN issued[n] :
          WorkerField(issued[n][i]) = LET w == Meaning(WORKER_ID[n])
                                      IN  IF w \in 0..MaxWorkerID THEN w ELSE 0

=============================================================================
