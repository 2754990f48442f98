------------------------------ MODULE StampWork ------------------------------
(***************************************************************************)
(* Proof-of-work stamps (src/lxmf/lxmf.c): the cooperative job that first  *)
(* hashes the workblock round by round and then tries one nonce after the  *)
(* other, a bounded number of units per poll; and the validation of a      *)
(* stamp, which builds the whole workblock anew.                           *)
(*                                                                         *)
(* SHA-256 is a function chosen at the start: from the rounds hashed so    *)
(* far and a nonce to a digest of DigestBits bits, read as a number.       *)
(***************************************************************************)
EXTENDS Naturals

CONSTANTS DigestBits,   \* 256
          Byte, Nonces, \* 256 and 2^256: nonces are 0..Nonces - 1
          Hashes,       \* the functions that SHA-256 may be
          Rounds,       \* rounds of the workblock
          Budgets,      \* units a poll may do, LXMF_STAMP_POLL_MAX_UNITS at most
          AttemptLimit, \* UINT64_MAX
          MaxHashFaults \* bound: failures of the key derivation

VARIABLES digest,       \* [0..Rounds -> [0..Nonces - 1 -> digests]]
          work,         \* struct lxmf_stamp_job
          budget,       \* units left of the poll in progress, 0 when none is
          hash_faults

stampVars == <<digest, work, budget, hash_faults>>

Digests == 0..2^DigestBits - 1
Ended == {"complete", "failed", "cancelled"}

TypeOK ==
    /\ digest \in [0..Rounds -> [0..Nonces - 1 -> Digests]]
    /\ work.state \in {"preparing", "searching"} \cup Ended
    /\ work.cost \in 1..DigestBits - 1
    /\ work.prepared \in 0..Rounds
    /\ work.nonce \in 0..Nonces - 1
    /\ work.attempts \in 0..AttemptLimit
    /\ work.value \in 0..DigestBits - 1
    /\ hash_faults \in 0..MaxHashFaults

\* digest_value: the leading zero bits, counted in a byte: the count of all 256
\* wraps to 0.
LeadingZeros(d) ==
    CHOOSE v \in 0..DigestBits :
        /\ d < 2^(DigestBits - v)
        /\ v = DigestBits \/ d >= 2^(DigestBits - v - 1)
DigestValue(d) == LeadingZeros(d) % DigestBits

\* digest_meets compares with the target 2^(bits - cost), which itself counts.
DigestMeets(d, cost) == d <= 2^(DigestBits - cost)

\* lxmf_pow_stamp_validate_expanded.
Validates(stamp, cost) == DigestMeets(digest[Rounds][stamp], cost)

\* lxmf_stamp_job_create_expanded, from any first nonce.
Created(hashes, cost, nonce) ==
    /\ digest = hashes
    /\ work = [state |-> "preparing", cost |-> cost, prepared |-> 0,
               nonce |-> nonce, attempts |-> 0, value |-> 0]
    /\ budget = 0
    /\ hash_faults = 0

Init == \E hashes \in Hashes, cost \in 1..DigestBits - 1, nonce \in 0..Nonces - 1 :
            Created(hashes, cost, nonce)

-----------------------------------------------------------------------------
Pending == work.state \notin Ended

\* One unit of lxmf_stamp_job_poll while it prepares: another round.
Prepared(w) ==
    [w EXCEPT !.prepared = @ + 1,
              !.state = IF w.prepared + 1 = Rounds THEN "searching" ELSE @]

\* The nonce counts up from its last byte, with carry.
Advanced_NoCarry(n) == (n - (n % Byte)) + ((n + 1) % Byte)

Advanced(n) == (n + 1) % Nonces

\* One unit while it searches: the nonce is tried, and moved on.
Tried(w) ==
    LET d == digest[w.prepared][w.nonce]
    IN  IF w.attempts = AttemptLimit THEN [w EXCEPT !.state = "failed"]
        ELSE IF DigestMeets(d, w.cost)
        THEN [w EXCEPT !.attempts = @ + 1, !.state = "complete",
                       !.value = DigestValue(d)]
        ELSE [w EXCEPT !.attempts = @ + 1, !.nonce = Advanced(@)]

Poll ==
    \E b \in Budgets :
        /\ budget = 0
        /\ budget' = b
        /\ UNCHANGED <<digest, work, hash_faults>>

Unit ==
    /\ budget > 0
    /\ budget' = IF Pending THEN budget - 1 ELSE 0
    /\ \/ /\ ~Pending
          /\ UNCHANGED <<work, hash_faults>>
       \/ /\ work.state = "preparing"
          /\ \/ work' = Prepared(work) /\ UNCHANGED hash_faults
             \/ /\ hash_faults < MaxHashFaults
                /\ hash_faults' = hash_faults + 1
                /\ work' = [work EXCEPT !.state = "failed"]
       \/ /\ work.state = "searching"
          /\ work' = Tried(work)
          /\ UNCHANGED hash_faults
    /\ UNCHANGED digest

\* lxmf_stamp_job_cancel, between polls.
Cancelled(w) == IF w.state \in Ended THEN w ELSE [w EXCEPT !.state = "cancelled"]

Cancel ==
    /\ budget = 0
    /\ work' = Cancelled(work)
    /\ UNCHANGED <<digest, budget, hash_faults>>

Next == Poll \/ Unit \/ Cancel

Spec == Init /\ [][Next]_stampVars

-----------------------------------------------------------------------------
\* A completed job's stamp passes validation at its cost, although the job
\* hashed the workblock in pieces and over several polls; its value is what
\* validation reports and falls short of the cost only for a digest equal to
\* the target, and for the digest of zeros, whose value wraps.  A job gives up
\* on a digest only after trying every nonce within reach (lxmf_stamp_job_poll,
\* lxmf_pow_stamp_validate_expanded).
StampHolds ==
    /\ work.state = "complete" =>
           /\ Validates(work.nonce, work.cost)
           /\ work.value = DigestValue(digest[Rounds][work.nonce])
           /\ \/ work.value >= work.cost
              \/ digest[Rounds][work.nonce] \in {0, 2^(DigestBits - work.cost)}
    /\ work.state = "failed" /\ hash_faults = 0 /\ Nonces <= AttemptLimit =>
           ~\E n \in 0..Nonces - 1 : Validates(n, work.cost)
=============================================================================
