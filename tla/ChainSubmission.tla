--------------------------- MODULE ChainSubmission ---------------------------
(***************************************************************************)
(* The rows of chain_submissions and the workers that send them: claim,     *)
(* advisory lock, receipt or nonce, signature, broadcast, and what is      *)
(* written after it.  Every statement and every call is an action.         *)
(***************************************************************************)
EXTENDS Chain

CONSTANTS
  Writer,      \* worker processes; they share one account
  NoWriter,
  NoNonce,
  MaxRetries,  \* failures after which a row is a dead letter
  MaxFaults,   \* bound: failing calls and statements, stops
  Erasable     \* submissions whose account may be deleted

ASSUME SubmissionAssumption ==
  /\ NoWriter \notin Writer /\ NoNonce \notin Nat
  /\ MaxRetries \in Nat \ {0} /\ MaxFaults \in Nat
  /\ Erasable \subseteq Submission

VARIABLES
  status, nonce, attempts,  \* of each row; a row has a hash if it has a nonce
  claimed,                  \* locked_at is less than two minutes old
  erased,                   \* rows that are gone; what is left of them here
                            \* is what a worker remembers
  nextNonce,                \* chain_writer_nonces
  lock,                     \* who has the advisory lock of a submission
  writer,                   \* what each worker is doing
  faults

rowVars == <<status, nonce, attempts, claimed, erased, nextNonce>>
submissionVars == <<rowVars, lock, writer, faults>>

Status == {"none", "pending", "reserved", "submitted", "confirmed",
           "abandoned", "dead_letter"}
Open == {"pending", "reserved", "submitted", "dead_letter"}
Position == {"lock", "receipt", "head", "confirm", "abandon",
             "release", "reserve", "broadcast", "mark", "fail", "unlock"}

\* A worker that has no row in hand.
Free == [at |-> "idle"]

SubmissionTypeOK ==
  /\ status \in [Submission -> Status]
  /\ nonce \in [Submission -> Nat \cup {NoNonce}]
  /\ attempts \in [Submission -> 0..(MaxRetries + MaxFaults + 1)]
  /\ claimed \in [Submission -> BOOLEAN]
  /\ erased \subseteq Erasable
  /\ nextNonce \in Nat
  /\ lock \in [Submission -> Writer \cup {NoWriter}]
  /\ writer \in [Writer -> {Free} \cup [at : Position, sub : Submission, mined : Nat]]
  /\ faults \in 0..MaxFaults

SubmissionInit ==
  /\ status = [s \in Submission |-> "none"]
  /\ nonce = [s \in Submission |-> NoNonce]
  /\ attempts = [s \in Submission |-> 0]
  /\ claimed = [s \in Submission |-> FALSE]
  /\ erased = {}
  /\ nextNonce = 0
  /\ lock = [s \in Submission |-> NoWriter]
  /\ writer = [w \in Writer |-> Free]
  /\ faults = 0

TxOf(s) == [sub |-> s, nonce |-> nonce[s]]
At(w, position) == writer[w].at = position
Goto(w, position) ==
  writer' = [writer EXCEPT ![w] = IF position = "idle" THEN Free
                                  ELSE [@ EXCEPT !.at = position, !.mined = 0]]

-----------------------------------------------------------------------------
(* Rows *)

\* enqueue, in the transaction of the TODO's change
Enqueue(s) ==
  /\ status[s] = "none"
  /\ status' = [status EXCEPT ![s] = "pending"]
  /\ UNCHANGED <<nonce, attempts, claimed, erased, nextNonce, lock, writer,
                 faults>>

\* The erasure of an account deletes the rows of its TODOs.
Erase(s) ==
  /\ s \in Erasable \ erased /\ status[s] # "none"
  /\ erased' = erased \cup {s}
  /\ UNCHANGED <<status, nonce, attempts, claimed, nextNonce, lock, writer,
                 faults>>

\* Two minutes pass; that a worker still has the row in hand is a fault.
ClaimLapses(s) ==
  /\ claimed[s]
  /\ claimed' = [claimed EXCEPT ![s] = FALSE]
  /\ IF \E w \in Writer : ~At(w, "idle") /\ writer[w].sub = s
     THEN faults < MaxFaults /\ faults' = faults + 1
     ELSE UNCHANGED faults
  /\ UNCHANGED <<status, nonce, attempts, erased, nextNonce, lock, writer>>

-----------------------------------------------------------------------------
(* A worker *)

\* UPDATE ... FOR UPDATE SKIP LOCKED; the rows of a batch one by one.
ClaimPendingSubmissions(w, s) ==
  /\ At(w, "idle")
  /\ s \notin erased /\ ~claimed[s]
  /\ status[s] \in Open
  /\ status[s] = "dead_letter" => nonce[s] # NoNonce
  /\ claimed' = [claimed EXCEPT ![s] = TRUE]
  /\ writer' = [writer EXCEPT ![w] = [at |-> "lock", sub |-> s, mined |-> 0]]
  /\ UNCHANGED <<status, nonce, attempts, erased, nextNonce, lock, faults>>

\* pg_try_advisory_lock, then the row is read again: what is read stays true
\* under the lock.
Lock(w) ==
  LET s == writer[w].sub
  IN /\ At(w, "lock")
     /\ IF lock[s] # NoWriter
        THEN Goto(w, "idle") /\ UNCHANGED lock
        ELSE /\ lock' = [lock EXCEPT ![s] = w]
             /\ Goto(w, IF status[s] \notin Open THEN "unlock"
                        ELSE IF nonce[s] # NoNonce THEN "receipt"
                        ELSE IF status[s] = "dead_letter" THEN "release"
                        ELSE "reserve")
     /\ UNCHANGED <<rowVars, faults>>

\* getTransactionReceipt; without one a row that is not a dead letter is sent
\* (again).
Receipt(w) ==
  LET s == writer[w].sub
      found == {h \in 1..Height : TxOf(s) \in chain[h].txs}
  IN /\ At(w, "receipt")
     /\ \/ \E h \in found :
             writer' = [writer EXCEPT ![w].at = "head", ![w].mined = h]
        \/ /\ found = {}
           /\ Goto(w, IF status[s] = "dead_letter" THEN "release"
                      ELSE "reserve")
     /\ UNCHANGED <<rowVars, lock, faults>>

\* Mutant: a receipt is enough.
DepthIgnored(w) ==
  /\ At(w, "head")
  /\ Goto(w, IF writer[w].sub \notin Reverting THEN "confirm" ELSE "abandon")
  /\ UNCHANGED <<rowVars, lock, faults>>

\* getBlockNumber
Depth(w) ==
  /\ At(w, "head")
  /\ Goto(w, IF Height + 1 < Confirmations + writer[w].mined THEN "release"
             ELSE IF writer[w].sub \notin Reverting THEN "confirm"
             ELSE "abandon")
  /\ UNCHANGED <<rowVars, lock, faults>>

\* markConfirmed or markAbandoned
MarkFinal(w) ==
  LET s == writer[w].sub
  IN /\ writer[w].at \in {"confirm", "abandon"}
     /\ status' = [status EXCEPT ![s] = IF At(w, "confirm") THEN "confirmed"
                                        ELSE "abandoned"]
     /\ claimed' = [claimed EXCEPT ![s] = FALSE]
     /\ Goto(w, "release")
     /\ UNCHANGED <<nonce, attempts, erased, nextNonce, lock, faults>>

ReleaseClaim(w) ==
  /\ At(w, "release")
  /\ claimed' = [claimed EXCEPT ![writer[w].sub] = FALSE]
  /\ Goto(w, "unlock")
  /\ UNCHANGED <<status, nonce, attempts, erased, nextNonce, lock, faults>>

\* getTransactionCount of "pending": mined ones and those that can follow.
PendingCount ==
  LET n == Cardinality(Mined)
  IN n + Cardinality({tx \in mempool :
                        \A k \in n..tx.nonce : \E m \in mempool : m.nonce = k})

AllocateNextNonce == IF nextNonce >= PendingCount THEN nextNonce
                     ELSE PendingCount

\* Mutant: a retry takes a nonce of its own.
ReserveAnew(w) ==
  /\ At(w, "reserve")
  /\ status' = [status EXCEPT ![writer[w].sub] = "reserved"]
  /\ nonce' = [nonce EXCEPT ![writer[w].sub] = AllocateNextNonce]
  /\ nextNonce' = AllocateNextNonce + 1
  /\ Goto(w, "broadcast")
  /\ UNCHANGED <<attempts, claimed, erased, lock, faults>>

\* Mutant: the nonce is the count of the node.
ReserveCounted(w) ==
  LET s == writer[w].sub
  IN /\ At(w, "reserve")
     /\ status' = [status EXCEPT ![s] = "reserved"]
     /\ IF nonce[s] # NoNonce
        THEN UNCHANGED <<nonce, nextNonce>>
        ELSE /\ nonce' = [nonce EXCEPT ![s] = PendingCount]
             /\ nextNonce' = PendingCount + 1
     /\ Goto(w, "broadcast")
     /\ UNCHANGED <<attempts, claimed, erased, lock, faults>>

\* One transaction, under the lock of the nonces: nonce, status, request and
\* hash are committed before the broadcast, and kept by every retry.
Reserve(w) ==
  LET s == writer[w].sub
  IN /\ At(w, "reserve")
     /\ status' = [status EXCEPT ![s] = "reserved"]
     /\ IF nonce[s] # NoNonce
        THEN UNCHANGED <<nonce, nextNonce>>
        ELSE /\ nonce' = [nonce EXCEPT ![s] = AllocateNextNonce]
             /\ nextNonce' = AllocateNextNonce + 1
     /\ Goto(w, "broadcast")
     /\ UNCHANGED <<attempts, claimed, erased, lock, faults>>

\* sendRawTransaction: refused for a nonce that is used, else accepted, also
\* when the node has it already.
Broadcast(w) ==
  LET tx == TxOf(writer[w].sub)
  IN /\ At(w, "broadcast")
     /\ IF tx.nonce < Cardinality(Mined)
        THEN Goto(w, "fail") /\ UNCHANGED mempool
        ELSE Goto(w, "mark") /\ mempool' = mempool \cup {tx}
     /\ UNCHANGED <<rowVars, lock, faults>>

MarkSubmitted(w) ==
  LET s == writer[w].sub
  IN /\ At(w, "mark")
     /\ status' = [status EXCEPT ![s] = "submitted"]
     /\ claimed' = [claimed EXCEPT ![s] = FALSE]
     /\ Goto(w, "unlock")
     /\ UNCHANGED <<nonce, attempts, erased, nextNonce, lock, faults>>

\* The catch block, whatever the status was; of a row that is gone it throws.
RecordFailure(w) ==
  LET s == writer[w].sub
  IN /\ At(w, "fail")
     /\ IF s \in erased
        THEN UNCHANGED <<status, attempts, claimed>>
        ELSE /\ attempts' = [attempts EXCEPT ![s] = @ + 1]
             /\ status' = [status EXCEPT ![s] =
                             IF attempts[s] + 1 >= MaxRetries
                             THEN "dead_letter" ELSE "pending"]
             /\ claimed' = [claimed EXCEPT ![s] = FALSE]
     /\ Goto(w, "unlock")
     /\ UNCHANGED <<nonce, erased, nextNonce, lock, faults>>

Unlock(w) ==
  /\ At(w, "unlock")
  /\ lock' = [lock EXCEPT ![writer[w].sub] = NoWriter]
  /\ Goto(w, "idle")
  /\ UNCHANGED <<rowVars, faults>>

-----------------------------------------------------------------------------
(* Faults *)

Fault == faults < MaxFaults /\ faults' = faults + 1

\* A call or a statement of the try block fails; a transaction that is open is
\* rolled back.
CallFails(w) ==
  /\ writer[w].at \in {"receipt", "head", "confirm", "abandon", "release",
                       "reserve", "broadcast", "mark"}
  /\ Fault
  /\ Goto(w, "fail")
  /\ UNCHANGED <<rowVars, lock>>

\* The node took the transaction, and its answer is lost.
AnswerLost(w) ==
  LET tx == TxOf(writer[w].sub)
  IN /\ At(w, "broadcast")
     /\ tx \notin Mined /\ tx.nonce >= Cardinality(Mined)
     /\ Fault
     /\ mempool' = mempool \cup {tx}
     /\ Goto(w, "fail")
     /\ UNCHANGED <<rowVars, lock>>

\* The process stops, or recordFailure fails: the claim stays, the database
\* frees the lock.
Stop(w) ==
  LET s == writer[w].sub
  IN /\ ~At(w, "idle")
     /\ Fault
     /\ lock' = [lock EXCEPT ![s] = IF @ = w THEN NoWriter ELSE @]
     /\ Goto(w, "idle")
     /\ UNCHANGED rowVars

\* The node forgets a transaction that waits.
Forget(tx) ==
  /\ Fault
  /\ mempool' = mempool \ {tx}
  /\ UNCHANGED <<rowVars, lock, writer>>

WriterStep(w) ==
  \/ Broadcast(w) /\ UNCHANGED <<chain, reorgs, deep>>
  \/ /\ \/ Lock(w) \/ Receipt(w) \/ Depth(w) \/ MarkFinal(w)
        \/ ReleaseClaim(w) \/ Reserve(w) \/ MarkSubmitted(w)
        \/ RecordFailure(w) \/ Unlock(w)
     /\ UNCHANGED chainVars

SubmissionNext ==
  \/ \E w \in Writer :
       \/ WriterStep(w)
       \/ /\ \/ CallFails(w) \/ Stop(w)
             \/ \E s \in Submission : ClaimPendingSubmissions(w, s)
          /\ UNCHANGED chainVars
       \/ AnswerLost(w) /\ UNCHANGED <<chain, reorgs, deep>>
  \/ /\ \E s \in Submission : Enqueue(s) \/ Erase(s) \/ ClaimLapses(s)
     /\ UNCHANGED chainVars
  \/ \E tx \in mempool : Forget(tx) /\ UNCHANGED <<chain, reorgs, deep>>

\* The receipt that a worker has read is of a block that the replacement of
\* the last n takes away before the worker reads the height.
Overtakes(n) == \E w \in Writer : At(w, "head") /\ writer[w].mined > Height - n

-----------------------------------------------------------------------------
(* Properties *)

\* No change is anchored twice, whatever fails, stops or lapses between the
\* broadcast and its record: one submission has at most one transaction that
\* was ever sent (processSubmission saves the request before it sends it).
AnchoredOnce ==
  \A t, u \in Mined \cup mempool : t.sub = u.sub => t = u

\* The nonces are given out without a gap and no two submissions share one,
\* so that the only thing that can hold up the writer is a transaction that
\* nobody sends (allocateNextNonce).
NoncesDense ==
  /\ {nonce[s] : s \in Submission} \ {NoNonce} = 0..(nextNonce - 1)
  /\ \A s, u \in Submission : nonce[s] = nonce[u] => s = u \/ nonce[s] = NoNonce
=============================================================================
