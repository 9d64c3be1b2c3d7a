----------------------------- MODULE ChainProofs -----------------------------
(***************************************************************************)
(* Theorems about ChainAnchor, for any number of submissions and workers,  *)
(* any confirmations and scan range, reorganisations of any depth, and any *)
(* number of faults, failed polls and rebuilds.                            *)
(***************************************************************************)
EXTENDS ChainAnchor, FiniteSetTheorems, SequenceTheorems,
        WellFoundedInduction, TLAPS

-----------------------------------------------------------------------------
(* The chain: what a step leaves of it *)

\* What the first k blocks hold.
MinedUpto(k) == UNION {chain[h].txs : h \in 1..k}

\* The blocks after b are new, the one at p holds T, the others nothing.
Extends(b, p, T) ==
  /\ b \in 0..Height /\ Height' \in Nat /\ Height' >= Height
  /\ p \in (b + 1)..Height'
  /\ chain' \in Seq(Block)
  /\ \A h \in 1..b : chain'[h] = chain[h]
  /\ \A h \in (b + 1)..Height' :
       chain'[h] = [fork |-> reorgs', txs |-> IF h = p THEN T ELSE {}]
  /\ T \subseteq mempool \cup (Mined \ MinedUpto(b))
  /\ {t.nonce : t \in T} =
       Cardinality(MinedUpto(b))..(Cardinality(MinedUpto(b)) + Cardinality(T) - 1)
  /\ mempool' \subseteq (mempool \cup (Mined \ MinedUpto(b))) \ T
  /\ reorgs' = IF b = Height THEN reorgs ELSE reorgs + 1

LEMMA MinedFacts ==
  ASSUME ChainTypeOK
  PROVE  /\ Height \in Nat
         /\ \A h \in 1..Height : chain[h] \in Block
         /\ Mined = MinedUpto(Height)
         /\ \A b \in 0..Height : MinedIn(SubSeq(chain, 1, b)) = MinedUpto(b)
         /\ Mined \subseteq Tx
<1>1. /\ Height \in Nat
      /\ \A h \in 1..Height : chain[h] \in Block
  BY DEF ChainTypeOK, Height
<1>2. Mined = MinedUpto(Height)
  BY DEF Mined, MinedIn, MinedUpto, Height
<1>3. ASSUME NEW b \in 0..Height
      PROVE  MinedIn(SubSeq(chain, 1, b)) = MinedUpto(b)
  <2>1. /\ Len(SubSeq(chain, 1, b)) = b
        /\ \A h \in 1..b : SubSeq(chain, 1, b)[h] = chain[h]
    BY <1>1 DEF ChainTypeOK, Height
  <2> QED
    BY <2>1 DEF MinedIn, MinedUpto
<1>4. Mined \subseteq Tx
  BY <1>1, <1>2 DEF MinedUpto, Block
<1> QED
  BY <1>1, <1>2, <1>3, <1>4

LEMMA MineExtends ==
  ASSUME ChainTypeOK, Mine
  PROVE  \E T \in SUBSET Tx : Extends(Height, Height + 1, T)
<1>1. PICK T \in SUBSET mempool :
        /\ Fits(T, chain)
        /\ chain' = Append(chain, [fork |-> reorgs, txs |-> T])
        /\ mempool' = {tx \in mempool \ T : \A m \in T : m.nonce # tx.nonce}
        /\ reorgs' = reorgs
  BY DEF Mine
<1>2. T \in SUBSET Tx /\ reorgs \in Nat
  BY DEF ChainTypeOK
<1>3. [fork |-> reorgs, txs |-> T] \in Block
  BY <1>2 DEF Block
<1>4. /\ chain' \in Seq(Block) /\ Height' = Height + 1
      /\ \A h \in 1..Height : chain'[h] = chain[h]
      /\ chain'[Height + 1] = [fork |-> reorgs', txs |-> T]
  BY <1>1, <1>3 DEF ChainTypeOK, Height
<1>5. MinedIn(chain) = MinedUpto(Height)
  BY MinedFacts DEF Mined
<1>6. Extends(Height, Height + 1, T)
  <2>1. {t.nonce : t \in T} =
          Cardinality(MinedUpto(Height))..
            (Cardinality(MinedUpto(Height)) + Cardinality(T) - 1)
    BY <1>1, <1>5 DEF Fits
  <2>2. \A h \in (Height + 1)..(Height + 1) :
          chain'[h] = [fork |-> reorgs', txs |-> IF h = Height + 1 THEN T ELSE {}]
    BY <1>4, MinedFacts
  <2>3. /\ T \subseteq mempool \cup (Mined \ MinedUpto(Height))
        /\ mempool' \subseteq (mempool \cup (Mined \ MinedUpto(Height))) \ T
    BY <1>1
  <2>4. /\ Height \in 0..Height /\ Height' \in Nat /\ Height' >= Height
        /\ Height + 1 \in (Height + 1)..(Height + 1)
    BY <1>4, MinedFacts
  <2> QED
    BY <2>1, <2>2, <2>3, <2>4, <1>1, <1>4 DEF Extends
<1> QED
  BY <1>2, <1>6

LEMMA ReorganiseExtends ==
  ASSUME ChainTypeOK, NEW n, Reorganise(n)
  PROVE  /\ n \in 1..Height
         /\ \E T \in SUBSET Tx, p \in Nat : Extends(Height - n, p, T)
<1> DEFINE kept == SubSeq(chain, 1, Height - n)
           back == mempool \cup (Mined \ MinedIn(kept))
           empty == [h \in 1..n |-> [fork |-> reorgs + 1, txs |-> {}]]
<1>1. /\ n \in 1..Height
      /\ reorgs' = reorgs + 1
  BY DEF Reorganise
<1>2. PICK T \in SUBSET back, at \in 1..n :
        /\ Fits(T, kept)
        /\ chain' = kept \o [empty EXCEPT ![at].txs = T]
        /\ mempool' = {tx \in back \ T : \A m \in T : m.nonce # tx.nonce}
  BY DEF Reorganise
<1>3. Height \in Nat /\ n \in Nat /\ Height - n \in 0..Height
  BY <1>1, MinedFacts
<1>4. MinedIn(kept) = MinedUpto(Height - n) /\ kept \in Seq(Block) /\ Len(kept) = Height - n
  BY <1>3, MinedFacts DEF ChainTypeOK, Height
<1>5. T \in SUBSET Tx /\ reorgs \in Nat
  BY MinedFacts DEF ChainTypeOK
<1> DEFINE new == [empty EXCEPT ![at].txs = T]
<1>6. /\ new \in Seq(Block) /\ Len(new) = n
      /\ \A h \in 1..n : new[h] = [fork |-> reorgs + 1,
                                   txs |-> IF h = at THEN T ELSE {}]
  <2>1. \A h \in 1..n : new[h] = [fork |-> reorgs + 1,
                                  txs |-> IF h = at THEN T ELSE {}]
    <3> TAKE h \in 1..n
    <3>1. empty[h] = [fork |-> reorgs + 1, txs |-> {}]
      OBVIOUS
    <3>2. h # at => new[h] = empty[h]
      OBVIOUS
    <3>3. h = at => new[h] = [empty[h] EXCEPT !.txs = T]
      OBVIOUS
    <3> HIDE DEF empty, new
    <3> QED
      BY <3>1, <3>2, <3>3
  <2>2. \A h \in 1..n : new[h] \in Block
    BY <2>1, <1>5 DEF Block
  <2>3. new = [h \in 1..n |-> new[h]]
    OBVIOUS
  <2> HIDE DEF new
  <2>4. new \in [1..n -> Block]
    BY <2>2, <2>3
  <2>5. new \in Seq(Block) /\ Len(new) = n
    BY <2>4, <1>3
  <2> QED
    BY <2>1, <2>5
<1> HIDE DEF new, kept
<1>7. /\ chain' \in Seq(Block) /\ Height' = Height
      /\ \A h \in 1..(Height - n) : chain'[h] = kept[h]
      /\ \A h \in (Height - n + 1)..Height : chain'[h] = new[h - (Height - n)]
  <2>1. chain' = kept \o new
    BY <1>2 DEF new
  <2>2. Len(chain') = Height /\ chain' \in Seq(Block)
    <3>1. kept \o new \in Seq(Block) /\ Len(kept \o new) = Len(kept) + Len(new)
      BY <1>4, <1>6, ConcatProperties
    <3>2. Len(kept) + Len(new) = Height
      BY <1>3, <1>4, <1>6
    <3> QED
      BY <2>1, <3>1, <3>2
  <2>3. Height' = Height /\ Len(kept) + Len(new) = Height
    BY <2>2, <1>3, <1>4, <1>6 DEF Height
  <2>4. \A h \in 1..(Height - n) : chain'[h] = kept[h]
    BY <2>1, <2>3, <1>3, <1>4, <1>6, ConcatProperties
  <2>5. ASSUME NEW h \in (Height - n + 1)..Height
        PROVE  chain'[h] = new[h - (Height - n)]
    <3>1. h \in Len(kept) + 1..Len(kept) + Len(new)
      BY <2>3, <1>3, <1>4
    <3> QED
      BY <2>1, <3>1, <1>3, <1>4, <1>6, ConcatProperties
  <2> QED
    BY <2>2, <2>3, <2>4, <2>5
<1>8. \A h \in 1..(Height - n) : kept[h] = chain[h]
  BY <1>3 DEF kept, Height, ChainTypeOK
<1>9. \A h \in (Height - n + 1)..Height :
        chain'[h] = [fork |-> reorgs', txs |-> IF h = Height - n + at THEN T ELSE {}]
  <2> TAKE h \in (Height - n + 1)..Height
  <2>1. h - (Height - n) \in 1..n
    BY <1>3
  <2>2. h - (Height - n) = at <=> h = Height - n + at
    BY <1>3
  <2> QED
    BY <2>1, <2>2, <1>1, <1>6, <1>7
<1>10. Extends(Height - n, Height - n + at, T)
  <2>1. Height - n + at \in (Height - n + 1)..Height /\ Height - n # Height
    BY <1>3, <1>1
  <2>2. /\ T \subseteq mempool \cup (Mined \ MinedUpto(Height - n))
        /\ mempool' \subseteq (mempool \cup (Mined \ MinedUpto(Height - n))) \ T
    BY <1>2, <1>4
  <2>3. {t.nonce : t \in T} =
          Cardinality(MinedUpto(Height - n))..
            (Cardinality(MinedUpto(Height - n)) + Cardinality(T) - 1)
    BY <1>2, <1>4 DEF Fits
  <2>4. \A h \in 1..(Height - n) : chain'[h] = chain[h]
    BY <1>7, <1>8
  <2>5. Height' \in Nat /\ Height' >= Height /\ Height' = Height
    BY <1>3, <1>7
  <2>6. Height - n + at \in (Height - n + 1)..Height'
    BY <2>1, <2>5
  <2>7. \A h \in (Height - n + 1)..Height' :
          chain'[h] = [fork |-> reorgs', txs |-> IF h = Height - n + at THEN T ELSE {}]
    BY <1>9, <2>5
  <2>8. reorgs' = IF Height - n = Height THEN reorgs ELSE reorgs + 1
    BY <2>1, <1>1
  <2> HIDE DEF back
  <2> QED
    BY <2>2, <2>3, <2>4, <2>5, <2>6, <2>7, <2>8, <1>3, <1>7 DEF Extends
<1> QED
  BY <1>1, <1>3, <1>5, <1>10

-----------------------------------------------------------------------------
(* The rows and their workers: types, locks and attempts *)

\* A status in which a row still has failures to spare.
Retried == {"none", "pending", "reserved", "submitted"}

\* Past the lock a worker holds it.
LockInv ==
  \A w \in Writer :
    writer[w].at \notin {"idle", "lock"} => lock[writer[w].sub] = w

\* A row is given up at its last failure; from then on only a fault fails.
AttemptsInv ==
  \A s \in Submission :
    /\ attempts[s] <= MaxRetries + faults
    /\ status[s] \in Retried => attempts[s] < MaxRetries

\* What a worker relies on between two of its statements.
WorkerInv ==
  \A w \in Writer :
    /\ At(w, "fail") => attempts[writer[w].sub] < MaxRetries + faults
    /\ At(w, "receipt") => status[writer[w].sub] \in Open
    /\ At(w, "reserve") => status[writer[w].sub] \in Retried
    /\ writer[w].at \in {"broadcast", "mark"} => status[writer[w].sub] = "reserved"

WriterType == {Free} \cup [at : Position, sub : Submission, mined : Nat]

LEMMA WorkerFacts ==
  ASSUME SubmissionTypeOK, NEW w \in Writer
  PROVE  /\ At(w, "idle") => writer[w] = Free
         /\ ~At(w, "idle") => /\ writer[w] \in [at : Position, sub : Submission, mined : Nat]
                              /\ writer[w].sub \in Submission
                              /\ writer[w].at \in Position
BY DEF SubmissionTypeOK, At, Free, Position

LEMMA GotoFacts ==
  ASSUME SubmissionTypeOK, NEW w \in Writer, ~At(w, "idle"),
         NEW p \in Position \cup {"idle"}, Goto(w, p)
  PROVE  /\ writer' \in [Writer -> WriterType]
         /\ writer'[w] = IF p = "idle" THEN Free
                         ELSE [at |-> p, sub |-> writer[w].sub, mined |-> 0]
         /\ \A v \in Writer : v # w => writer'[v] = writer[v]
<1>1. writer \in [Writer -> WriterType]
  BY DEF SubmissionTypeOK, WriterType
<1>2. writer[w] \in [at : Position, sub : Submission, mined : Nat]
  BY WorkerFacts
<1>3. CASE p = "idle"
  BY <1>1, <1>3 DEF Goto, WriterType
<1>4. CASE p # "idle"
  <2>1. p \in Position
    BY <1>4
  <2>2. [writer[w] EXCEPT !.at = p, !.mined = 0] =
          [at |-> p, sub |-> writer[w].sub, mined |-> 0]
    <3> DEFINE new == [writer[w] EXCEPT !.at = p, !.mined = 0]
    <3>1. new \in [at : Position, sub : Submission, mined : Nat]
      BY <1>2, <2>1
    <3>2. new.at = p /\ new.sub = writer[w].sub /\ new.mined = 0
      BY <1>2
    <3> HIDE DEF new
    <3>3. new = [at |-> p, sub |-> writer[w].sub, mined |-> 0]
      BY <3>1, <3>2
    <3> QED
      BY <3>3 DEF new
  <2>3. [at |-> p, sub |-> writer[w].sub, mined |-> 0] \in WriterType
    BY <1>2, <2>1 DEF WriterType
  <2>4. writer' = [writer EXCEPT ![w] = [at |-> p, sub |-> writer[w].sub, mined |-> 0]]
    BY <2>2, <1>4 DEF Goto
  <2> QED
    BY <2>3, <2>4, <1>1, <1>4
<1> QED
  BY <1>3, <1>4

LEMMA GotoShape ==
  ASSUME SubmissionTypeOK, NEW w \in Writer, ~At(w, "idle"),
         NEW p \in Position \cup {"idle"}, Goto(w, p)
  PROVE  /\ \A v \in Writer : v # w => writer'[v] = writer[v]
         /\ writer'[w].at = p
         /\ p # "idle" => writer'[w].sub = writer[w].sub
<1>1. /\ writer'[w] = IF p = "idle" THEN Free
                      ELSE [at |-> p, sub |-> writer[w].sub, mined |-> 0]
      /\ \A v \in Writer : v # w => writer'[v] = writer[v]
  BY GotoFacts
<1>2. CASE p = "idle"
  BY <1>1, <1>2 DEF Free
<1>3. CASE p # "idle"
  BY <1>1, <1>3
<1> QED
  BY <1>1, <1>2, <1>3

\* Two workers past the lock have different rows.
LEMMA OneHolder ==
  ASSUME SubmissionTypeOK, LockInv, NEW w \in Writer, NEW v \in Writer, v # w,
         writer[w].at \notin {"idle", "lock"}, writer[v].at \notin {"idle", "lock"}
  PROVE  writer[v].sub # writer[w].sub
BY DEF LockInv

RowInvs == LockInv /\ AttemptsInv /\ WorkerInv

\* A step of one worker, with the row in its hand.
LEMMA LocalStep ==
  ASSUME SubmissionTypeOK, RowInvs, NEW w \in Writer, ~At(w, "idle"),
         NEW s \in Submission, s = writer[w].sub,
         \A v \in Writer : v # w => writer'[v] = writer[v],
         writer'[w].at # "idle" => writer'[w].sub = s,
         \A r \in Submission : r # s => /\ status'[r] = status[r]
                                        /\ attempts'[r] = attempts[r]
                                        /\ lock'[r] = lock[r],
         At(w, "lock") => status' = status /\ attempts' = attempts,
         lock'[s] = lock[s] \/ lock[s] \in {w, NoWriter},
         faults' \in Nat, faults <= faults',
         writer'[w].at \notin {"idle", "lock"} => lock'[s] = w,
         attempts'[s] <= MaxRetries + faults',
         status'[s] \in Retried => attempts'[s] < MaxRetries,
         writer'[w].at = "fail" => attempts'[s] < MaxRetries + faults',
         writer'[w].at = "receipt" => status'[s] \in Open,
         writer'[w].at = "reserve" => status'[s] \in Retried,
         writer'[w].at \in {"broadcast", "mark"} => status'[s] = "reserved"
  PROVE  RowInvs'
<1>0. /\ MaxRetries \in Nat /\ faults \in Nat
      /\ \A r \in Submission : attempts[r] \in Nat
  BY SubmissionAssumption DEF SubmissionTypeOK
<1>1. AttemptsInv'
  <2> SUFFICES ASSUME NEW r \in Submission
               PROVE  /\ attempts'[r] <= MaxRetries + faults'
                      /\ status'[r] \in Retried => attempts'[r] < MaxRetries
    BY DEF AttemptsInv
  <2>1. CASE r = s
    BY <2>1
  <2>2. CASE r # s
    BY <2>2, <1>0 DEF RowInvs, AttemptsInv
  <2> QED
    BY <2>1, <2>2
<1>2. ASSUME NEW v \in Writer, v # w, writer[v].at \notin {"idle", "lock"}
      PROVE  /\ writer[v].sub \in Submission
             /\ ~At(w, "lock") => writer[v].sub # s
             /\ lock'[writer[v].sub] = v
  <2>1. writer[v].sub \in Submission /\ lock[writer[v].sub] = v
    BY <1>2, WorkerFacts DEF RowInvs, LockInv, At
  <2>2. ~At(w, "lock") => writer[v].sub # s
    BY <1>2, OneHolder DEF RowInvs, At
  <2>3. v # NoWriter
    BY SubmissionAssumption
  <2> QED
    BY <2>1, <2>2, <2>3, <1>2
<1>3. LockInv'
  BY <1>2 DEF LockInv
<1>4. ASSUME NEW v \in Writer
      PROVE  /\ At(v, "fail")' => attempts'[writer'[v].sub] < MaxRetries + faults'
             /\ At(v, "receipt")' => status'[writer'[v].sub] \in Open
             /\ At(v, "reserve")' => status'[writer'[v].sub] \in Retried
             /\ writer'[v].at \in {"broadcast", "mark"} => status'[writer'[v].sub] = "reserved"
  <2>1. CASE v = w
    BY <2>1 DEF At
  <2>2. CASE v # w /\ writer[v].at \notin {"idle", "lock"}
    <3>1. /\ status'[writer[v].sub] = status[writer[v].sub]
          /\ attempts'[writer[v].sub] = attempts[writer[v].sub]
      BY <1>2, <2>2
    <3>2. attempts[writer[v].sub] \in Nat
      BY <1>0, <1>2, <2>2
    <3> QED
      BY <3>1, <3>2, <2>2, <1>0 DEF RowInvs, WorkerInv, At
  <2>3. CASE v # w /\ writer[v].at \in {"idle", "lock"}
    BY <2>3 DEF At
  <2> QED
    BY <2>1, <2>2, <2>3
<1>5. WorkerInv'
  BY <1>4 DEF WorkerInv
<1> QED
  BY <1>1, <1>3, <1>5 DEF RowInvs

LEMMA StepOfWorker ==
  ASSUME SubmissionTypeOK, ChainTypeOK, RowInvs, AllocateNextNonce = nextNonce,
         NEW w \in Writer, WriterStep(w)
  PROVE  SubmissionTypeOK' /\ RowInvs'
<1> DEFINE s == writer[w].sub
<1>0. /\ MaxRetries \in Nat \ {0} /\ MaxFaults \in Nat /\ faults \in Nat
      /\ faults <= MaxFaults
      /\ NoWriter \notin Writer
  BY SubmissionAssumption DEF SubmissionTypeOK
<1>1. /\ ~At(w, "idle") /\ s \in Submission
      /\ faults' = faults /\ erased' = erased
  <2>1. ~At(w, "idle") /\ faults' = faults /\ erased' = erased
    BY DEF WriterStep, Lock, Receipt, Depth, MarkFinal, ReleaseClaim, Reserve,
         Broadcast, MarkSubmitted, RecordFailure, Unlock, At, rowVars
  <2> QED
    BY <2>1, WorkerFacts
<1>2. /\ attempts[s] \in Nat /\ attempts[s] <= MaxRetries + faults
      /\ status[s] \in Retried => attempts[s] < MaxRetries
      /\ ~At(w, "lock") => lock[s] = w
      /\ At(w, "fail") => attempts[s] < MaxRetries + faults
      /\ At(w, "receipt") => status[s] \in Open
      /\ At(w, "reserve") => status[s] \in Retried
      /\ writer[w].at \in {"broadcast", "mark"} => status[s] = "reserved"
      /\ status[s] \in Status
  BY <1>1 DEF SubmissionTypeOK, RowInvs, LockInv, AttemptsInv, WorkerInv, At
<1> HIDE DEF s
<1>3. ASSUME NEW p \in Position \cup {"idle"}, Goto(w, p)
      PROVE  /\ writer' \in [Writer -> WriterType]
             /\ \A v \in Writer : v # w => writer'[v] = writer[v]
             /\ writer'[w].at = p
             /\ p # "idle" => writer'[w].sub = s
  BY <1>1, <1>3, GotoFacts, GotoShape DEF s
<1>4. ASSUME RowInvs', writer' \in [Writer -> WriterType],
             status' \in [Submission -> Status], attempts' \in [Submission -> Nat],
             claimed' \in [Submission -> BOOLEAN],
             nonce' \in [Submission -> Nat \cup {NoNonce}], nextNonce' \in Nat,
             lock' \in [Submission -> Writer \cup {NoWriter}]
      PROVE  SubmissionTypeOK' /\ RowInvs'
  <2>1. \A r \in Submission : attempts'[r] \in 0..(MaxRetries + MaxFaults + 1)
    BY <1>0, <1>1, <1>4 DEF RowInvs, AttemptsInv
  <2> QED
    BY <2>1, <1>1, <1>4 DEF SubmissionTypeOK, WriterType
<1>5. /\ status \in [Submission -> Status] /\ attempts \in [Submission -> Nat]
      /\ claimed \in [Submission -> BOOLEAN]
      /\ nonce \in [Submission -> Nat \cup {NoNonce}] /\ nextNonce \in Nat
      /\ lock \in [Submission -> Writer \cup {NoWriter}]
  BY <1>0 DEF SubmissionTypeOK
<1>6. CASE Lock(w)
  <2>1. PICK p \in Position \cup {"idle"} :
          /\ Goto(w, p)
          /\ \/ p = "idle" /\ lock' = lock
             \/ /\ lock[s] = NoWriter /\ lock' = [lock EXCEPT ![s] = w]
                /\ p \in {"unlock", "receipt", "release", "reserve"}
                /\ p = "receipt" => status[s] \in Open
                /\ p = "reserve" => status[s] \in Retried
    <3>1. CASE lock[s] # NoWriter
      BY <1>6, <3>1 DEF Lock, s
    <3>2. CASE lock[s] = NoWriter
      <4> DEFINE p == IF status[s] \notin Open THEN "unlock"
                      ELSE IF nonce[s] # NoNonce THEN "receipt"
                      ELSE IF status[s] = "dead_letter" THEN "release"
                      ELSE "reserve"
      <4>1. Goto(w, p) /\ lock' = [lock EXCEPT ![s] = w]
        BY <1>6, <3>2 DEF Lock, s
      <4>2. /\ p \in {"unlock", "receipt", "release", "reserve"}
            /\ p = "receipt" => status[s] \in Open
            /\ p = "reserve" => status[s] \in Retried
        BY DEF Open, Retried
      <4>3. p \in Position
        BY <4>2 DEF Position
      <4> HIDE DEF p
      <4> QED
        BY <4>1, <4>2, <4>3, <3>2
    <3> QED
      BY <3>1, <3>2
  <2>2. UNCHANGED rowVars /\ At(w, "lock")
    BY <1>6 DEF Lock
  <2>3. RowInvs'
    BY <2>1, <2>2, <1>0, <1>1, <1>2, <1>3, <1>5, LocalStep DEF rowVars, s
  <2> QED
    BY <2>1, <2>2, <2>3, <1>1, <1>3, <1>4, <1>5 DEF rowVars
<1>7. CASE Receipt(w)
  <2>1. UNCHANGED <<rowVars, lock>> /\ At(w, "receipt")
    BY <1>7 DEF Receipt
  <2>2. CASE \E h \in 1..Height :
               writer' = [writer EXCEPT ![w].at = "head", ![w].mined = h]
    <3>1. PICK h \in 1..Height :
            writer' = [writer EXCEPT ![w].at = "head", ![w].mined = h]
      BY <2>2
    <3>2. h \in Nat
      BY MinedFacts
    <3>3. writer[w] \in [at : Position, sub : Submission, mined : Nat]
      BY <1>1, WorkerFacts
    <3>4. /\ writer' \in [Writer -> WriterType]
          /\ writer'[w].at = "head" /\ writer'[w].sub = s
          /\ \A v \in Writer : v # w => writer'[v] = writer[v]
      BY <3>1, <3>2, <3>3 DEF SubmissionTypeOK, WriterType, Position, s
    <3>5. RowInvs'
      BY <3>4, <2>1, <1>0, <1>1, <1>2, <1>5, LocalStep DEF rowVars, s, At
    <3> QED
      BY <3>4, <3>5, <2>1, <1>4, <1>5 DEF rowVars
  <2>3. CASE Goto(w, IF status[s] = "dead_letter" THEN "release" ELSE "reserve")
    <3>1. PICK p \in Position \cup {"idle"} :
            Goto(w, p) /\ p \in {"release", "reserve"} /\ (p = "reserve" => status[s] \in Retried)
      BY <2>1, <2>3, <1>2 DEF Open, Retried, Position
    <3>5. RowInvs'
      BY <3>1, <2>1, <1>0, <1>1, <1>2, <1>3, <1>5, LocalStep DEF rowVars, s, At
    <3> QED
      BY <3>1, <3>5, <2>1, <1>3, <1>4, <1>5 DEF rowVars
  <2> QED
    BY <1>7, <2>2, <2>3 DEF Receipt, s
<1>8. CASE Depth(w) \/ ReleaseClaim(w)
  <2>1. PICK p \in {"release", "confirm", "abandon", "unlock"} : Goto(w, p)
    BY <1>8 DEF Depth, ReleaseClaim
  <2>2. /\ status' = status /\ nonce' = nonce /\ attempts' = attempts
        /\ nextNonce' = nextNonce /\ lock' = lock
        /\ claimed' \in [Submission -> BOOLEAN] /\ ~At(w, "lock")
    BY <1>8, <1>5 DEF Depth, ReleaseClaim, rowVars, At
  <2>3. p \in Position
    BY DEF Position
  <2>4. RowInvs'
    BY <2>1, <2>2, <2>3, <1>0, <1>1, <1>2, <1>3, <1>5, LocalStep DEF s
  <2> QED
    BY <2>1, <2>2, <2>3, <2>4, <1>3, <1>4, <1>5
<1>9. CASE MarkFinal(w)
  <2>1. /\ Goto(w, "release") /\ ~At(w, "lock")
        /\ \E x \in {"confirmed", "abandoned"} : status' = [status EXCEPT ![s] = x]
        /\ claimed' \in [Submission -> BOOLEAN]
        /\ UNCHANGED <<nonce, attempts, nextNonce, lock>>
    BY <1>9, <1>5 DEF MarkFinal, At, s
  <2>2. PICK x \in {"confirmed", "abandoned"} : status' = [status EXCEPT ![s] = x]
    BY <2>1
  <2>3. "release" \in Position /\ x \in Status /\ x \notin Retried
    BY DEF Position, Status, Retried
  <2>4. RowInvs'
    BY <2>1, <2>2, <2>3, <1>0, <1>1, <1>2, <1>3, <1>5, LocalStep DEF s
  <2> QED
    BY <2>1, <2>2, <2>3, <2>4, <1>3, <1>4, <1>5
<1>10. CASE Reserve(w)
  <2>1. /\ Goto(w, "broadcast") /\ At(w, "reserve")
        /\ status' = [status EXCEPT ![s] = "reserved"]
        /\ UNCHANGED <<attempts, claimed, lock>>
    BY <1>10 DEF Reserve, s
  <2>2. nonce' \in [Submission -> Nat \cup {NoNonce}] /\ nextNonce' \in Nat
    BY <1>10, <1>5 DEF Reserve
  <2>3. "broadcast" \in Position /\ "reserved" \in Status
    BY DEF Position, Status
  <2>4. RowInvs'
    BY <2>1, <2>3, <1>0, <1>1, <1>2, <1>3, <1>5, LocalStep DEF s, At
  <2> QED
    BY <2>1, <2>2, <2>3, <2>4, <1>3, <1>4, <1>5
<1>11. CASE Broadcast(w)
  <2>1. PICK p \in {"fail", "mark"} : Goto(w, p)
    BY <1>11 DEF Broadcast
  <2>2. UNCHANGED <<rowVars, lock>> /\ At(w, "broadcast") /\ p \in Position
    BY <1>11 DEF Broadcast, Position
  <2>3. attempts[s] < MaxRetries + faults
    BY <2>2, <1>0, <1>2 DEF At, Retried
  <2>4. RowInvs'
    BY <2>1, <2>2, <2>3, <1>0, <1>1, <1>2, <1>3, <1>5, LocalStep DEF s, At, rowVars
  <2> QED
    BY <2>1, <2>2, <2>4, <1>3, <1>4, <1>5 DEF rowVars
<1>12. CASE MarkSubmitted(w)
  <2>1. /\ Goto(w, "unlock") /\ At(w, "mark")
        /\ status' = [status EXCEPT ![s] = "submitted"]
        /\ claimed' \in [Submission -> BOOLEAN]
        /\ UNCHANGED <<nonce, attempts, nextNonce, lock>>
    BY <1>12, <1>5 DEF MarkSubmitted, s
  <2>2. "unlock" \in Position /\ "submitted" \in Status
    BY DEF Position, Status
  <2>3. attempts[s] < MaxRetries
    BY <2>1, <1>2 DEF At, Retried
  <2>4. RowInvs'
    BY <2>1, <2>2, <2>3, <1>0, <1>1, <1>2, <1>3, <1>5, LocalStep DEF s, At
  <2> QED
    BY <2>1, <2>2, <2>4, <1>3, <1>4, <1>5
<1>13. CASE RecordFailure(w)
  <2>1. /\ Goto(w, "unlock") /\ At(w, "fail")
        /\ UNCHANGED <<nonce, nextNonce, lock>>
        /\ claimed' \in [Submission -> BOOLEAN]
        /\ \/ UNCHANGED <<status, attempts>>
           \/ /\ attempts' = [attempts EXCEPT ![s] = attempts[s] + 1]
              /\ status' = [status EXCEPT ![s] = IF attempts[s] + 1 >= MaxRetries
                                                 THEN "dead_letter" ELSE "pending"]
    BY <1>13, <1>5 DEF RecordFailure, s
  <2>2. "unlock" \in Position /\ "dead_letter" \in Status /\ "pending" \in Status
        /\ "dead_letter" \notin Retried
    BY DEF Position, Status, Retried
  <2>3. /\ status' \in [Submission -> Status] /\ attempts' \in [Submission -> Nat]
        /\ attempts'[s] <= MaxRetries + faults
        /\ status'[s] \in Retried => attempts'[s] < MaxRetries
        /\ \A r \in Submission : r # s => attempts'[r] = attempts[r] /\ status'[r] = status[r]
    BY <2>1, <2>2, <1>0, <1>1, <1>2, <1>5
  <2>4. RowInvs'
    BY <2>1, <2>2, <2>3, <1>0, <1>1, <1>2, <1>3, <1>5, LocalStep DEF s, At
  <2> QED
    BY <2>1, <2>2, <2>3, <2>4, <1>3, <1>4, <1>5
<1>14. CASE Unlock(w)
  <2>1. /\ Goto(w, "idle") /\ At(w, "unlock") /\ UNCHANGED rowVars
        /\ lock' = [lock EXCEPT ![s] = NoWriter]
    BY <1>14 DEF Unlock, s
  <2>2. RowInvs'
    BY <2>1, <1>0, <1>1, <1>2, <1>3, <1>5, LocalStep DEF s, At, rowVars
  <2> QED
    BY <2>1, <2>2, <1>3, <1>4, <1>5 DEF rowVars
<1> QED
  BY <1>6, <1>7, <1>8, <1>9, <1>10, <1>11, <1>12, <1>13, <1>14 DEF WriterStep

\* What the others do: a row enqueued or erased, a claim that lapses, a worker
\* that takes a row or fails.
LEMMA StepOfOthers ==
  ASSUME SubmissionTypeOK, ChainTypeOK, RowInvs,
         \/ \E w \in Writer :
              \/ CallFails(w) \/ Stop(w) \/ AnswerLost(w)
              \/ \E s \in Submission : ClaimPendingSubmissions(w, s)
         \/ \E s \in Submission : Enqueue(s) \/ Erase(s) \/ ClaimLapses(s)
         \/ \E tx \in mempool : Forget(tx)
  PROVE  SubmissionTypeOK' /\ RowInvs'
<1>0. /\ MaxRetries \in Nat \ {0} /\ MaxFaults \in Nat /\ faults \in Nat
      /\ faults <= MaxFaults
      /\ NoWriter \notin Writer
  BY SubmissionAssumption DEF SubmissionTypeOK
<1>1. ASSUME UNCHANGED <<status, attempts, lock, writer>>,
             faults' \in 0..MaxFaults, faults <= faults'
      PROVE  RowInvs'
  <2>1. \A s \in Submission : attempts[s] \in Nat
    BY DEF SubmissionTypeOK
  <2>2. \A w \in Writer : ~At(w, "idle") => writer[w].sub \in Submission
    BY WorkerFacts
  <2>3. AttemptsInv'
    BY <1>0, <1>1, <2>1 DEF RowInvs, AttemptsInv
  <2>4. LockInv'
    BY <1>1 DEF RowInvs, LockInv
  <2>5. WorkerInv'
    <3> SUFFICES ASSUME NEW w \in Writer
                 PROVE  /\ At(w, "fail") => attempts[writer[w].sub] < MaxRetries + faults'
                        /\ At(w, "receipt") => status[writer[w].sub] \in Open
                        /\ At(w, "reserve") => status[writer[w].sub] \in Retried
                        /\ writer[w].at \in {"broadcast", "mark"} =>
                             status[writer[w].sub] = "reserved"
      BY <1>1 DEF WorkerInv, At
    <3> QED
      BY <1>0, <1>1, <2>1, <2>2 DEF RowInvs, WorkerInv, At
  <2> QED
    BY <2>3, <2>4, <2>5 DEF RowInvs
<1>2. ASSUME NEW w \in Writer, CallFails(w) \/ AnswerLost(w)
      PROVE  SubmissionTypeOK' /\ RowInvs'
  <2>1. /\ ~At(w, "idle") /\ ~At(w, "lock") /\ Goto(w, "fail")
        /\ faults' = faults + 1 /\ faults' \in 0..MaxFaults
        /\ UNCHANGED <<rowVars, lock>>
    BY <1>0, <1>2 DEF CallFails, AnswerLost, Fault, At
  <2>2. "fail" \in Position
    BY DEF Position
  <2>3. /\ writer' \in [Writer -> WriterType]
        /\ writer'[w] = [at |-> "fail", sub |-> writer[w].sub, mined |-> 0]
        /\ \A v \in Writer : v # w => writer'[v] = writer[v]
    BY <2>1, <2>2, GotoFacts
  <2>4. writer[w].sub \in Submission
    BY <2>1, WorkerFacts
  <2>5. lock[writer[w].sub] = w
    BY <2>1 DEF RowInvs, LockInv, At
  <2>6. /\ attempts[writer[w].sub] \in Nat
        /\ attempts[writer[w].sub] <= MaxRetries + faults
        /\ status[writer[w].sub] \in Retried => attempts[writer[w].sub] < MaxRetries
    BY <2>4 DEF RowInvs, AttemptsInv, SubmissionTypeOK
  <2>7. RowInvs'
    BY <2>1, <2>3, <2>4, <2>5, <2>6, <1>0, LocalStep DEF rowVars
  <2>8. SubmissionTypeOK'
    BY <2>1, <2>3 DEF SubmissionTypeOK, rowVars, WriterType
  <2> QED
    BY <2>7, <2>8
<1>3. ASSUME NEW w \in Writer, Stop(w)
      PROVE  SubmissionTypeOK' /\ RowInvs'
  <2>1. /\ ~At(w, "idle") /\ Goto(w, "idle")
        /\ faults' = faults + 1 /\ faults' \in 0..MaxFaults
        /\ UNCHANGED rowVars
        /\ lock' = [lock EXCEPT ![writer[w].sub] =
                      IF lock[writer[w].sub] = w THEN NoWriter ELSE lock[writer[w].sub]]
    BY <1>0, <1>3 DEF Stop, Fault
  <2>3. /\ writer' \in [Writer -> WriterType] /\ writer'[w] = Free
        /\ \A v \in Writer : v # w => writer'[v] = writer[v]
    BY <2>1, GotoFacts
  <2>4. writer[w].sub \in Submission
    BY <2>1, WorkerFacts
  <2>5. /\ lock' \in [Submission -> Writer \cup {NoWriter}]
        /\ \A r \in Submission : r # writer[w].sub => lock'[r] = lock[r]
        /\ lock'[writer[w].sub] = lock[writer[w].sub] \/ lock[writer[w].sub] = w
    BY <2>1, <2>4 DEF SubmissionTypeOK
  <2>6. /\ attempts[writer[w].sub] \in Nat
        /\ attempts[writer[w].sub] <= MaxRetries + faults
        /\ status[writer[w].sub] \in Retried => attempts[writer[w].sub] < MaxRetries
    BY <2>4 DEF RowInvs, AttemptsInv, SubmissionTypeOK
  <2>7. RowInvs'
    BY <2>1, <2>3, <2>4, <2>5, <2>6, <1>0, LocalStep DEF rowVars, Free
  <2>8. SubmissionTypeOK'
    BY <2>1, <2>3, <2>5 DEF SubmissionTypeOK, rowVars, WriterType
  <2> QED
    BY <2>7, <2>8
<1>4. ASSUME NEW w \in Writer, NEW s \in Submission, ClaimPendingSubmissions(w, s)
      PROVE  SubmissionTypeOK' /\ RowInvs'
  <2>1. /\ writer' = [writer EXCEPT ![w] = [at |-> "lock", sub |-> s, mined |-> 0]]
        /\ claimed' \in [Submission -> BOOLEAN]
        /\ UNCHANGED <<status, nonce, attempts, erased, nextNonce, lock, faults>>
    BY <1>4 DEF ClaimPendingSubmissions, SubmissionTypeOK
  <2>2. [at |-> "lock", sub |-> s, mined |-> 0] \in WriterType
    BY DEF WriterType, Position
  <2>3. SubmissionTypeOK'
    BY <2>1, <2>2 DEF SubmissionTypeOK, WriterType
  <2>4. /\ writer'[w].at = "lock"
        /\ \A v \in Writer : v # w => writer'[v] = writer[v]
    BY <2>1 DEF SubmissionTypeOK
  <2>5. AttemptsInv' /\ LockInv' /\ WorkerInv'
    BY <2>1, <2>4 DEF RowInvs, AttemptsInv, LockInv, WorkerInv, At
  <2> QED
    BY <2>3, <2>5 DEF RowInvs
<1>5. ASSUME NEW s \in Submission, Enqueue(s)
      PROVE  SubmissionTypeOK' /\ RowInvs'
  <2>1. /\ status[s] = "none" /\ status' = [status EXCEPT ![s] = "pending"]
        /\ UNCHANGED <<nonce, attempts, claimed, erased, nextNonce, lock, writer, faults>>
    BY <1>5 DEF Enqueue
  <2>2. attempts[s] < MaxRetries
    BY <2>1 DEF RowInvs, AttemptsInv, Retried
  <2>3. /\ status' \in [Submission -> Status] /\ status'[s] = "pending"
        /\ \A r \in Submission : r # s => status'[r] = status[r]
    BY <2>1 DEF SubmissionTypeOK, Status
  <2>4. SubmissionTypeOK'
    BY <2>1, <2>3 DEF SubmissionTypeOK
  <2>5. AttemptsInv'
    BY <2>1, <2>2, <2>3 DEF RowInvs, AttemptsInv
  <2>6. LockInv'
    BY <2>1 DEF RowInvs, LockInv
  <2>7. WorkerInv'
    <3> SUFFICES ASSUME NEW w \in Writer
                 PROVE  /\ At(w, "fail") => attempts[writer[w].sub] < MaxRetries + faults
                        /\ At(w, "receipt") => status'[writer[w].sub] \in Open
                        /\ At(w, "reserve") => status'[writer[w].sub] \in Retried
                        /\ writer[w].at \in {"broadcast", "mark"} =>
                             status'[writer[w].sub] = "reserved"
      BY <2>1 DEF WorkerInv, At
    <3>1. ~At(w, "idle") => writer[w].sub \in Submission
      BY WorkerFacts
    <3> QED
      BY <2>1, <2>3, <3>1 DEF RowInvs, WorkerInv, At, Open, Retried
  <2> QED
    BY <2>4, <2>5, <2>6, <2>7 DEF RowInvs
<1>6. ASSUME NEW s \in Submission, Erase(s) \/ ClaimLapses(s)
      PROVE  SubmissionTypeOK' /\ RowInvs'
  <2>1. /\ UNCHANGED <<status, nonce, attempts, nextNonce, lock, writer>>
        /\ faults' \in 0..MaxFaults /\ faults <= faults'
        /\ claimed' \in [Submission -> BOOLEAN] /\ erased' \subseteq Erasable
    <3>1. CASE Erase(s)
      BY <1>0, <3>1 DEF Erase, SubmissionTypeOK
    <3>2. CASE ClaimLapses(s)
      <4>1. faults' \in 0..MaxFaults /\ faults <= faults'
        BY <1>0, <3>2 DEF ClaimLapses
      <4> QED
        BY <4>1, <3>2 DEF ClaimLapses, SubmissionTypeOK
    <3> QED
      BY <1>6, <3>1, <3>2
  <2> QED
    BY <2>1, <1>1 DEF SubmissionTypeOK
<1>7. ASSUME NEW tx \in mempool, Forget(tx)
      PROVE  SubmissionTypeOK' /\ RowInvs'
  <2>1. /\ UNCHANGED <<rowVars, lock, writer>>
        /\ faults' \in 0..MaxFaults /\ faults <= faults'
    BY <1>0, <1>7 DEF Forget, Fault
  <2> QED
    BY <2>1, <1>1 DEF SubmissionTypeOK, rowVars
<1> QED
  BY <1>2, <1>3, <1>4, <1>5, <1>6, <1>7

-----------------------------------------------------------------------------
(* What was sent: one transaction of a submission, nonces without a gap *)

\* What was sent carries the nonce that its row keeps.
SentInv ==
  /\ \A t \in Mined \cup mempool : nonce[t.sub] = t.nonce
  /\ \A w \in Writer : At(w, "broadcast") => nonce[writer[w].sub] # NoNonce

\* The blocks up to any one have the first nonces, no transaction is in two
\* blocks, and what is mined waits no more.
ChainInv ==
  /\ \A k \in 0..Height :
       {t.nonce : t \in MinedUpto(k)} = 0..(Cardinality(MinedUpto(k)) - 1)
  /\ \A h, k \in 1..Height : chain[h].txs \cap chain[k].txs # {} => h = k
  /\ Mined \cap mempool = {}

\* Nonces tell the transactions apart, so that there are no more of them than
\* nonces were given out.
LEMMA SentFinite ==
  ASSUME ChainTypeOK, SubmissionTypeOK, SentInv, NoncesDense,
         NEW S \in SUBSET (Mined \cup mempool)
  PROVE  /\ IsFiniteSet(S) /\ Cardinality(S) \in Nat
         /\ Cardinality(S) <= nextNonce
<1>1. \A t \in S : /\ t \in Tx /\ t.sub \in Submission /\ t.nonce \in Nat
                   /\ nonce[t.sub] = t.nonce
  BY MinedFacts DEF ChainTypeOK, Tx, SentInv
<1>2. \A t \in S : t.nonce \in 0..(nextNonce - 1)
  <2> SUFFICES ASSUME NEW t \in S PROVE t.nonce \in 0..(nextNonce - 1)
    OBVIOUS
  <2>1. t.nonce # NoNonce
    BY <1>1, SubmissionAssumption
  <2>2. t.nonce \in {nonce[s] : s \in Submission} \ {NoNonce}
    BY <1>1, <2>1
  <2> QED
    BY <2>2 DEF NoncesDense
<1>3. ASSUME NEW t \in S, NEW u \in S, t.nonce = u.nonce
      PROVE  t = u
  <2>1. t.sub = u.sub
    BY <1>1, <1>3, SubmissionAssumption DEF NoncesDense
  <2> QED
    BY <1>1, <1>3, <2>1 DEF Tx
<1> DEFINE f == [t \in S |-> t.nonce]
<1>4. f \in Injection(S, 0..(nextNonce - 1))
  <2>1. f \in [S -> 0..(nextNonce - 1)]
    BY <1>2
  <2>2. \A t, u \in S : f[t] = f[u] => t = u
    BY <1>3
  <2> HIDE DEF f
  <2> QED
    BY <2>1, <2>2 DEF Injection, IsInjective
<1>5. nextNonce \in Nat
  BY DEF SubmissionTypeOK
<1>6. /\ IsFiniteSet(0..(nextNonce - 1))
      /\ Cardinality(0..(nextNonce - 1)) = nextNonce
  BY <1>5, FS_Interval
<1> HIDE DEF f
<1> QED
  BY <1>4, <1>6, FS_Injection, FS_CardinalityType

\* The count of the node is never ahead of the table.
LEMMA CountNotAhead ==
  ASSUME ChainTypeOK, SubmissionTypeOK, SentInv, NoncesDense, ChainInv
  PROVE  AllocateNextNonce = nextNonce
<1> DEFINE n == Cardinality(Mined)
           next == {tx \in mempool :
                      \A k \in n..tx.nonce : \E m \in mempool : m.nonce = k}
<1>1. PendingCount = n + Cardinality(next)
  BY DEF PendingCount
<1>2. next \subseteq mempool
  OBVIOUS
<1> HIDE DEF next
<1>3. /\ IsFiniteSet(Mined) /\ IsFiniteSet(next)
      /\ n \in Nat /\ Cardinality(next) \in Nat
      /\ Cardinality(Mined \cup next) <= nextNonce
  BY <1>2, SentFinite
<1>4. Mined \cap next = {}
  BY <1>2 DEF ChainInv
<1>5. Cardinality(Mined \cup next) = n + Cardinality(next)
  <2>1. Cardinality(Mined \cap next) = 0
    BY <1>4, FS_EmptySet
  <2>2. Cardinality(Mined \cup next) = n + Cardinality(next) - Cardinality(Mined \cap next)
    BY <1>3, FS_Union
  <2> QED
    BY <2>1, <2>2, <1>3
<1>6. PendingCount <= nextNonce
  BY <1>1, <1>3, <1>5
<1> QED
  BY <1>1, <1>3, <1>6 DEF AllocateNextNonce, SubmissionTypeOK

LEMMA ExtendsKeepsChain ==
  ASSUME ChainTypeOK, SubmissionTypeOK, SentInv, NoncesDense, ChainInv,
         NEW b, NEW p, NEW T \in SUBSET Tx, Extends(b, p, T)
  PROVE  /\ ChainInv'
         /\ Mined' \cup mempool' \subseteq Mined \cup mempool
         /\ Mined' = MinedUpto(b) \cup T
<1> DEFINE old == MinedUpto(b)
           Upto(k) == UNION {chain'[h].txs : h \in 1..k}
<1>1. /\ Height \in Nat /\ b \in 0..Height /\ p \in (b + 1)..Height'
      /\ Height' \in Nat /\ Height' >= Height
      /\ \A h \in 1..b : chain'[h] = chain[h]
      /\ \A h \in (b + 1)..Height' : chain'[h].txs = IF h = p THEN T ELSE {}
  <2>1. \A h \in (b + 1)..Height' :
          chain'[h] = [fork |-> reorgs', txs |-> IF h = p THEN T ELSE {}]
    BY DEF Extends
  <2>2. \A h \in (b + 1)..Height' : chain'[h].txs = IF h = p THEN T ELSE {}
    <3> TAKE h \in (b + 1)..Height'
    <3> DEFINE X == IF h = p THEN T ELSE {}
    <3>1. chain'[h] = [fork |-> reorgs', txs |-> X]
      BY <2>1
    <3> HIDE DEF X
    <3>2. chain'[h].txs = X
      BY <3>1
    <3> QED
      BY <3>2 DEF X
  <2> QED
    BY <2>2, MinedFacts DEF Extends
<1>2. old \subseteq Mined
  BY <1>1, MinedFacts DEF MinedUpto
<1>3. old \cap T = {}
  BY <1>2 DEF Extends, ChainInv
<1>4. T \subseteq Mined \cup mempool
  BY DEF Extends
<1>5. \A k \in 0..b : Upto(k) = MinedUpto(k)
  BY <1>1 DEF MinedUpto
<1>6. \A k \in (b + 1)..Height' : Upto(k) = IF p <= k THEN old \cup T ELSE old
  <2> SUFFICES ASSUME NEW k \in (b + 1)..Height', NEW t
               PROVE  t \in Upto(k) <=> t \in IF p <= k THEN old \cup T ELSE old
    <3> HIDE DEF Upto, old
    <3> QED
      OBVIOUS
  <2>1. ASSUME t \in Upto(k) PROVE t \in IF p <= k THEN old \cup T ELSE old
    <3>1. PICK h \in 1..k : t \in chain'[h].txs
      BY <2>1
    <3>2. CASE h <= b
      BY <1>1, <3>1, <3>2 DEF MinedUpto
    <3>3. CASE h > b
      BY <1>1, <3>1, <3>3
    <3> QED
      BY <1>1, <3>2, <3>3
  <2>2. ASSUME t \in old PROVE t \in Upto(k)
    <3>1. PICK h \in 1..b : t \in chain[h].txs
      BY <2>2 DEF MinedUpto
    <3>2. h \in 1..k /\ t \in chain'[h].txs
      BY <1>1, <3>1
    <3> QED
      BY <3>2
  <2>3. ASSUME t \in T, p <= k PROVE t \in Upto(k)
    <3>1. p \in 1..k /\ t \in chain'[p].txs
      BY <1>1, <2>3
    <3> QED
      BY <3>1
  <2> QED
    BY <2>1, <2>2, <2>3
<1>7. Mined' = old \cup T
  <2>1. Mined' = Upto(Height')
    BY DEF Mined, MinedIn, Height
  <2>2. Height' \in (b + 1)..Height' /\ p <= Height'
    BY <1>1
  <2> QED
    BY <2>1, <2>2, <1>6
<1>8. /\ IsFiniteSet(old) /\ IsFiniteSet(T)
      /\ Cardinality(old) \in Nat /\ Cardinality(T) \in Nat
  <2>1. old \in SUBSET (Mined \cup mempool) /\ T \in SUBSET (Mined \cup mempool)
    BY <1>2, <1>4
  <2> HIDE DEF old
  <2> QED
    BY <2>1, SentFinite
<1>9. Cardinality(old \cup T) = Cardinality(old) + Cardinality(T)
  <2>1. Cardinality(old \cap T) = 0
    BY <1>3, FS_EmptySet
  <2>2. Cardinality(old \cup T) =
          Cardinality(old) + Cardinality(T) - Cardinality(old \cap T)
    <3> HIDE DEF old
    <3> QED
      BY <1>8, FS_Union
  <2> QED
    BY <2>1, <2>2, <1>8
<1> DEFINE Dense(S) == {t.nonce : t \in S} = 0..(Cardinality(S) - 1)
<1>10. \A k \in 0..b : Dense(MinedUpto(k))
  BY <1>1 DEF ChainInv
<1>11. Dense(old) /\ Dense(old \cup T)
  <2>1. Dense(old)
    BY <1>1, <1>10
  <2>2. {t.nonce : t \in T} =
          Cardinality(old)..(Cardinality(old) + Cardinality(T) - 1)
    BY DEF Extends
  <2>3. {t.nonce : t \in old \cup T} = {t.nonce : t \in old} \cup {t.nonce : t \in T}
    OBVIOUS
  <2>4. {t.nonce : t \in old \cup T} = 0..(Cardinality(old) + Cardinality(T) - 1)
    <3> HIDE DEF old
    <3> QED
      BY <2>1, <2>2, <2>3, <1>8
  <2>5. Dense(old \cup T)
    <3>1. 0..(Cardinality(old \cup T) - 1) = 0..(Cardinality(old) + Cardinality(T) - 1)
      BY <1>8, <1>9
    <3> QED
      BY <2>4, <3>1
  <2> QED
    BY <2>1, <2>5
<1>12. \A k \in 0..Height' : Dense(Upto(k))
  <2> SUFFICES ASSUME NEW k \in 0..Height' PROVE Dense(Upto(k))
    OBVIOUS
  <2> HIDE DEF Dense, Upto, old
  <2>1. CASE k <= b
    BY <2>1, <1>1, <1>5, <1>10
  <2>2. CASE k > b
    <3>1. k \in (b + 1)..Height'
      BY <2>2, <1>1
    <3>2. Upto(k) = old \/ Upto(k) = old \cup T
      BY <3>1, <1>6
    <3> QED
      BY <3>2, <1>11
  <2> QED
    BY <2>1, <2>2, <1>1
<1>13. ASSUME NEW h \in 1..Height', NEW k \in 1..Height',
              chain'[h].txs \cap chain'[k].txs # {}
       PROVE  h = k
  <2>1. PICK t : t \in chain'[h].txs /\ t \in chain'[k].txs
    BY <1>13
  <2>2. \A j \in 1..Height' : j > b /\ t \in chain'[j].txs => j = p /\ t \in T
    BY <1>1
  <2>3. \A j \in 1..Height' :
          j <= b /\ t \in chain'[j].txs => t \in old /\ t \in chain[j].txs /\ j \in 1..Height
    BY <1>1 DEF MinedUpto
  <2>4. CASE h <= b /\ k <= b
    <3>1. t \in chain[h].txs \cap chain[k].txs /\ h \in 1..Height /\ k \in 1..Height
      BY <2>1, <2>3, <2>4
    <3> QED
      BY <3>1 DEF ChainInv
  <2>5. CASE ~(h <= b /\ k <= b)
    BY <2>1, <2>2, <2>3, <2>5, <1>1, <1>3
  <2> QED
    BY <2>4, <2>5
<1>14. Mined' \cap mempool' = {} /\ Mined' \cup mempool' \subseteq Mined \cup mempool
  <2>1. mempool' \subseteq (mempool \cup (Mined \ old)) \ T
    BY DEF Extends
  <2>2. mempool \cap old = {}
    BY <1>2 DEF ChainInv
  <2> QED
    BY <2>1, <2>2, <1>7, <1>2, <1>4
<1>15. ChainInv'
  <2>1. \A k \in 0..Height' :
          {t.nonce : t \in MinedUpto(k)'} = 0..(Cardinality(MinedUpto(k)') - 1)
    BY <1>12 DEF MinedUpto
  <2> QED
    BY <2>1, <1>13, <1>14 DEF ChainInv
<1> QED
  BY <1>7, <1>14, <1>15

LEMMA SubmissionKeepsSent ==
  ASSUME ChainTypeOK, SubmissionTypeOK, SentInv, NoncesDense, ChainInv,
         SubmissionNext
  PROVE  /\ SentInv' /\ NoncesDense' /\ ChainInv' /\ mempool' \subseteq Tx
         /\ UNCHANGED <<chain, reorgs, deep>>
<1>1. /\ Height \in Nat /\ Mined = MinedUpto(Height) /\ Mined \subseteq Tx
      /\ mempool \subseteq Tx
  BY MinedFacts DEF ChainTypeOK
<1>2. ASSUME UNCHANGED <<chain, reorgs, deep>>, mempool' \cap Mined = {}
      PROVE  ChainInv' /\ Mined' = Mined
  <2>1. Mined' = Mined /\ Height' = Height
    BY <1>2 DEF Mined, MinedIn, Height
  <2>2. \A k : MinedUpto(k)' = MinedUpto(k)
    BY <1>2 DEF MinedUpto
  <2> QED
    BY <2>1, <2>2, <1>2 DEF ChainInv
<1>3. ASSUME UNCHANGED <<nonce, nextNonce>>
      PROVE  NoncesDense'
  BY <1>3 DEF NoncesDense
\* a step that sends nothing and reserves nothing
<1>4. ASSUME UNCHANGED <<chain, reorgs, deep, nonce, nextNonce>>, mempool' \subseteq mempool,
             \A v \in Writer : At(v, "broadcast")' =>
                At(v, "broadcast") /\ writer'[v].sub = writer[v].sub
      PROVE  SentInv' /\ NoncesDense' /\ ChainInv' /\ mempool' \subseteq Tx
             /\ UNCHANGED <<chain, reorgs, deep>>
  <2>1. mempool' \cap Mined = {}
    BY <1>4 DEF ChainInv
  <2>2. ChainInv' /\ Mined' = Mined
    BY <2>1, <1>2, <1>4
  <2>3. SentInv'
    BY <1>4, <2>2 DEF SentInv
  <2> QED
    BY <2>2, <2>3, <1>1, <1>3, <1>4
<1>5. ASSUME NEW w \in Writer, Broadcast(w) \/ AnswerLost(w),
             UNCHANGED <<chain, reorgs, deep>>
      PROVE  SentInv' /\ NoncesDense' /\ ChainInv' /\ mempool' \subseteq Tx
  <2> DEFINE tx == TxOf(writer[w].sub)
  <2>1. At(w, "broadcast") /\ UNCHANGED <<nonce, nextNonce>>
    BY <1>5 DEF Broadcast, AnswerLost, rowVars
  <2>2. /\ writer[w].sub \in Submission /\ nonce[writer[w].sub] \in Nat
        /\ ~At(w, "idle")
    <3>1. ~At(w, "idle")
      BY <2>1 DEF At
    <3>2. writer[w].sub \in Submission
      BY <3>1, WorkerFacts
    <3> QED
      BY <2>1, <3>1, <3>2 DEF SentInv, SubmissionTypeOK
  <2>3. tx \in Tx /\ nonce[tx.sub] = tx.nonce
    BY <2>2 DEF Tx, TxOf
  <2>4. mempool' = mempool \/ (mempool' = mempool \cup {tx} /\ ~(tx.nonce < Cardinality(Mined)))
    <3>1. tx.nonce \in Nat
      BY <2>3 DEF Tx
    <3>2. Cardinality(Mined) \in Nat
      BY SentFinite
    <3> HIDE DEF tx
    <3> QED
      BY <1>5, <3>1, <3>2 DEF Broadcast, AnswerLost, tx
  <2>5. ~(tx.nonce < Cardinality(Mined)) => tx \notin Mined
    <3> SUFFICES ASSUME tx \in Mined PROVE tx.nonce < Cardinality(Mined)
      OBVIOUS
    <3>1. tx.nonce \in {t.nonce : t \in Mined}
      OBVIOUS
    <3>2. {t.nonce : t \in Mined} = 0..(Cardinality(Mined) - 1)
      BY <1>1 DEF ChainInv
    <3>3. Cardinality(Mined) \in Nat
      BY SentFinite
    <3> HIDE DEF tx
    <3>4. tx.nonce \in 0..(Cardinality(Mined) - 1)
      BY <3>1, <3>2
    <3> QED
      BY <3>3, <3>4
  <2> HIDE DEF tx
  <2>6. mempool' \cap Mined = {} /\ mempool' \subseteq Tx
    BY <2>3, <2>4, <2>5, <1>1 DEF ChainInv
  <2>7. ChainInv' /\ Mined' = Mined
    BY <2>6, <1>2, <1>5
  <2>8. \A v \in Writer : At(v, "broadcast")' =>
          At(v, "broadcast") /\ writer'[v].sub = writer[v].sub
    <3>1. PICK q \in {"fail", "mark"} : Goto(w, q)
      BY <1>5 DEF Broadcast, AnswerLost
    <3>2. /\ \A v \in Writer : v # w => writer'[v] = writer[v]
          /\ writer'[w].at = q
      BY <3>1, <2>2, GotoShape DEF Position
    <3> QED
      BY <3>2 DEF At
  <2>9. SentInv'
    BY <2>1, <2>3, <2>4, <2>7, <2>8 DEF SentInv
  <2> QED
    BY <2>1, <2>6, <2>7, <2>9, <1>3
<1>6. ASSUME NEW w \in Writer, Reserve(w), UNCHANGED chainVars
      PROVE  SentInv' /\ NoncesDense' /\ ChainInv' /\ mempool' \subseteq Tx
  <2> DEFINE s == writer[w].sub
  <2>1. ~At(w, "idle") /\ s \in Submission
    BY <1>6, WorkerFacts DEF Reserve, At
  <2>2. /\ \A v \in Writer : v # w => writer'[v] = writer[v]
        /\ writer'[w].sub = s
    <3>1. Goto(w, "broadcast") /\ "broadcast" \in Position
      BY <1>6 DEF Reserve, Position
    <3> QED
      BY <2>1, <3>1, GotoShape
  <2>3. nextNonce \in Nat /\ nonce \in [Submission -> Nat \cup {NoNonce}]
    BY DEF SubmissionTypeOK
  <2>4. AllocateNextNonce = nextNonce
    BY CountNotAhead
  <2> HIDE DEF s
  <2>5. \/ nonce[s] # NoNonce /\ UNCHANGED <<nonce, nextNonce>>
        \/ /\ nonce[s] = NoNonce
           /\ nonce' = [nonce EXCEPT ![s] = nextNonce] /\ nextNonce' = nextNonce + 1
    BY <1>6, <2>4 DEF Reserve, s
  <2>6. \A r \in Submission : nonce[r] # NoNonce => nonce'[r] = nonce[r]
    BY <2>1, <2>3, <2>5
  <2>7. nonce'[s] # NoNonce
    BY <2>1, <2>3, <2>5, SubmissionAssumption
  <2>8. ChainInv' /\ Mined' = Mined /\ mempool' = mempool
    BY <1>6, <1>2 DEF chainVars, ChainInv
  <2>9. SentInv'
    <3>1. ASSUME NEW t \in Mined \cup mempool PROVE nonce'[t.sub] = t.nonce
      <4>1. t.sub \in Submission /\ t.nonce \in Nat /\ nonce[t.sub] = t.nonce
        BY <1>1 DEF Tx, SentInv
      <4> QED
        BY <4>1, <2>6, SubmissionAssumption
    <3>2. ASSUME NEW v \in Writer, At(v, "broadcast")'
          PROVE  nonce'[writer'[v].sub] # NoNonce
      <4>1. CASE v = w
        BY <4>1, <2>2, <2>7
      <4>2. CASE v # w
        <5>1. At(v, "broadcast") /\ ~At(v, "idle") /\ writer'[v] = writer[v]
          BY <4>2, <2>2, <3>2 DEF At
        <5>2. writer[v].sub \in Submission
          BY <5>1, WorkerFacts
        <5> QED
          BY <5>1, <5>2, <2>6 DEF SentInv
      <4> QED
        BY <4>1, <4>2
    <3> QED
      BY <3>1, <3>2, <2>8 DEF SentInv
  <2>10. CASE UNCHANGED <<nonce, nextNonce>>
    BY <2>10, <2>8, <2>9, <1>1, <1>3
  <2>11. CASE /\ nonce[s] = NoNonce
              /\ nonce' = [nonce EXCEPT ![s] = nextNonce] /\ nextNonce' = nextNonce + 1
    <3>1. \A r \in Submission : nonce[r] \in Nat => nonce[r] \in 0..(nextNonce - 1)
      BY SubmissionAssumption DEF NoncesDense
    <3>2. \A r, q \in Submission :
            nonce'[r] = nonce'[q] => r = q \/ nonce'[r] = NoNonce
      BY <2>1, <2>3, <2>11, <3>1 DEF NoncesDense
    <3>3. {nonce'[r] : r \in Submission} \ {NoNonce} = 0..nextNonce
      <4>1. ASSUME NEW x \in 0..nextNonce
            PROVE  x # NoNonce /\ \E r \in Submission : nonce'[r] = x
        <5>1. CASE x = nextNonce
          BY <5>1, <2>1, <2>3, <2>11, SubmissionAssumption
        <5>2. CASE x # nextNonce
          <6>1. x \in 0..(nextNonce - 1)
            BY <5>2, <2>3
          <6>2. PICK r \in Submission : nonce[r] = x
            BY <6>1 DEF NoncesDense
          <6> QED
            BY <6>1, <6>2, <2>6, SubmissionAssumption
        <5> QED
          BY <5>1, <5>2
      <4>2. ASSUME NEW r \in Submission, nonce'[r] # NoNonce
            PROVE  nonce'[r] \in 0..nextNonce
        <5>1. CASE r = s
          BY <5>1, <2>3, <2>11
        <5>2. CASE r # s
          <6>1. nonce'[r] = nonce[r] /\ nonce[r] \in Nat
            BY <5>2, <4>2, <2>3, <2>11
          <6> QED
            BY <6>1, <3>1, <2>3
        <5> QED
          BY <5>1, <5>2
      <4> QED
        BY <4>1, <4>2
    <3>4. 0..(nextNonce' - 1) = 0..nextNonce
      BY <2>3, <2>11
    <3>5. NoncesDense'
      BY <3>2, <3>3, <3>4 DEF NoncesDense
    <3> QED
      BY <3>5, <2>8, <2>9, <1>1
  <2> QED
    BY <2>5, <2>10, <2>11
<1>7. ASSUME NEW w \in Writer, UNCHANGED chainVars,
             \/ Lock(w) \/ Receipt(w) \/ Depth(w) \/ MarkFinal(w) \/ ReleaseClaim(w)
             \/ MarkSubmitted(w) \/ RecordFailure(w) \/ Unlock(w)
             \/ CallFails(w) \/ Stop(w)
             \/ \E s \in Submission : ClaimPendingSubmissions(w, s)
      PROVE  /\ UNCHANGED <<chain, reorgs, deep, nonce, nextNonce>> /\ mempool' = mempool
             /\ \A v \in Writer : At(v, "broadcast")' =>
                  At(v, "broadcast") /\ writer'[v].sub = writer[v].sub
  <2>1. UNCHANGED <<chain, reorgs, deep, nonce, nextNonce, mempool>>
    BY <1>7 DEF chainVars, Lock, Receipt, Depth, MarkFinal, ReleaseClaim,
         MarkSubmitted, RecordFailure, Unlock, CallFails, Stop,
         ClaimPendingSubmissions, rowVars
  <2>2. /\ \A v \in Writer : v # w => writer'[v] = writer[v]
        /\ ~At(w, "broadcast")'
    <3>1. CASE \E s \in Submission : ClaimPendingSubmissions(w, s)
      BY <3>1 DEF ClaimPendingSubmissions, SubmissionTypeOK, At
    <3>2. CASE \E q \in (Position \ {"broadcast"}) \cup {"idle"} : ~At(w, "idle") /\ Goto(w, q)
      <4>1. PICK q \in (Position \ {"broadcast"}) \cup {"idle"} : ~At(w, "idle") /\ Goto(w, q)
        BY <3>2
      <4>2. /\ \A v \in Writer : v # w => writer'[v] = writer[v]
            /\ writer'[w].at = q
        BY <4>1, GotoShape
      <4> QED
        BY <4>1, <4>2 DEF At
    <3>3. CASE \E h \in Nat :
                 /\ At(w, "receipt")
                 /\ writer' = [writer EXCEPT ![w].at = "head", ![w].mined = h]
      BY <3>3, WorkerFacts DEF At, SubmissionTypeOK
    <3>4. CASE Lock(w)
      <4>1. ~At(w, "idle")
        BY <3>4 DEF Lock, At
      <4>2. \E q \in {"idle", "unlock", "receipt", "release", "reserve"} : Goto(w, q)
        BY <3>4 DEF Lock
      <4> QED
        BY <4>1, <4>2, <3>2 DEF Position
    <3>5. CASE Receipt(w)
      <4>1. ~At(w, "idle")
        BY <3>5 DEF Receipt, At
      <4>2. CASE \E q \in {"release", "reserve"} : Goto(w, q)
        BY <4>1, <4>2, <3>2 DEF Position
      <4>3. CASE \E h \in 1..Height : writer' = [writer EXCEPT ![w].at = "head", ![w].mined = h]
        <5>1. At(w, "receipt") /\ \A h \in 1..Height : h \in Nat
          BY <3>5, <1>1 DEF Receipt
        <5> QED
          BY <4>3, <5>1, <3>3
      <4> QED
        BY <3>5, <4>2, <4>3 DEF Receipt
    <3>6. CASE Depth(w)
      <4>1. ~At(w, "idle") /\ \E q \in {"release", "confirm", "abandon"} : Goto(w, q)
        BY <3>6 DEF Depth, At
      <4> QED
        BY <4>1, <3>2 DEF Position
    <3>7. CASE \/ MarkFinal(w) \/ ReleaseClaim(w) \/ MarkSubmitted(w)
               \/ RecordFailure(w) \/ Unlock(w) \/ CallFails(w) \/ Stop(w)
      <4>1. ~At(w, "idle") /\ \E q \in {"release", "unlock", "fail", "idle"} : Goto(w, q)
        BY <3>7 DEF MarkFinal, ReleaseClaim, MarkSubmitted, RecordFailure, Unlock,
             CallFails, Stop, At
      <4> QED
        BY <4>1, <3>2 DEF Position
    <3> QED
      BY <1>7, <3>1, <3>4, <3>5, <3>6, <3>7
  <2> QED
    BY <2>1, <2>2 DEF At
<1>8. ASSUME NEW s \in Submission, Enqueue(s) \/ Erase(s) \/ ClaimLapses(s),
             UNCHANGED chainVars
      PROVE  UNCHANGED <<chain, reorgs, deep, mempool, nonce, nextNonce, writer>>
  BY <1>8 DEF Enqueue, Erase, ClaimLapses, chainVars
<1>9. ASSUME NEW tx \in mempool, Forget(tx), UNCHANGED <<chain, reorgs, deep>>
      PROVE  /\ UNCHANGED <<chain, reorgs, deep, nonce, nextNonce, writer>>
             /\ mempool' \subseteq mempool
  BY <1>9 DEF Forget, rowVars
<1> QED
  BY <1>4, <1>5, <1>6, <1>7, <1>8, <1>9 DEF SubmissionNext, WriterStep, chainVars, At

-----------------------------------------------------------------------------
(* The indexer: where it stands *)

Scanned == NextBlock - 1

\* No block is of a fork to come.
ForksPast == \A h \in 1..Height : chain[h].fork <= reorgs

\* Everything in the tables is of confirmed blocks, up to the checkpoint, and
\* the last of them is marked.
ScannedInv ==
  /\ Scanned = 0 \/ Scanned + Confirmations <= Height + 1
  /\ \A m \in marks : m.number \in 1..Scanned /\ m.fork <= reorgs
  /\ \A e \in events : e.number \in 1..Scanned
  /\ Scanned # 0 => \E m \in marks : m.number = Scanned

\* A scan goes on where the tables end, and not past the safe head.
PollInv ==
  /\ indexer.at \in {"compare", "search"} => marks # {}
  /\ indexer.at \in {"logs", "commit"} =>
       /\ indexer.from = NextBlock /\ indexer.from <= indexer.safe
       /\ indexer.safe + Confirmations <= Height + 1
  /\ indexer.at = "commit" =>
       /\ \A m \in indexer.seen : m.number \in indexer.from..ToBlock /\ m.fork <= reorgs
       /\ \A e \in indexer.found : e.number \in indexer.from..ToBlock

\* What the blocks of c from a to b emitted.
EventsOf(c, a, b) ==
  UNION {{[tx |-> tx, number |-> h] : tx \in {t \in c[h].txs : Succeeds(t)}} :
           h \in a..b}

LEMMA EmittedFacts ==
  ASSUME NEW c, NEW a \in Nat \ {0}, NEW b \in Nat,
         \A h \in a..b : c[h].txs \subseteq Tx
  PROVE  /\ EventsOf(c, a, b) \subseteq Event
         /\ \A e \in Event : e \in EventsOf(c, a, b) <=>
              e.number \in a..b /\ e.tx \in c[e.number].txs /\ Succeeds(e.tx)
<1>1. ASSUME NEW e \in EventsOf(c, a, b)
      PROVE  /\ e \in Event /\ e.number \in a..b
             /\ e.tx \in c[e.number].txs /\ Succeeds(e.tx)
  <2>1. PICK h \in a..b :
          e \in {[tx |-> tx, number |-> h] : tx \in {t \in c[h].txs : Succeeds(t)}}
    BY DEF EventsOf
  <2>2. PICK t \in c[h].txs : e = [tx |-> t, number |-> h] /\ Succeeds(t)
    BY <2>1
  <2> QED
    BY <2>1, <2>2 DEF Event
<1>2. ASSUME NEW e \in Event, e.number \in a..b,
             e.tx \in c[e.number].txs, Succeeds(e.tx)
      PROVE  e \in EventsOf(c, a, b)
  <2>1. e = [tx |-> e.tx, number |-> e.number]
    BY DEF Event
  <2> QED
    BY <2>1, <1>2 DEF EventsOf
<1> QED
  BY <1>1, <1>2

LEMMA EventFacts ==
  ASSUME ChainTypeOK, NEW a \in Nat \ {0}, NEW b \in Nat, b <= Height
  PROVE  /\ EventsIn(a, b) = EventsOf(chain, a, b)
         /\ EventsIn(a, b) \subseteq Event
         /\ \A e \in EventsIn(a, b) : e.number \in a..b
<1>1. \A h \in a..b : chain[h].txs \subseteq Tx
  BY MinedFacts DEF Block
<1>2. EventsIn(a, b) = EventsOf(chain, a, b)
  BY DEF EventsIn, EventsOf
<1> QED
  BY <1>1, <1>2, EmittedFacts

LEMMA ScanFacts ==
  ASSUME IndexerTypeOK, ChainTypeOK
  PROVE  /\ NextBlock \in Nat \ {0} /\ Scanned \in Nat /\ NextBlock = Scanned + 1
         /\ Confirmations \in Nat \ {0} /\ ScanRange \in Nat \ {0}
         /\ Height \in Nat /\ reorgs \in Nat
         /\ indexer.from \in Nat /\ indexer.safe \in Nat
         /\ indexer.from <= indexer.safe =>
              /\ ToBlock \in Nat /\ ToBlock \in indexer.from..indexer.safe
BY ChainAssumption, IndexerAssumption, MinedFacts
DEF IndexerTypeOK, ChainTypeOK, NextBlock, Scanned, ToBlock

\* The ancestor is the number of the latest mark that stands.
LEMMA LargestStanding ==
  ASSUME NEW S \in SUBSET Nat, NEW n \in Nat, \A x \in S : x <= n, S # {}
  PROVE  \E x \in S : \A y \in S : y <= x
<1> DEFINE Gap == {n - x : x \in S}
<1>1. Gap \subseteq Nat
  <2>1. \A x \in S : n - x \in Nat
    OBVIOUS
  <2> QED
    BY <2>1
<1>2. Gap # {}
  OBVIOUS
<1>3. PICK x \in Gap : \A y \in Gap : ~(<<y, x>> \in OpToRel(<, Nat))
  <2> HIDE DEF Gap
  <2> QED
    BY <1>1, <1>2, WFMin, NatLessThanWellFounded
<1>4. \A y \in Gap : ~(y < x)
  <2> HIDE DEF Gap
  <2> QED
    BY <1>3, <1>1 DEF OpToRel
<1>5. PICK z \in S : x = n - z
  OBVIOUS
<1>6. \A y \in S : ~(n - y < n - z)
  BY <1>4, <1>5
<1> HIDE DEF Gap
<1> QED
  BY <1>6

Standing == {mark \in marks : Canonical(mark)}
Ancestor == IF Standing = {} THEN 0
            ELSE CHOOSE n \in {mark.number : mark \in Standing} :
                   \A mark \in Standing : mark.number <= n

LEMMA AncestorFacts ==
  ASSUME ChainTypeOK, IndexerTypeOK, ScannedInv
  PROVE  /\ Ancestor \in Nat /\ Ancestor <= Scanned
         /\ Ancestor # 0 => \E m \in Standing : m.number = Ancestor
         /\ Standing = {} => Ancestor = 0
<1> DEFINE S == {mark.number : mark \in Standing}
<1>1. \A m \in Standing : m \in marks /\ m.number \in Nat /\ m.number <= Scanned
  BY ScanFacts DEF Standing, ScannedInv, IndexerTypeOK, Mark
<1>2. CASE Standing = {}
  BY <1>2, ScanFacts DEF Ancestor
<1>3. CASE Standing # {}
  <2>1. S \in SUBSET Nat /\ S # {} /\ \A x \in S : x <= Scanned
    BY <1>1, <1>3
  <2>2. \E n \in S : \A x \in S : x <= n
    <3> HIDE DEF S
    <3> QED
      BY <2>1, ScanFacts, LargestStanding
  <2>3. Ancestor \in S
    BY <2>2, <1>3 DEF Ancestor
  <2> QED
    BY <2>1, <2>3, <1>3
<1> QED
  BY <1>2, <1>3

LEMMA IndexerKeepsPlace ==
  ASSUME ChainTypeOK, ForksPast, IndexerTypeOK, ScannedInv, PollInv,
         IndexerNext, UNCHANGED chainVars
  PROVE  IndexerTypeOK' /\ ScannedInv' /\ PollInv'
<1>0. /\ Height' = Height /\ reorgs' = reorgs /\ chain' = chain
      /\ \A h \in 1..Height : chain[h] \in Block /\ h \in Nat
  BY MinedFacts DEF Height, chainVars
<1>1. \A h \in 1..Height : MarkOf(h) \in Mark /\ MarkOf(h).number = h
                           /\ MarkOf(h).fork <= reorgs
  BY <1>0 DEF MarkOf, Mark, Block, ForksPast
<1>2. ASSUME UNCHANGED projectionVars
      PROVE  ScannedInv' /\ NextBlock' = NextBlock
  BY <1>0, <1>2 DEF projectionVars, ScannedInv, Scanned, NextBlock
\* a poll that ends or begins
<1>3. ASSUME NEW a \in {"idle", "head"}, indexer' = [Idle EXCEPT !.at = a]
      PROVE  /\ indexer'.at = a
             /\ indexer' \in [at : {"idle", "compare", "search", "head", "logs", "commit"},
                              from : Nat, safe : Nat, found : SUBSET Event,
                              seen : SUBSET Mark]
             /\ PollInv'
  BY <1>3 DEF Idle, PollInv
<1>4. CASE PollOnce
  <2>1. UNCHANGED <<projectionVars, rebuilds, failedPolls, torn>>
    BY <1>4 DEF PollOnce
  <2>2. CASE checkpoint = NoBlock \/ marks = {}
    <3>1. indexer' = [Idle EXCEPT !.at = "head"]
      BY <1>4, <2>2 DEF PollOnce
    <3> QED
      BY <2>1, <3>1, <1>2, <1>3 DEF IndexerTypeOK, projectionVars
  <2>3. CASE ~(checkpoint = NoBlock \/ marks = {})
    <3>1. indexer' = [Idle EXCEPT !.at = "compare"]
      BY <1>4, <2>3 DEF PollOnce
    <3>2. PollInv'
      BY <2>1, <2>3, <3>1 DEF PollInv, Idle, projectionVars
    <3> QED
      BY <2>1, <3>1, <3>2, <1>2 DEF IndexerTypeOK, projectionVars, Idle
  <2> QED
    BY <2>2, <2>3
<1>5. CASE Rebuild
  <2>1. /\ indexer' = [Idle EXCEPT !.at = "head"]
        /\ checkpoint' = NoBlock /\ marks' = {} /\ events' = {}
        /\ rebuilds' \in 0..MaxRebuilds /\ failedPolls' = failedPolls /\ torn' = FALSE
    BY <1>5, IndexerAssumption DEF Rebuild, IndexerTypeOK
  <2>2. ScannedInv'
    BY <2>1 DEF ScannedInv, Scanned, NextBlock
  <2> QED
    BY <2>1, <2>2, <1>3 DEF IndexerTypeOK
<1>6. CASE PollFails
  <2>1. /\ indexer' = [Idle EXCEPT !.at = "idle"]
        /\ UNCHANGED projectionVars
        /\ failedPolls' \in 0..MaxFailedPolls /\ rebuilds' = rebuilds /\ torn' = torn
    BY <1>6, IndexerAssumption DEF PollFails, IndexerTypeOK, Idle
  <2> QED
    BY <2>1, <1>2, <1>3 DEF IndexerTypeOK, projectionVars
<1>7. CASE Compare
  <2>1. UNCHANGED <<projectionVars, rebuilds, failedPolls, torn>>
    BY <1>7 DEF Compare
  <2>2. \/ indexer' = [Idle EXCEPT !.at = "idle"]
        \/ \E a \in {"head", "search"} : indexer' = [indexer EXCEPT !.at = a]
    BY <1>7 DEF Compare, Idle
  <2>3. PollInv'
    <3>1. CASE indexer' = [Idle EXCEPT !.at = "idle"]
      BY <3>1, <1>3
    <3>2. CASE \E a \in {"head", "search"} : indexer' = [indexer EXCEPT !.at = a]
      BY <1>7, <2>1, <3>2 DEF PollInv, IndexerTypeOK, Compare, projectionVars
    <3> QED
      BY <2>2, <3>1, <3>2
  <2> QED
    BY <2>1, <2>2, <2>3, <1>2, <1>3 DEF IndexerTypeOK, projectionVars
<1>8. CASE Search
  <2>1. /\ events' = {e \in events : e.number <= Ancestor}
        /\ marks' = {mark \in marks : mark.number <= Ancestor}
        /\ checkpoint' = Ancestor
        /\ indexer' = [indexer EXCEPT !.at = "head"]
        /\ UNCHANGED <<rebuilds, failedPolls, torn>>
    BY <1>8 DEF Search, RollbackAfterBlock, Ancestor, Standing
  <2>2. /\ Ancestor \in Nat /\ Ancestor <= Scanned
        /\ Ancestor # 0 => \E m \in marks : m.number = Ancestor
    BY AncestorFacts DEF Standing
  <2>3. Scanned' = Ancestor
    BY <2>1, <2>2, IndexerAssumption DEF Scanned, NextBlock
  <2>4. ScannedInv'
    BY <2>1, <2>2, <2>3, <1>0, ScanFacts DEF ScannedInv, IndexerTypeOK, Mark, Event
  <2>5. PollInv'
    BY <2>1 DEF PollInv, IndexerTypeOK
  <2> QED
    BY <2>1, <2>2, <2>4, <2>5 DEF IndexerTypeOK
<1>9. CASE ReadHead
  <2>1. UNCHANGED <<projectionVars, rebuilds, failedPolls, torn>>
    BY <1>9 DEF ReadHead
  <2>2. CASE NextBlock + Confirmations > Height + 1
    <3>1. indexer' = [Idle EXCEPT !.at = "idle"]
      BY <1>9, <2>2 DEF ReadHead, Idle
    <3> QED
      BY <2>1, <3>1, <1>2, <1>3 DEF IndexerTypeOK, projectionVars
  <2>3. CASE ~(NextBlock + Confirmations > Height + 1)
    <3>1. indexer' = [indexer EXCEPT !.at = "logs", !.from = NextBlock,
                                     !.safe = Height + 1 - Confirmations]
      BY <1>9, <2>3 DEF ReadHead
    <3>2. /\ Height + 1 - Confirmations \in Nat
          /\ NextBlock <= Height + 1 - Confirmations
          /\ Height + 1 - Confirmations + Confirmations <= Height + 1
      BY <2>3, ScanFacts
    <3>3. /\ indexer'.at = "logs" /\ indexer'.from = NextBlock
          /\ indexer'.safe = Height + 1 - Confirmations
          /\ indexer' \in [at : {"idle", "compare", "search", "head", "logs", "commit"},
                           from : Nat, safe : Nat, found : SUBSET Event,
                           seen : SUBSET Mark]
      BY <3>1, <3>2, ScanFacts DEF IndexerTypeOK
    <3>4. PollInv'
      BY <3>2, <3>3, <2>1, <1>0, <1>2 DEF PollInv
    <3> QED
      BY <2>1, <3>3, <3>4, <1>2 DEF IndexerTypeOK, projectionVars
  <2> QED
    BY <2>2, <2>3
<1>10. CASE GetLogs
  <2> DEFINE found == EventsIn(indexer.from, ToBlock)
             seen == {MarkOf(e.number) : e \in found}
  <2>1. /\ indexer' = [indexer EXCEPT !.at = "commit", !.found = found, !.seen = seen]
        /\ UNCHANGED <<projectionVars, rebuilds, failedPolls, torn>>
        /\ indexer.at = "logs"
    BY <1>10 DEF GetLogs
  <2>2. /\ indexer.from = NextBlock /\ indexer.from <= indexer.safe
        /\ indexer.safe + Confirmations <= Height + 1
        /\ indexer.from \in Nat \ {0} /\ ToBlock \in Nat /\ ToBlock <= Height
    BY <2>1, ScanFacts DEF PollInv
  <2>3. found \subseteq Event /\ \A e \in found : e.number \in indexer.from..ToBlock
    BY <2>2, EventFacts
  <2>4. seen \subseteq Mark
        /\ \A m \in seen : m.number \in indexer.from..ToBlock /\ m.fork <= reorgs
    <3>1. \A e \in found : e.number \in 1..Height
      BY <2>2, <2>3, ScanFacts
    <3> HIDE DEF found
    <3> QED
      BY <3>1, <2>3, <1>1
  <2> HIDE DEF found, seen
  <2>5. /\ indexer'.at = "commit" /\ indexer'.from = indexer.from
        /\ indexer'.safe = indexer.safe /\ indexer'.found = found /\ indexer'.seen = seen
        /\ indexer' \in [at : {"idle", "compare", "search", "head", "logs", "commit"},
                         from : Nat, safe : Nat, found : SUBSET Event,
                         seen : SUBSET Mark]
    BY <2>1, <2>3, <2>4 DEF IndexerTypeOK
  <2>6. ToBlock' = ToBlock
    BY <2>5 DEF ToBlock
  <2>7. PollInv'
    BY <2>1, <2>2, <2>3, <2>4, <2>5, <2>6, <1>0, <1>2 DEF PollInv
  <2> QED
    BY <2>1, <2>5, <2>7, <1>2 DEF IndexerTypeOK, projectionVars
<1>11. CASE CommitScannedRange
  <2> DEFINE new == {mark \in indexer.seen : mark.number # ToBlock} \cup {MarkOf(ToBlock)}
  <2>1. /\ marks' = new \cup {mark \in marks : \A m \in new : m.number # mark.number}
        /\ events' \subseteq events \cup indexer.found
        /\ checkpoint' = ToBlock
        /\ indexer' = IF ToBlock = indexer.safe THEN Idle
                      ELSE [Idle EXCEPT !.at = "logs", !.from = ToBlock + 1,
                                        !.safe = indexer.safe]
        /\ UNCHANGED <<rebuilds, failedPolls, torn>>
        /\ indexer.at = "commit"
    BY <1>11 DEF CommitScannedRange
  <2>2. /\ indexer.from = NextBlock /\ indexer.from <= indexer.safe
        /\ indexer.safe + Confirmations <= Height + 1
        /\ ToBlock \in Nat /\ ToBlock \in indexer.from..indexer.safe
        /\ ToBlock \in 1..Height /\ indexer.from = Scanned + 1
        /\ ToBlock + Confirmations <= Height + 1
    BY <2>1, ScanFacts DEF PollInv
  <2>3. /\ new \subseteq Mark
        /\ \A m \in new : m.number \in indexer.from..ToBlock /\ m.fork <= reorgs
        /\ MarkOf(ToBlock) \in new /\ MarkOf(ToBlock).number = ToBlock
    <3>1. /\ MarkOf(ToBlock) \in Mark /\ MarkOf(ToBlock).number = ToBlock
          /\ MarkOf(ToBlock).fork <= reorgs
      BY <2>2, <1>1
    <3>2. ToBlock \in indexer.from..ToBlock
      BY <2>2, ScanFacts
    <3>3. \A m \in indexer.seen :
            m \in Mark /\ m.number \in indexer.from..ToBlock /\ m.fork <= reorgs
      BY <2>1 DEF PollInv, IndexerTypeOK
    <3> QED
      BY <3>1, <3>2, <3>3
  <2> HIDE DEF new
  <2>4. Scanned' = ToBlock /\ NextBlock' = ToBlock + 1
    BY <2>1, <2>2, IndexerAssumption DEF Scanned, NextBlock
  <2>5. \A m \in marks' : m \in Mark /\ m.number \in 1..ToBlock /\ m.fork <= reorgs
    BY <2>1, <2>2, <2>3, ScanFacts DEF ScannedInv, IndexerTypeOK, Mark
  <2>6. \A e \in events' : e \in Event /\ e.number \in 1..ToBlock
    <3>1. \A e \in indexer.found : e \in Event /\ e.number \in indexer.from..ToBlock
      BY <2>1 DEF PollInv, IndexerTypeOK
    <3>2. \A e \in events : e \in Event /\ e.number \in 1..Scanned
      BY DEF ScannedInv, IndexerTypeOK
    <3> QED
      BY <3>1, <3>2, <2>1, <2>2, ScanFacts DEF Event
  <2>7. ScannedInv'
    <3>1. ToBlock # 0 => \E m \in marks' : m.number = ToBlock
      BY <2>1, <2>3
    <3> QED
      BY <3>1, <2>2, <2>4, <2>5, <2>6, <1>0 DEF ScannedInv
  <2>8. CASE ToBlock = indexer.safe
    <3>1. indexer' = [Idle EXCEPT !.at = "idle"]
      BY <2>1, <2>8 DEF Idle
    <3> QED
      BY <3>1, <1>3, <2>1, <2>2, <2>5, <2>6, <2>7 DEF IndexerTypeOK
  <2>9. CASE ToBlock # indexer.safe
    <3>1. indexer' = [Idle EXCEPT !.at = "logs", !.from = ToBlock + 1,
                                  !.safe = indexer.safe]
      BY <2>1, <2>9
    <3>2. /\ indexer'.at = "logs" /\ indexer'.from = ToBlock + 1
          /\ indexer'.safe = indexer.safe
          /\ indexer' \in [at : {"idle", "compare", "search", "head", "logs", "commit"},
                           from : Nat, safe : Nat, found : SUBSET Event,
                           seen : SUBSET Mark]
      <4>1. Idle \in [at : {"idle", "compare", "search", "head", "logs", "commit"},
                      from : Nat, safe : Nat, found : SUBSET Event,
                      seen : SUBSET Mark]
        BY DEF Idle
      <4>2. ToBlock + 1 \in Nat /\ indexer.safe \in Nat
        BY <2>2, ScanFacts
      <4> HIDE DEF ToBlock
      <4> QED
        BY <4>1, <4>2, <3>1
    <3>3. ToBlock + 1 <= indexer.safe
      BY <2>2, <2>9, ScanFacts
    <3>4. PollInv'
      BY <3>2, <3>3, <2>2, <2>4, <1>0 DEF PollInv
    <3> QED
      BY <3>2, <3>4, <2>1, <2>2, <2>5, <2>6, <2>7 DEF IndexerTypeOK
  <2> QED
    BY <2>8, <2>9
<1> QED
  BY <1>4, <1>5, <1>6, <1>7, <1>8, <1>9, <1>10, <1>11 DEF IndexerNext, IndexerStep

\* Neither does the chain grow shorter under the tables, nor come in old forks.
LEMMA ExtendsKeepsPlace ==
  ASSUME ChainTypeOK, ForksPast, IndexerTypeOK, ScannedInv, PollInv,
         NEW b, NEW p, NEW T \in SUBSET Tx, Extends(b, p, T),
         UNCHANGED <<projectionVars, indexer>>
  PROVE  ForksPast' /\ ScannedInv' /\ PollInv'
<1>1. /\ Height \in Nat /\ Height' \in Nat /\ Height <= Height'
      /\ reorgs \in Nat /\ reorgs' \in Nat /\ reorgs <= reorgs'
      /\ b \in 0..Height
  BY MinedFacts DEF Extends, ChainTypeOK
<1>2. \A h \in 1..b : chain'[h].fork = chain[h].fork /\ chain[h].fork \in Nat
  BY <1>1, MinedFacts DEF Extends, Block
<1>3. \A h \in (b + 1)..Height' : chain'[h].fork = reorgs'
  <2>1. \A h \in (b + 1)..Height' :
          chain'[h] = [fork |-> reorgs', txs |-> IF h = p THEN T ELSE {}]
    BY DEF Extends
  <2> TAKE h \in (b + 1)..Height'
  <2> DEFINE X == IF h = p THEN T ELSE {}
  <2>2. chain'[h] = [fork |-> reorgs', txs |-> X]
    BY <2>1
  <2> HIDE DEF X
  <2> QED
    BY <2>2
<1>4. ForksPast'
  BY <1>1, <1>2, <1>3 DEF ForksPast
<1>5. Scanned' = Scanned /\ NextBlock' = NextBlock /\ ToBlock' = ToBlock
  BY DEF Scanned, NextBlock, ToBlock, projectionVars
<1>6. /\ \A m \in marks : m.fork <= reorgs => m.fork <= reorgs'
      /\ \A m \in indexer.seen : m.fork <= reorgs => m.fork <= reorgs'
  BY <1>1 DEF IndexerTypeOK, Mark
<1>7. ScannedInv'
  BY <1>1, <1>5, <1>6, ScanFacts DEF ScannedInv, projectionVars
<1>8. PollInv'
  BY <1>1, <1>5, <1>6, ScanFacts DEF PollInv, projectionVars
<1> QED
  BY <1>4, <1>7, <1>8

-----------------------------------------------------------------------------
(* The invariant of all three *)

BaseInv ==
  /\ AnchorTypeOK
  /\ RowInvs /\ SentInv /\ NoncesDense
  /\ ChainInv /\ ForksPast
  /\ ScannedInv /\ PollInv

LEMMA InitBase == AnchorInit => BaseInv
<1> SUFFICES ASSUME AnchorInit PROVE BaseInv
  OBVIOUS
<1>0. /\ MaxRetries \in Nat \ {0} /\ MaxFaults \in Nat /\ NoWriter \notin Writer
      /\ MaxReorgs \in Nat /\ MaxRebuilds \in Nat /\ MaxFailedPolls \in Nat
      /\ NoNonce \notin Nat
  BY SubmissionAssumption, ChainAssumption, IndexerAssumption
<1>1. /\ chain = <<>> /\ mempool = {} /\ Height = 0 /\ Mined = {}
  BY DEF AnchorInit, ChainInit, Height, Mined, MinedIn
<1>2. ChainTypeOK
  <2>1. <<>> \in Seq(Block)
    BY EmptySeq
  <2>2. reorgs = 0 /\ deep \in BOOLEAN
    BY DEF AnchorInit, ChainInit
  <2>3. 0 \in 0..MaxReorgs
    BY <1>0
  <2> QED
    BY <1>1, <2>1, <2>2, <2>3 DEF ChainTypeOK
<1>3. SubmissionTypeOK
  BY <1>0 DEF AnchorInit, SubmissionInit, SubmissionTypeOK, Status
<1>4. IndexerTypeOK
  <2>1. Idle \in [at : {"idle", "compare", "search", "head", "logs", "commit"},
                  from : Nat, safe : Nat, found : SUBSET Event,
                  seen : SUBSET Mark]
    BY DEF Idle
  <2>2. /\ checkpoint = NoBlock /\ marks = {} /\ events = {} /\ indexer = Idle
        /\ rebuilds = 0 /\ failedPolls = 0 /\ torn \in BOOLEAN
    BY DEF AnchorInit, IndexerInit
  <2>3. 0 \in 0..MaxRebuilds /\ 0 \in 0..MaxFailedPolls
    BY <1>0
  <2> QED
    BY <2>1, <2>2, <2>3 DEF IndexerTypeOK
<1>5. RowInvs
  BY <1>0 DEF AnchorInit, SubmissionInit, RowInvs, LockInv, AttemptsInv, WorkerInv,
       Free, At
<1>6. SentInv
  BY <1>1 DEF AnchorInit, SubmissionInit, SentInv, Free, At
<1>7. NoncesDense
  <2>1. {nonce[s] : s \in Submission} \ {NoNonce} = {}
    BY DEF AnchorInit, SubmissionInit
  <2>2. 0..(nextNonce - 1) = {}
    BY DEF AnchorInit, SubmissionInit
  <2>3. \A s \in Submission : nonce[s] = NoNonce
    BY DEF AnchorInit, SubmissionInit
  <2> QED
    BY <2>1, <2>2, <2>3 DEF NoncesDense
<1>8. ChainInv
  <2>1. \A k \in 0..Height : MinedUpto(k) = {}
    BY <1>1 DEF MinedUpto
  <2>2. 0..(Cardinality({}) - 1) = {}
    BY FS_EmptySet
  <2>3. \A k \in 0..Height : {t.nonce : t \in MinedUpto(k)} = 0..(Cardinality(MinedUpto(k)) - 1)
    BY <2>1, <2>2
  <2> QED
    BY <2>3, <1>1 DEF ChainInv
<1>9. ForksPast
  BY <1>1 DEF ForksPast
<1>10. ScannedInv /\ PollInv
  BY <1>0 DEF AnchorInit, IndexerInit, ScannedInv, PollInv, Scanned, NextBlock, Idle
<1>11. overtaken \in BOOLEAN
  BY DEF AnchorInit
<1> QED
  BY <1>2, <1>3, <1>4, <1>5, <1>6, <1>7, <1>8, <1>9, <1>10, <1>11
  DEF BaseInv, AnchorTypeOK

\* The rows do not see the chain.
LEMMA RowsLeftAlone ==
  ASSUME UNCHANGED submissionVars, RowInvs, SubmissionTypeOK, NoncesDense
  PROVE  RowInvs' /\ SubmissionTypeOK' /\ NoncesDense'
BY DEF submissionVars, rowVars, RowInvs, LockInv, AttemptsInv, WorkerInv, At,
     SubmissionTypeOK, NoncesDense

LEMMA ExtendsKeepsBase ==
  ASSUME BaseInv, NEW b, NEW p, NEW T \in SUBSET Tx, Extends(b, p, T),
         UNCHANGED <<submissionVars, projectionVars, indexer, rebuilds, failedPolls>>,
         reorgs' \in 0..MaxReorgs, deep' \in BOOLEAN, torn' \in BOOLEAN,
         overtaken' \in BOOLEAN
  PROVE  BaseInv'
<1>1. ChainInv' /\ Mined' \cup mempool' \subseteq Mined \cup mempool
  BY ExtendsKeepsChain DEF BaseInv, AnchorTypeOK
<1>2. ForksPast' /\ ScannedInv' /\ PollInv'
  BY ExtendsKeepsPlace DEF BaseInv, AnchorTypeOK
<1>3. ChainTypeOK'
  BY <1>1, MinedFacts DEF BaseInv, AnchorTypeOK, ChainTypeOK, Extends
<1>4. RowInvs' /\ SubmissionTypeOK' /\ NoncesDense'
  BY RowsLeftAlone DEF BaseInv, AnchorTypeOK
<1>5. SentInv'
  BY <1>1 DEF BaseInv, SentInv, submissionVars, rowVars, At
<1>6. IndexerTypeOK'
  BY DEF BaseInv, AnchorTypeOK, IndexerTypeOK, projectionVars
<1> QED
  BY <1>1, <1>2, <1>3, <1>4, <1>5, <1>6 DEF BaseInv, AnchorTypeOK

LEMMA NextBase ==
  ASSUME BaseInv, [AnchorNext]_anchorVars
  PROVE  BaseInv'
<1>1. CASE SubmissionNext /\ UNCHANGED <<indexerVars, overtaken>>
  <2>1. /\ SentInv' /\ NoncesDense' /\ ChainInv' /\ mempool' \subseteq Tx
        /\ UNCHANGED <<chain, reorgs, deep>>
    BY <1>1, SubmissionKeepsSent DEF BaseInv, AnchorTypeOK
  <2>2. SubmissionTypeOK' /\ RowInvs'
    <3>1. AllocateNextNonce = nextNonce
      BY CountNotAhead DEF BaseInv, AnchorTypeOK
    <3>2. ASSUME NEW w \in Writer, WriterStep(w)
          PROVE  SubmissionTypeOK' /\ RowInvs'
      BY <3>1, <3>2, StepOfWorker DEF BaseInv, AnchorTypeOK
    <3>3. CASE \/ \E w \in Writer :
                    \/ CallFails(w) \/ Stop(w) \/ AnswerLost(w)
                    \/ \E s \in Submission : ClaimPendingSubmissions(w, s)
               \/ \E s \in Submission : Enqueue(s) \/ Erase(s) \/ ClaimLapses(s)
               \/ \E tx \in mempool : Forget(tx)
      BY <3>3, StepOfOthers DEF BaseInv, AnchorTypeOK
    <3> QED
      BY <1>1, <3>2, <3>3 DEF SubmissionNext
  <2>3. ChainTypeOK' /\ ForksPast'
    BY <2>1 DEF BaseInv, AnchorTypeOK, ChainTypeOK, ForksPast, Height
  <2>4. IndexerTypeOK' /\ ScannedInv' /\ PollInv'
    BY <1>1, <2>1 DEF BaseInv, AnchorTypeOK, IndexerTypeOK, ScannedInv, PollInv,
         indexerVars, projectionVars, Scanned, NextBlock, ToBlock, Height
  <2> QED
    BY <1>1, <2>1, <2>2, <2>3, <2>4 DEF BaseInv, AnchorTypeOK
<1>2. CASE IndexerNext /\ UNCHANGED <<chainVars, submissionVars, overtaken>>
  <2>1. IndexerTypeOK' /\ ScannedInv' /\ PollInv'
    BY <1>2, IndexerKeepsPlace DEF BaseInv, AnchorTypeOK
  <2>2. RowInvs' /\ SubmissionTypeOK' /\ NoncesDense'
    BY <1>2, RowsLeftAlone DEF BaseInv, AnchorTypeOK
  <2>3. ChainTypeOK' /\ ForksPast'
    BY <1>2 DEF BaseInv, AnchorTypeOK, ChainTypeOK, ForksPast, Height, chainVars
  <2>4. /\ Mined' = Mined /\ mempool' = mempool /\ Height' = Height
        /\ \A k : MinedUpto(k)' = MinedUpto(k)
    BY <1>2 DEF chainVars, Mined, MinedIn, MinedUpto, Height
  <2>5. ChainInv'
    BY <1>2, <2>4 DEF BaseInv, ChainInv, chainVars
  <2>6. SentInv'
    BY <1>2, <2>4 DEF BaseInv, SentInv, submissionVars, rowVars, At
  <2> QED
    BY <1>2, <2>1, <2>2, <2>3, <2>5, <2>6 DEF BaseInv, AnchorTypeOK
<1>3. CASE Mine /\ UNCHANGED <<submissionVars, indexerVars, overtaken>>
  <2>1. PICK T \in SUBSET Tx : Extends(Height, Height + 1, T)
    BY <1>3, MineExtends DEF BaseInv, AnchorTypeOK
  <2>2. /\ reorgs' \in 0..MaxReorgs /\ deep' \in BOOLEAN
        /\ torn' \in BOOLEAN /\ overtaken' \in BOOLEAN
    BY <1>3 DEF Mine, BaseInv, AnchorTypeOK, ChainTypeOK, IndexerTypeOK, indexerVars
  <2> QED
    BY <1>3, <2>1, <2>2, ExtendsKeepsBase DEF indexerVars
<1>4. CASE \E n \in 1..Height : Reorganisation(n)
  <2>1. PICK n \in 1..Height : Reorganisation(n)
    BY <1>4
  <2>2. PICK T \in SUBSET Tx, p \in Nat : Extends(Height - n, p, T)
    BY <2>1, ReorganiseExtends DEF BaseInv, AnchorTypeOK, Reorganisation
  <2>3. reorgs' \in 0..MaxReorgs
    BY <2>1, ChainAssumption
    DEF Reorganisation, Reorganise, BaseInv, AnchorTypeOK, ChainTypeOK
  <2>4. deep' \in BOOLEAN /\ torn' \in BOOLEAN /\ overtaken' \in BOOLEAN
    BY <2>1 DEF Reorganisation, Reorganise, BaseInv, AnchorTypeOK, ChainTypeOK,
         IndexerTypeOK
  <2> QED
    BY <2>1, <2>2, <2>3, <2>4, ExtendsKeepsBase DEF Reorganisation
<1>5. CASE UNCHANGED anchorVars
  <2>1. UNCHANGED <<chainVars, submissionVars, indexerVars, overtaken>>
    BY <1>5 DEF anchorVars
  <2>2. /\ Mined' = Mined /\ mempool' = mempool /\ Height' = Height
        /\ \A k : MinedUpto(k)' = MinedUpto(k)
    BY <2>1 DEF chainVars, Mined, MinedIn, MinedUpto, Height
  <2>3. RowInvs' /\ SubmissionTypeOK' /\ NoncesDense'
    BY <2>1, RowsLeftAlone DEF BaseInv, AnchorTypeOK
  <2>4. ChainTypeOK' /\ ForksPast' /\ ChainInv'
    BY <2>1, <2>2 DEF BaseInv, AnchorTypeOK, ChainTypeOK, ForksPast, chainVars, ChainInv
  <2>5. SentInv'
    BY <2>1, <2>2 DEF BaseInv, SentInv, submissionVars, rowVars, At
  <2>6. IndexerTypeOK' /\ ScannedInv' /\ PollInv'
    BY <2>1, <2>2 DEF BaseInv, AnchorTypeOK, IndexerTypeOK, ScannedInv, PollInv,
         indexerVars, projectionVars, chainVars, Scanned, NextBlock, ToBlock
  <2> QED
    BY <2>1, <2>3, <2>4, <2>5, <2>6 DEF BaseInv, AnchorTypeOK
<1> QED
  BY <1>1, <1>2, <1>3, <1>4, <1>5 DEF AnchorNext, AnchorStep

LEMMA BaseHolds == AnchorSpec => []BaseInv
<1>1. BaseInv /\ [AnchorNext]_anchorVars => BaseInv'
  BY NextBase
<1> QED
  BY InitBase, <1>1, PTL DEF AnchorSpec

\* The type invariant of the chain, the rows, the workers and the projection;
\* it bounds the failures of a row by those allowed and the faults.
THEOREM TypeCorrect == AnchorSpec => []AnchorTypeOK
<1>1. BaseInv => AnchorTypeOK
  BY DEF BaseInv
<1> QED
  BY <1>1, BaseHolds, PTL

\* No change is anchored twice (AnchoredOnce), whatever fails, stops or lapses
\* between the reservation, the broadcast and its record.
THEOREM AnchoredOnceHolds == AnchorSpec => []AnchoredOnce
<1>1. BaseInv => AnchoredOnce
  <2> SUFFICES ASSUME BaseInv, NEW t \in Mined \cup mempool,
                      NEW u \in Mined \cup mempool, t.sub = u.sub
               PROVE  t = u
    BY DEF AnchoredOnce
  <2>1. t \in Tx /\ u \in Tx
    BY MinedFacts DEF BaseInv, AnchorTypeOK, ChainTypeOK
  <2>2. t.nonce = u.nonce
    BY DEF BaseInv, SentInv
  <2> QED
    BY <2>1, <2>2 DEF Tx
<1> QED
  BY <1>1, BaseHolds, PTL

\* The nonces are given out without a gap and to one submission each
\* (NoncesDense): the count of the node is never ahead of the table.
THEOREM NoncesDenseHolds == AnchorSpec => []NoncesDense
<1>1. BaseInv => NoncesDense
  BY DEF BaseInv
<1> QED
  BY <1>1, BaseHolds, PTL

-----------------------------------------------------------------------------
(* A final status *)

Final == {"confirmed", "abandoned"}

\* The transaction of a submission is in this block.
Holds(s, h) == h \in 1..Height /\ TxOf(s) \in chain[h].txs
\* It is in a block that has its confirmations.
Buried(s) == \E h \in 1..Height : Holds(s, h) /\ h + Confirmations <= Height + 1
Settled(s, succeeded) == Buried(s) /\ (succeeded <=> s \notin Reverting)

\* A final status, and the verdict before it is written, are about a block that
\* only a reorganisation as deep as the confirmations takes away; a receipt is
\* of a block that stands.
FinalInv ==
  ~deep /\ ~overtaken =>
    /\ \A s \in Submission :
         status[s] \in Final => Settled(s, status[s] = "confirmed")
    /\ \A w \in Writer :
         /\ writer[w].at \in {"confirm", "abandon"} =>
              Settled(writer[w].sub, At(w, "confirm"))
         /\ At(w, "head") => Holds(writer[w].sub, writer[w].mined)

\* A nonce that was given out stays with its row.
LEMMA NonceKept ==
  ASSUME SubmissionTypeOK, SubmissionNext
  PROVE  \A s \in Submission : nonce[s] # NoNonce => nonce'[s] = nonce[s]
<1>1. CASE \E w \in Writer : Reserve(w)
  <2>1. PICK w \in Writer : Reserve(w)
    BY <1>1
  <2> DEFINE r == writer[w].sub
  <2>2. \/ nonce' = nonce
        \/ nonce[r] = NoNonce /\ nonce' = [nonce EXCEPT ![r] = AllocateNextNonce]
    BY <2>1 DEF Reserve
  <2>3. nonce \in [Submission -> Nat \cup {NoNonce}]
    BY DEF SubmissionTypeOK
  <2> HIDE DEF r
  <2> QED
    BY <2>2, <2>3
<1>2. CASE ~\E w \in Writer : Reserve(w)
  <2>1. nonce' = nonce
    BY <1>2 DEF SubmissionNext, WriterStep, Lock, Receipt, Depth, MarkFinal,
         ReleaseClaim, Broadcast, MarkSubmitted, RecordFailure, Unlock, CallFails,
         Stop, AnswerLost, ClaimPendingSubmissions, Enqueue, Erase, ClaimLapses,
         Forget, rowVars
  <2> QED
    BY <2>1
<1> QED
  BY <1>1, <1>2

\* A status becomes final only by the verdict of a worker.
LEMMA FinalWritten ==
  ASSUME SubmissionTypeOK, SubmissionNext, NEW s \in Submission, status'[s] \in Final
  PROVE  \/ status'[s] = status[s]
         \/ \E w \in Writer : /\ MarkFinal(w) /\ writer[w].sub = s
                              /\ writer[w].at \in {"confirm", "abandon"}
                              /\ status'[s] = "confirmed" <=> At(w, "confirm")
<1>0. status \in [Submission -> Status]
  BY DEF SubmissionTypeOK
<1>1. ASSUME NEW w \in Writer, NEW x, NEW r, x \notin Final,
             status' = [status EXCEPT ![r] = x]
      PROVE  status'[s] = status[s]
  BY <1>0, <1>1
<1>2. ASSUME NEW w \in Writer, MarkFinal(w)
      PROVE  \/ status'[s] = status[s]
             \/ /\ writer[w].sub = s /\ writer[w].at \in {"confirm", "abandon"}
                /\ status'[s] = "confirmed" <=> At(w, "confirm")
  <2> DEFINE x == IF At(w, "confirm") THEN "confirmed" ELSE "abandoned"
  <2>1. /\ status' = [status EXCEPT ![writer[w].sub] = x]
        /\ writer[w].at \in {"confirm", "abandon"}
    BY <1>2 DEF MarkFinal
  <2>2. x = "confirmed" <=> At(w, "confirm")
    OBVIOUS
  <2> HIDE DEF x
  <2> QED
    BY <2>1, <2>2, <1>0
<1>3. ASSUME NEW w \in Writer, Reserve(w) \/ MarkSubmitted(w) \/ RecordFailure(w)
      PROVE  status'[s] = status[s]
  <2>1. CASE Reserve(w)
    BY <2>1, <1>1 DEF Reserve, Final
  <2>2. CASE MarkSubmitted(w)
    BY <2>2, <1>1 DEF MarkSubmitted, Final
  <2>3. CASE RecordFailure(w)
    <3> DEFINE x == IF attempts[writer[w].sub] + 1 >= MaxRetries
                    THEN "dead_letter" ELSE "pending"
    <3>1. status' = status \/ status' = [status EXCEPT ![writer[w].sub] = x]
      BY <2>3 DEF RecordFailure
    <3>2. x \notin Final
      BY DEF Final
    <3> HIDE DEF x
    <3> QED
      BY <3>1, <3>2, <1>1
  <2> QED
    BY <1>3, <2>1, <2>2, <2>3
<1>4. ASSUME NEW r \in Submission, Enqueue(r)
      PROVE  status'[s] = status[s]
  BY <1>4, <1>0 DEF Enqueue, Final
<1>5. ASSUME NEW w \in Writer,
             \/ Lock(w) \/ Receipt(w) \/ Depth(w) \/ ReleaseClaim(w) \/ Broadcast(w)
             \/ Unlock(w) \/ CallFails(w) \/ Stop(w) \/ AnswerLost(w)
             \/ \E r \in Submission : ClaimPendingSubmissions(w, r)
      PROVE  status' = status
  BY <1>5 DEF Lock, Receipt, Depth, ReleaseClaim, Broadcast, Unlock, CallFails, Stop,
       AnswerLost, ClaimPendingSubmissions, rowVars
<1>6. ASSUME NEW r \in Submission, Erase(r) \/ ClaimLapses(r)
      PROVE  status' = status
  BY <1>6 DEF Erase, ClaimLapses
<1>7. ASSUME NEW tx \in mempool, Forget(tx)
      PROVE  status' = status
  BY <1>7 DEF Forget, rowVars
<1> QED
  BY <1>2, <1>3, <1>4, <1>5, <1>6, <1>7 DEF SubmissionNext, WriterStep

\* A worker comes to a verdict, or to a receipt, by its own step.
LEMMA VerdictReached ==
  ASSUME ChainTypeOK, SubmissionTypeOK, SubmissionNext, NEW v \in Writer,
         writer'[v].at \in {"confirm", "abandon", "head"}
  PROVE  \/ writer'[v] = writer[v]
         \/ /\ writer'[v].at \in {"confirm", "abandon"} /\ Depth(v)
            /\ writer'[v].sub = writer[v].sub
            /\ ~(Height + 1 < Confirmations + writer[v].mined)
            /\ writer'[v].at = "confirm" <=> writer[v].sub \notin Reverting
         \/ /\ writer'[v].at = "head" /\ ~At(v, "idle")
            /\ writer'[v].sub = writer[v].sub
            /\ Holds(writer[v].sub, writer'[v].mined)
<1> DEFINE Goal == \/ writer'[v] = writer[v]
                   \/ /\ writer'[v].at \in {"confirm", "abandon"} /\ Depth(v)
                      /\ writer'[v].sub = writer[v].sub
                      /\ ~(Height + 1 < Confirmations + writer[v].mined)
                      /\ writer'[v].at = "confirm" <=> writer[v].sub \notin Reverting
                   \/ /\ writer'[v].at = "head" /\ ~At(v, "idle")
                      /\ writer'[v].sub = writer[v].sub
                      /\ Holds(writer[v].sub, writer'[v].mined)
<1>1. ASSUME NEW w \in Writer, ~At(w, "idle"),
             NEW q \in (Position \cup {"idle"}) \ {"confirm", "abandon", "head"},
             Goto(w, q)
      PROVE  Goal
  <2>1. /\ \A u \in Writer : u # w => writer'[u] = writer[u]
        /\ writer'[w].at = q
    BY <1>1, GotoShape
  <2> QED
    BY <2>1
<1>2. ASSUME NEW w \in Writer, Depth(w)
      PROVE  Goal
  <2> DEFINE q == IF Height + 1 < Confirmations + writer[w].mined THEN "release"
                  ELSE IF writer[w].sub \notin Reverting THEN "confirm" ELSE "abandon"
  <2>1. ~At(w, "idle") /\ Goto(w, q)
    BY <1>2 DEF Depth, At
  <2>2. q \in Position
    BY DEF Position
  <2>3. /\ q \in {"confirm", "abandon"} => ~(Height + 1 < Confirmations + writer[w].mined)
        /\ q \in {"confirm", "abandon"} => (q = "confirm" <=> writer[w].sub \notin Reverting)
        /\ q # "head" /\ q # "idle"
    OBVIOUS
  <2> HIDE DEF q
  <2>4. /\ \A u \in Writer : u # w => writer'[u] = writer[u]
        /\ writer'[w].at = q /\ writer'[w].sub = writer[w].sub
    BY <2>1, <2>2, <2>3, GotoShape
  <2>5. CASE v = w
    BY <2>3, <2>4, <2>5, <1>2
  <2>6. CASE v # w
    BY <2>4, <2>6
  <2> QED
    BY <2>5, <2>6
<1>3. ASSUME NEW w \in Writer, Receipt(w)
      PROVE  Goal
  <2>1. ~At(w, "idle")
    BY <1>3 DEF Receipt, At
  <2>2. CASE \E h \in 1..Height :
               /\ TxOf(writer[w].sub) \in chain[h].txs
               /\ writer' = [writer EXCEPT ![w].at = "head", ![w].mined = h]
    <3>1. PICK h \in 1..Height :
            /\ TxOf(writer[w].sub) \in chain[h].txs
            /\ writer' = [writer EXCEPT ![w].at = "head", ![w].mined = h]
      BY <2>2
    <3>2. writer[w] \in [at : Position, sub : Submission, mined : Nat]
      BY <2>1, WorkerFacts
    <3>3. /\ writer'[w].at = "head" /\ writer'[w].mined = h
          /\ writer'[w].sub = writer[w].sub
          /\ \A u \in Writer : u # w => writer'[u] = writer[u]
      BY <3>1, <3>2 DEF SubmissionTypeOK
    <3> QED
      BY <3>1, <3>3, <2>1 DEF Holds
  <2>3. CASE Goto(w, IF status[writer[w].sub] = "dead_letter" THEN "release"
                     ELSE "reserve")
    <3>1. PICK q \in {"release", "reserve"} : Goto(w, q)
      BY <2>3
    <3> QED
      BY <3>1, <2>1, <1>1 DEF Position
  <2> QED
    BY <1>3, <2>2, <2>3 DEF Receipt
<1>4. ASSUME NEW w \in Writer, NEW s \in Submission, ClaimPendingSubmissions(w, s)
      PROVE  Goal
  BY <1>4 DEF ClaimPendingSubmissions, SubmissionTypeOK
<1>5. ASSUME NEW w \in Writer, Lock(w)
      PROVE  Goal
  <2>1. ~At(w, "idle") /\ \E q \in {"idle", "unlock", "receipt", "release", "reserve"} : Goto(w, q)
    BY <1>5 DEF Lock, At
  <2> QED
    BY <2>1, <1>1 DEF Position
<1>6. ASSUME NEW w \in Writer,
             \/ MarkFinal(w) \/ ReleaseClaim(w) \/ Reserve(w) \/ Broadcast(w)
             \/ MarkSubmitted(w) \/ RecordFailure(w) \/ Unlock(w)
             \/ CallFails(w) \/ Stop(w) \/ AnswerLost(w)
      PROVE  Goal
  <2>1. /\ ~At(w, "idle")
        /\ \E q \in {"release", "broadcast", "fail", "mark", "unlock", "idle"} : Goto(w, q)
    BY <1>6 DEF MarkFinal, ReleaseClaim, Reserve, Broadcast, MarkSubmitted,
         RecordFailure, Unlock, CallFails, Stop, AnswerLost, At
  <2> QED
    BY <2>1, <1>1 DEF Position
<1>7. ASSUME writer' = writer
      PROVE  Goal
  BY <1>7
<1>8. ASSUME \/ \E s \in Submission : Enqueue(s) \/ Erase(s) \/ ClaimLapses(s)
             \/ \E tx \in mempool : Forget(tx)
      PROVE  writer' = writer
  BY <1>8 DEF Enqueue, Erase, ClaimLapses, Forget
<1> HIDE DEF Goal
<1>9. Goal
  BY <1>2, <1>3, <1>4, <1>5, <1>6, <1>7, <1>8 DEF SubmissionNext, WriterStep
<1> QED
  BY <1>9 DEF Goal

LEMMA SubmissionKeepsFinal ==
  ASSUME ChainTypeOK, SubmissionTypeOK, FinalInv, SubmissionNext,
         UNCHANGED <<chain, deep, overtaken>>
  PROVE  FinalInv'
<1> SUFFICES ASSUME ~deep, ~overtaken
             PROVE  /\ \A s \in Submission :
                         status'[s] \in Final => Settled(s, status[s] = "confirmed")'
                    /\ \A w \in Writer :
                         /\ writer'[w].at \in {"confirm", "abandon"} =>
                              Settled(writer[w].sub, At(w, "confirm"))'
                         /\ At(w, "head")' => Holds(writer[w].sub, writer[w].mined)'
  BY DEF FinalInv
<1>0. Height \in Nat /\ Height' = Height /\ Confirmations \in Nat \ {0}
      /\ \A h \in 1..Height : chain[h] \in Block
  BY MinedFacts, ChainAssumption DEF Height
<1>1. ASSUME NEW s \in Submission, NEW h, Holds(s, h)
      PROVE  h \in 1..Height /\ [sub |-> s, nonce |-> nonce'[s]] \in chain'[h].txs
  <2>1. TxOf(s) \in Tx
    BY <1>0, <1>1 DEF Holds, Block
  <2>2. nonce[s] \in Nat
    <3>1. PICK t \in Tx : t = [sub |-> s, nonce |-> nonce[s]]
      BY <2>1 DEF TxOf
    <3> QED
      BY <3>1 DEF Tx
  <2>3. nonce'[s] = nonce[s]
    BY <2>2, NonceKept, SubmissionAssumption
  <2> QED
    BY <1>1, <2>3 DEF Holds, TxOf
<1>2. ASSUME NEW s \in Submission, Buried(s)
      PROVE  \E h \in 1..Height' : /\ h \in 1..Height'
                                   /\ [sub |-> s, nonce |-> nonce'[s]] \in chain'[h].txs
                                   /\ h + Confirmations <= Height' + 1
  BY <1>0, <1>1, <1>2 DEF Buried
<1>3. ASSUME NEW s \in Submission, status'[s] \in Final
      PROVE  Settled(s, status[s] = "confirmed")'
  <2>1. Buried(s) /\ (status'[s] = "confirmed" <=> s \notin Reverting)
    <3>1. CASE status'[s] = status[s]
      BY <3>1, <1>3 DEF FinalInv, Settled
    <3>2. CASE \E w \in Writer : /\ writer[w].sub = s
                                 /\ writer[w].at \in {"confirm", "abandon"}
                                 /\ status'[s] = "confirmed" <=> At(w, "confirm")
      BY <3>2 DEF FinalInv, Settled
    <3> QED
      BY <3>1, <3>2, <1>3, FinalWritten
  <2> QED
    BY <2>1, <1>2 DEF Settled, Buried, Holds, TxOf
<1>4. ASSUME NEW w \in Writer, writer'[w].at \in {"confirm", "abandon"}
      PROVE  Settled(writer[w].sub, At(w, "confirm"))'
  <2>1. /\ writer'[w].sub \in Submission /\ Buried(writer'[w].sub)
        /\ writer'[w].at = "confirm" <=> writer'[w].sub \notin Reverting
    <3>1. CASE writer'[w] = writer[w]
      <4>1. writer[w].at \in {"confirm", "abandon"} /\ ~At(w, "idle")
        BY <3>1, <1>4 DEF At
      <4> QED
        BY <3>1, <4>1, WorkerFacts DEF FinalInv, Settled, At
    <3>2. CASE /\ Depth(w) /\ writer'[w].sub = writer[w].sub
               /\ ~(Height + 1 < Confirmations + writer[w].mined)
               /\ writer'[w].at = "confirm" <=> writer[w].sub \notin Reverting
      <4>1. At(w, "head") /\ ~At(w, "idle")
        BY <3>2 DEF Depth, At
      <4>2. writer[w].sub \in Submission /\ Holds(writer[w].sub, writer[w].mined)
        BY <4>1, WorkerFacts DEF FinalInv
      <4>3. Buried(writer[w].sub)
        BY <4>2, <3>2, <1>0 DEF Buried, Holds
      <4> QED
        BY <3>2, <4>2, <4>3
    <3> QED
      BY <3>1, <3>2, <1>4, VerdictReached
  <2> QED
    BY <2>1, <1>2 DEF Settled, Buried, Holds, TxOf, At
<1>5. ASSUME NEW w \in Writer, At(w, "head")'
      PROVE  Holds(writer[w].sub, writer[w].mined)'
  <2>1. writer'[w].sub \in Submission /\ Holds(writer'[w].sub, writer'[w].mined)
    <3>1. writer'[w].at = "head"
      BY <1>5 DEF At
    <3>2. CASE writer'[w] = writer[w]
      <4>1. At(w, "head") /\ ~At(w, "idle")
        BY <3>1, <3>2 DEF At
      <4> QED
        BY <3>2, <4>1, WorkerFacts DEF FinalInv
    <3>3. CASE /\ ~At(w, "idle") /\ writer'[w].sub = writer[w].sub
               /\ Holds(writer[w].sub, writer'[w].mined)
      BY <3>3, WorkerFacts
    <3> QED
      BY <3>1, <3>2, <3>3, VerdictReached
  <2> QED
    BY <2>1, <1>0, <1>1 DEF Holds, TxOf
<1> QED
  BY <1>3, <1>4, <1>5

\* The chain keeps every block that has its confirmations, unless it is deep, and
\* every block of a receipt, unless it overtakes it.
LEMMA ExtendsKeepsFinal ==
  ASSUME ChainTypeOK, SubmissionTypeOK, FinalInv,
         NEW b, NEW p, NEW T \in SUBSET Tx, Extends(b, p, T),
         UNCHANGED submissionVars,
         ~deep' /\ ~overtaken' =>
           /\ ~deep /\ ~overtaken
           /\ b + Confirmations > Height
           /\ \A w \in Writer : At(w, "head") => writer[w].mined <= b
  PROVE  FinalInv'
<1> SUFFICES ASSUME ~deep', ~overtaken'
             PROVE  /\ \A s \in Submission :
                         status[s] \in Final => Settled(s, status[s] = "confirmed")'
                    /\ \A w \in Writer :
                         /\ writer[w].at \in {"confirm", "abandon"} =>
                              Settled(writer[w].sub, At(w, "confirm"))'
                         /\ At(w, "head") => Holds(writer[w].sub, writer[w].mined)'
  BY DEF FinalInv, submissionVars, rowVars, At
<1>0. /\ ~deep /\ ~overtaken /\ b + Confirmations > Height
      /\ \A w \in Writer : At(w, "head") => writer[w].mined <= b
      /\ Height \in Nat /\ Height' \in Nat /\ Height <= Height' /\ b \in 0..Height
      /\ Confirmations \in Nat \ {0}
      /\ \A h \in 1..b : chain'[h] = chain[h]
  BY MinedFacts, ChainAssumption DEF Extends
<1>1. UNCHANGED <<status, nonce, writer>>
  BY DEF submissionVars, rowVars
<1>2. ASSUME NEW s, NEW h, Holds(s, h), h <= b
      PROVE  Holds(s, h)'
  <2>1. h \in 1..b /\ h \in 1..Height'
    BY <1>0, <1>2 DEF Holds
  <2> QED
    BY <2>1, <1>0, <1>1, <1>2 DEF Holds, TxOf
<1>3. ASSUME NEW s, Buried(s)
      PROVE  Buried(s)'
  <2>1. PICK h \in 1..Height : Holds(s, h) /\ h + Confirmations <= Height + 1
    BY <1>3 DEF Buried
  <2>2. h <= b /\ h \in 1..Height' /\ h + Confirmations <= Height' + 1
    BY <1>0, <2>1
  <2>3. h \in 1..Height' /\ [sub |-> s, nonce |-> nonce'[s]] \in chain'[h].txs
    BY <1>2, <2>1, <2>2 DEF Holds, TxOf
  <2> QED
    BY <2>2, <2>3 DEF Buried, Holds, TxOf
<1>4. ASSUME NEW s, NEW ok, Settled(s, ok)
      PROVE  Buried(s)' /\ (ok <=> s \notin Reverting)
  BY <1>3, <1>4 DEF Settled
<1>5. ASSUME NEW s \in Submission, status[s] \in Final
      PROVE  Settled(s, status[s] = "confirmed")'
  <2>1. Settled(s, status[s] = "confirmed")
    BY <1>0, <1>5 DEF FinalInv
  <2> QED
    BY <2>1, <1>1, <1>3 DEF Settled
<1>6. ASSUME NEW w \in Writer, writer[w].at \in {"confirm", "abandon"}
      PROVE  Settled(writer[w].sub, At(w, "confirm"))'
  <2>1. Settled(writer[w].sub, At(w, "confirm"))
    BY <1>0, <1>6 DEF FinalInv
  <2>2. writer'[w].sub = writer[w].sub /\ (At(w, "confirm")' <=> At(w, "confirm"))
    BY <1>1 DEF At
  <2>3. \E h \in 1..Height' :
          /\ h \in 1..Height'
          /\ [sub |-> writer[w].sub, nonce |-> nonce'[writer[w].sub]] \in chain'[h].txs
          /\ h + Confirmations <= Height' + 1
    BY <2>1, <1>3 DEF Settled, Buried, Holds, TxOf
  <2> QED
    BY <2>1, <2>2, <2>3 DEF Settled, Buried, Holds, TxOf
<1>7. ASSUME NEW w \in Writer, At(w, "head")
      PROVE  Holds(writer[w].sub, writer[w].mined)'
  <2>1. Holds(writer[w].sub, writer[w].mined) /\ writer[w].mined <= b
    BY <1>0, <1>7 DEF FinalInv
  <2>2. writer[w].mined \in 1..b /\ writer[w].mined \in 1..Height'
    BY <2>1, <1>0 DEF Holds
  <2> QED
    BY <2>1, <2>2, <1>0, <1>1 DEF Holds, TxOf
<1> QED
  BY <1>5, <1>6, <1>7

LEMMA NextFinal ==
  ASSUME BaseInv, FinalInv, [AnchorNext]_anchorVars
  PROVE  FinalInv'
<1>0. /\ ChainTypeOK /\ SubmissionTypeOK
      /\ deep \in BOOLEAN /\ overtaken \in BOOLEAN
      /\ Height \in Nat /\ Confirmations \in Nat \ {0}
  BY MinedFacts, ChainAssumption DEF BaseInv, AnchorTypeOK, ChainTypeOK
<1>1. CASE SubmissionNext /\ UNCHANGED <<indexerVars, overtaken>>
  <2>1. UNCHANGED <<chain, deep>>
    BY <1>1, SubmissionKeepsSent DEF BaseInv, AnchorTypeOK
  <2> QED
    BY <1>0, <1>1, <2>1, SubmissionKeepsFinal
<1>2. ASSUME UNCHANGED <<chainVars, submissionVars, overtaken>>
      PROVE  FinalInv'
  BY <1>2 DEF FinalInv, Settled, Buried, Holds, TxOf, At, Height, chainVars,
       submissionVars, rowVars
<1>3. CASE Mine /\ UNCHANGED <<submissionVars, indexerVars, overtaken>>
  <2>1. PICK T \in SUBSET Tx : Extends(Height, Height + 1, T)
    BY <1>0, <1>3, MineExtends
  <2>2. deep' = deep /\ overtaken' = overtaken
    BY <1>3 DEF Mine
  <2>3. ~deep /\ ~overtaken =>
          \A w \in Writer : At(w, "head") => writer[w].mined <= Height
    BY <1>0 DEF FinalInv, Holds
  <2> QED
    BY <1>0, <1>3, <2>1, <2>2, <2>3, ExtendsKeepsFinal
<1>4. CASE \E n \in 1..Height : Reorganisation(n)
  <2>1. PICK n \in 1..Height : Reorganisation(n)
    BY <1>4
  <2>2. PICK T \in SUBSET Tx, p \in Nat : Extends(Height - n, p, T)
    BY <1>0, <2>1, ReorganiseExtends DEF Reorganisation
  <2>3. /\ deep' = (deep \/ n >= Confirmations)
        /\ overtaken' = (overtaken \/ Overtakes(n))
        /\ UNCHANGED submissionVars
    BY <2>1 DEF Reorganisation, Reorganise
  <2>4. ASSUME ~deep', ~overtaken'
        PROVE  /\ ~deep /\ ~overtaken
               /\ Height - n + Confirmations > Height
               /\ \A w \in Writer : At(w, "head") => writer[w].mined <= Height - n
    <3>1. ~deep /\ ~(n >= Confirmations) /\ ~overtaken /\ ~Overtakes(n)
      BY <1>0, <2>3, <2>4
    <3>2. ASSUME NEW w \in Writer, At(w, "head")
          PROVE  writer[w].mined <= Height - n
      <4>1. writer[w].mined \in Nat
        BY <3>1, <3>2, <1>0 DEF FinalInv, Holds
      <4>2. ~(writer[w].mined > Height - n)
        BY <3>1, <3>2 DEF Overtakes
      <4> QED
        BY <4>1, <4>2, <1>0
    <3> QED
      BY <3>1, <3>2, <1>0
  <2> QED
    BY <1>0, <2>2, <2>3, <2>4, ExtendsKeepsFinal
<1> QED
  BY <1>1, <1>2, <1>3, <1>4 DEF AnchorNext, AnchorStep, anchorVars

\* A final status tells the truth about the chain (FinalIsMined): what is marked
\* confirmed or abandoned is mined, and succeeded or reverted, as long as no
\* reorganisation is as deep as the confirmations or falls between the two calls
\* of a check.
THEOREM FinalIsMinedHolds == AnchorSpec => []FinalIsMined
<1>1. AnchorInit => FinalInv
  <2> SUFFICES ASSUME AnchorInit PROVE FinalInv
    OBVIOUS
  <2>1. /\ \A s \in Submission : status[s] = "none"
        /\ \A w \in Writer : writer[w].at = "idle"
    BY DEF AnchorInit, SubmissionInit, Free
  <2> QED
    BY <2>1 DEF FinalInv, Final, At
<1>2. BaseInv /\ FinalInv /\ [AnchorNext]_anchorVars => FinalInv'
  BY NextFinal
<1>3. BaseInv /\ FinalInv => FinalIsMined
  <2> SUFFICES ASSUME BaseInv, FinalInv, ~deep, ~overtaken,
                      NEW s \in Submission, status[s] \in {"confirmed", "abandoned"}
               PROVE  /\ TxOf(s) \in Mined
                      /\ status[s] = "confirmed" <=> Succeeds(TxOf(s))
    BY DEF FinalIsMined
  <2>1. Buried(s) /\ (status[s] = "confirmed" <=> s \notin Reverting)
    BY DEF FinalInv, Final, Settled
  <2>2. TxOf(s) \in Mined
    BY <2>1, MinedFacts DEF Buried, Holds, MinedUpto, BaseInv, AnchorTypeOK
  <2>3. TxOf(s).sub = s
    BY DEF TxOf
  <2> QED
    BY <2>1, <2>2, <2>3 DEF Succeeds
<1> QED
  BY <1>1, <1>2, <1>3, BaseHolds, PTL DEF AnchorSpec

-----------------------------------------------------------------------------
(* The projection *)

\* Blocks that are kept keep what they emitted.
LEMMA EmittedSame ==
  ASSUME NEW c, NEW d, NEW a, NEW b, \A h \in a..b : c[h] = d[h]
  PROVE  EventsOf(c, a, b) = EventsOf(d, a, b)
BY DEF EventsOf

\* A prefix of what was emitted, and what comes after it.
LEMMA EmittedSplit ==
  ASSUME NEW c, NEW k \in Nat, NEW l \in Nat, k <= l,
         \A h \in 1..l : c[h].txs \subseteq Tx
  PROVE  /\ {e \in EventsOf(c, 1, l) : e.number <= k} = EventsOf(c, 1, k)
         /\ EventsOf(c, 1, k) \cup EventsOf(c, k + 1, l) = EventsOf(c, 1, l)
         /\ EventsOf(c, 1, 0) = {}
<1>1. /\ EventsOf(c, 1, l) \subseteq Event
      /\ \A e \in Event : e \in EventsOf(c, 1, l) <=>
           e.number \in 1..l /\ e.tx \in c[e.number].txs /\ Succeeds(e.tx)
  <2>1. (\A h \in 1..l : c[h].txs \subseteq Tx) /\ 1 \in Nat \ {0}
    OBVIOUS
  <2> QED
    BY <2>1, EmittedFacts
<1>2. /\ EventsOf(c, 1, k) \subseteq Event
      /\ \A e \in Event : e \in EventsOf(c, 1, k) <=>
           e.number \in 1..k /\ e.tx \in c[e.number].txs /\ Succeeds(e.tx)
  <2>1. (\A h \in 1..k : c[h].txs \subseteq Tx) /\ 1 \in Nat \ {0}
    OBVIOUS
  <2> QED
    BY <2>1, EmittedFacts
<1>3. /\ EventsOf(c, k + 1, l) \subseteq Event
      /\ \A e \in Event : e \in EventsOf(c, k + 1, l) <=>
           e.number \in (k + 1)..l /\ e.tx \in c[e.number].txs /\ Succeeds(e.tx)
  <2>1. (\A h \in (k + 1)..l : c[h].txs \subseteq Tx) /\ k + 1 \in Nat \ {0}
    OBVIOUS
  <2> QED
    BY <2>1, EmittedFacts
<1>4. \A e \in Event : e.number \in Nat
  BY DEF Event
<1>5. \A n \in Nat : /\ n \in 1..l /\ n <= k <=> n \in 1..k
                     /\ n \in 1..k \/ n \in (k + 1)..l <=> n \in 1..l
  OBVIOUS
<1>6. EventsOf(c, 1, 0) = {}
  BY DEF EventsOf
<1> QED
  BY <1>1, <1>2, <1>3, <1>4, <1>5, <1>6

\* The projection is what was emitted up to the checkpoint.
Faithful == events = EventsOf(chain, 1, Scanned)

\* A mark of a block that stands vouches for everything below it.
MarksVouch ==
  \A m \in marks :
    Canonical(m) => {e \in events : e.number <= m.number} = EventsOf(chain, 1, m.number)

\* What a scan has fetched is what the range emitted.
Fetched ==
  /\ indexer.found = EventsOf(chain, indexer.from, ToBlock)
  /\ indexer.seen = {MarkOf(e.number) : e \in indexer.found}

ProjectionInv ==
  /\ torn => deep
  /\ ~torn => /\ MarksVouch
              /\ indexer.at \in {"head", "logs", "commit"} => Faithful
              /\ indexer.at = "commit" => Fetched
  /\ ~deep => /\ Faithful /\ indexer.at # "search"
              /\ \A m \in marks : Canonical(m)

\* The latest mark is of the checkpoint.
LEMMA LatestFacts ==
  ASSUME IndexerTypeOK, ChainTypeOK, ScannedInv, marks # {}
  PROVE  Latest \in marks /\ Latest.number = Scanned
<1>1. \A m \in marks : m.number \in 1..Scanned
  BY DEF ScannedInv
<1>2. Scanned \in Nat /\ Scanned # 0
  BY <1>1, ScanFacts
<1>3. PICK m \in marks : m.number = Scanned
  BY <1>2 DEF ScannedInv
<1>4. \A k \in marks : k.number <= m.number
  BY <1>1, <1>2, <1>3
<1>5. Latest \in marks /\ \A k \in marks : k.number <= Latest.number
  BY <1>4 DEF Latest
<1> QED
  BY <1>1, <1>2, <1>3, <1>5

LEMMA IndexerKeepsProjection ==
  ASSUME ChainTypeOK, ChainInv, IndexerTypeOK, ScannedInv, PollInv, ProjectionInv,
         IndexerNext, UNCHANGED chainVars
  PROVE  ProjectionInv'
<1>0. /\ Height' = Height /\ chain' = chain /\ deep' = deep
      /\ Height \in Nat /\ Scanned \in Nat /\ Scanned <= Height
      /\ \A h \in 1..Height : chain[h].txs \subseteq Tx
      /\ NextBlock = Scanned + 1
  BY MinedFacts, ScanFacts DEF Height, chainVars, Block, ScannedInv
<1>1. /\ events \subseteq Event
      /\ \A e \in events : e.number \in Nat /\ e.number \in 1..Scanned
  BY DEF IndexerTypeOK, ScannedInv, Event
<1>2. EventsOf(chain, 1, 0) = {}
  BY DEF EventsOf
<1>3. ASSUME UNCHANGED projectionVars
      PROVE  /\ Scanned' = Scanned
             /\ Faithful' <=> Faithful
             /\ MarksVouch' <=> MarksVouch
             /\ \A m \in marks : Canonical(m)' <=> Canonical(m)
             /\ marks' = marks
  BY <1>0, <1>3 DEF projectionVars, Scanned, NextBlock, Faithful, MarksVouch,
       Canonical, MarkOf
<1>4. CASE PollOnce
  <2>1. /\ UNCHANGED <<projectionVars, torn>>
        /\ indexer'.at = IF checkpoint = NoBlock \/ marks = {} THEN "head" ELSE "compare"
    BY <1>4 DEF PollOnce, Idle
  <2>2. checkpoint = NoBlock \/ marks = {} => Scanned = 0
    BY <1>0 DEF ScannedInv, Scanned, NextBlock
  <2>3. Scanned = 0 => Faithful
    BY <1>1, <1>2 DEF Faithful
  <2> QED
    BY <2>1, <2>2, <2>3, <1>0, <1>3 DEF ProjectionInv
<1>5. CASE Rebuild
  <2>1. /\ checkpoint' = NoBlock /\ marks' = {} /\ events' = {}
        /\ indexer'.at = "head" /\ torn' = FALSE
    BY <1>5 DEF Rebuild, Idle
  <2>2. Scanned' = 0
    BY <2>1 DEF Scanned, NextBlock
  <2>3. Faithful'
    BY <2>1, <2>2, <1>0, <1>2 DEF Faithful
  <2> QED
    BY <2>1, <2>3 DEF ProjectionInv, MarksVouch
<1>6. CASE PollFails
  <2>1. UNCHANGED <<projectionVars, torn>> /\ indexer'.at = "idle"
    BY <1>6 DEF PollFails, Idle
  <2> QED
    BY <2>1, <1>0, <1>3 DEF ProjectionInv
<1>7. CASE Compare
  <2>1. UNCHANGED <<projectionVars, torn>> /\ indexer.at = "compare" /\ marks # {}
    BY <1>7 DEF Compare, PollInv
  <2>2. Latest \in marks /\ Latest.number = Scanned
    BY <2>1, LatestFacts
  <2>3. \/ indexer'.at = "idle"
        \/ indexer'.at = "head" /\ Canonical(Latest)
        \/ indexer'.at = "search" /\ ~Canonical(Latest)
    BY <1>7 DEF Compare, Idle, IndexerTypeOK, Canonical
  <2>4. MarksVouch /\ Canonical(Latest) => Faithful
    <3> SUFFICES ASSUME MarksVouch, Canonical(Latest) PROVE Faithful
      OBVIOUS
    <3>1. {e \in events : e.number <= Scanned} = EventsOf(chain, 1, Scanned)
      BY <2>2 DEF MarksVouch
    <3>2. \A e \in events : e.number <= Scanned
      BY <1>0, <1>1
    <3> QED
      BY <3>1, <3>2 DEF Faithful
  <2> QED
    BY <2>1, <2>2, <2>3, <2>4, <1>0, <1>3 DEF ProjectionInv
<1>8. CASE Search
  <2>1. /\ events' = {e \in events : e.number <= Ancestor}
        /\ marks' = {mark \in marks : mark.number <= Ancestor}
        /\ checkpoint' = Ancestor
        /\ indexer.at = "search" /\ torn' = torn
        /\ indexer' = [indexer EXCEPT !.at = "head"]
    BY <1>8 DEF Search, RollbackAfterBlock, Ancestor, Standing
  <2>2. /\ Ancestor \in Nat
        /\ Ancestor # 0 => \E m \in Standing : m.number = Ancestor
    BY AncestorFacts
  <2>3. Scanned' = Ancestor
    BY <2>1, <2>2, IndexerAssumption DEF Scanned, NextBlock
  <2>4. MarksVouch => Faithful'
    <3> SUFFICES ASSUME MarksVouch PROVE events' = EventsOf(chain, 1, Ancestor)
      BY <2>3, <1>0 DEF Faithful
    <3>1. CASE Ancestor = 0
      BY <3>1, <2>1, <1>1, <1>2
    <3>2. CASE Ancestor # 0
      <4>1. PICK m \in marks : Canonical(m) /\ m.number = Ancestor
        BY <3>2, <2>2 DEF Standing
      <4> QED
        BY <4>1, <2>1 DEF MarksVouch
    <3> QED
      BY <3>1, <3>2
  <2>5. MarksVouch => MarksVouch'
    <3> SUFFICES ASSUME MarksVouch, NEW m \in marks', Canonical(m)'
                 PROVE  {e \in events' : e.number <= m.number} =
                          EventsOf(chain, 1, m.number)
      BY <1>0 DEF MarksVouch
    <3>1. m \in marks /\ m.number <= Ancestor /\ Canonical(m)
      BY <2>1, <1>0 DEF Canonical, MarkOf
    <3>2. m.number \in Nat
      BY <3>1 DEF IndexerTypeOK, Mark
    <3>3. \A e \in events : e.number <= m.number => e.number <= Ancestor
      BY <1>1, <2>2, <3>1, <3>2
    <3>4. {e \in events' : e.number <= m.number} = {e \in events : e.number <= m.number}
      BY <2>1, <3>3
    <3> QED
      BY <3>1, <3>4 DEF MarksVouch
  <2>6. indexer'.at = "head"
    BY <2>1 DEF IndexerTypeOK
  <2> QED
    BY <2>1, <2>4, <2>5, <2>6, <1>0 DEF ProjectionInv
<1>9. CASE ReadHead
  <2>1. /\ UNCHANGED <<projectionVars, torn>> /\ indexer.at = "head"
        /\ indexer'.at \in {"idle", "logs"}
    BY <1>9 DEF ReadHead, Idle, IndexerTypeOK
  <2> QED
    BY <2>1, <1>0, <1>3 DEF ProjectionInv
<1>10. CASE GetLogs
  <2> DEFINE found == EventsIn(indexer.from, ToBlock)
             seen == {MarkOf(e.number) : e \in found}
  <2>1. /\ indexer' = [indexer EXCEPT !.at = "commit", !.found = found, !.seen = seen]
        /\ UNCHANGED <<projectionVars, torn>> /\ indexer.at = "logs"
    BY <1>10 DEF GetLogs
  <2>2. found = EventsOf(chain, indexer.from, ToBlock)
    BY DEF EventsIn, EventsOf
  <2>3. seen = {MarkOf(e.number) : e \in found}
    OBVIOUS
  <2> HIDE DEF found, seen
  <2>4. /\ indexer'.at = "commit" /\ indexer'.from = indexer.from
        /\ indexer'.safe = indexer.safe /\ indexer'.found = found /\ indexer'.seen = seen
    BY <2>1 DEF IndexerTypeOK
  <2>5. ToBlock' = ToBlock /\ \A h : MarkOf(h)' = MarkOf(h)
    BY <2>4, <1>0 DEF ToBlock, MarkOf
  <2>6. indexer'.seen = {[number |-> e.number, fork |-> chain'[e.number].fork] :
                           e \in indexer'.found}
    BY <2>3, <2>4, <1>0 DEF MarkOf
  <2>7. Fetched'
    BY <2>2, <2>4, <2>5, <2>6, <1>0 DEF Fetched, MarkOf
  <2> QED
    BY <2>1, <2>4, <2>7, <1>0, <1>3 DEF ProjectionInv
<1>11. CASE CommitScannedRange
  <2> DEFINE new == {mark \in indexer.seen : mark.number # ToBlock} \cup {MarkOf(ToBlock)}
             known == {e.tx : e \in events}
  <2>1. /\ marks' = new \cup {mark \in marks : \A m \in new : m.number # mark.number}
        /\ events' = events \cup {e \in indexer.found : e.tx \notin known}
        /\ checkpoint' = ToBlock
        /\ indexer' = IF ToBlock = indexer.safe THEN Idle
                      ELSE [Idle EXCEPT !.at = "logs", !.from = ToBlock + 1,
                                        !.safe = indexer.safe]
        /\ torn' = torn /\ indexer.at = "commit"
    BY <1>11 DEF CommitScannedRange
  <2>2. indexer'.at \in {"idle", "logs"}
    BY <2>1 DEF Idle
  <2>3. /\ ToBlock \in 1..Height /\ Scanned <= ToBlock
        /\ indexer.from = Scanned + 1
    BY <2>1, ScanFacts DEF PollInv
  <2>4. Scanned' = ToBlock
    BY <2>1, <2>3, IndexerAssumption DEF Scanned, NextBlock
  <2>5. CASE torn
    BY <2>1, <2>5, <1>0 DEF ProjectionInv
  <2>6. CASE ~torn
    <3>1. Faithful /\ Fetched /\ MarksVouch
      BY <2>1, <2>6 DEF ProjectionInv
    <3>2. /\ indexer.found \subseteq Event
          /\ \A e \in indexer.found : /\ e.number \in (Scanned + 1)..ToBlock
                                      /\ e.tx \in chain[e.number].txs
      <4>1. \A h \in (Scanned + 1)..ToBlock : chain[h].txs \subseteq Tx
        BY <1>0, <2>3
      <4>2. Scanned + 1 \in Nat \ {0} /\ ToBlock \in Nat
        BY <1>0, <2>3
      <4>3. indexer.found = EventsOf(chain, Scanned + 1, ToBlock)
        BY <2>3, <3>1 DEF Fetched
      <4> HIDE DEF ToBlock
      <4> QED
        BY <4>1, <4>2, <4>3, EmittedFacts
    <3>3. \A e \in events : e.number \in 1..Scanned /\ e.tx \in chain[e.number].txs
      <4>1. \A h \in 1..Scanned : chain[h].txs \subseteq Tx
        BY <1>0
      <4> QED
        BY <4>1, <1>0, <1>1, <3>1, EmittedFacts DEF Faithful
    <3>4. \A e \in indexer.found : e.tx \notin known
      <4> SUFFICES ASSUME NEW e \in indexer.found, NEW f \in events, e.tx = f.tx
                   PROVE  FALSE
        OBVIOUS
      <4>1. /\ e.number \in 1..Height /\ f.number \in 1..Height
            /\ chain[e.number].txs \cap chain[f.number].txs # {}
        BY <3>2, <3>3, <2>3, <1>0
      <4>2. e.number = f.number
        BY <4>1 DEF ChainInv
      <4> QED
        BY <4>2, <3>2, <3>3, <1>0
    <3>5. events' = EventsOf(chain, 1, ToBlock)
      <4>1. events' = events \cup indexer.found
        BY <2>1, <3>4
      <4>2. events' = EventsOf(chain, 1, Scanned) \cup EventsOf(chain, Scanned + 1, ToBlock)
        BY <4>1, <3>1, <2>3 DEF Faithful, Fetched
      <4>3. \A h \in 1..ToBlock : chain[h].txs \subseteq Tx
        BY <1>0, <2>3
      <4>4. ToBlock \in Nat
        BY <2>3
      <4> HIDE DEF ToBlock
      <4> QED
        BY <4>2, <4>3, <4>4, <2>3, <1>0, EmittedSplit
    <3>6. Faithful'
      BY <3>5, <2>4, <1>0 DEF Faithful
    <3>7. \A m \in new : Canonical(m)
      <4>1. /\ \A e \in indexer.found : e.number \in 1..Height
            /\ \A h \in 1..Height : Canonical(MarkOf(h))
        BY <3>2, <2>3, <1>0 DEF Canonical, MarkOf
      <4>2. \A m \in indexer.seen : \E e \in indexer.found : m = MarkOf(e.number)
        BY <3>1 DEF Fetched
      <4> QED
        BY <4>1, <4>2, <2>3
    <3>8. \A m \in marks' : m.number \in Nat /\ m.number <= ToBlock
      <4>1. \A m \in marks : m.number \in 1..Scanned
        BY DEF ScannedInv
      <4>2. \A m \in indexer.seen : m.number \in indexer.from..ToBlock
        BY <2>1 DEF PollInv
      <4>3. MarkOf(ToBlock).number = ToBlock
        BY DEF MarkOf
      <4> HIDE DEF ToBlock
      <4> QED
        BY <4>1, <4>2, <4>3, <2>1, <2>3, <1>0
    <3>9. MarksVouch'
      <4> SUFFICES ASSUME NEW m \in marks'
                   PROVE  {e \in events' : e.number <= m.number} =
                            EventsOf(chain, 1, m.number)
        BY <1>0 DEF MarksVouch
      <4>1. m.number \in Nat /\ m.number <= ToBlock /\ ToBlock \in Nat
        BY <3>8, <2>3
      <4>2. \A h \in 1..ToBlock : chain[h].txs \subseteq Tx
        BY <1>0, <2>3
      <4> HIDE DEF ToBlock
      <4> QED
        BY <4>1, <4>2, <3>5, EmittedSplit
    <3>10. ~deep => \A m \in marks' : Canonical(m)'
      <4>1. ~deep => \A m \in marks' : Canonical(m)
        <5> HIDE DEF new
        <5> QED
          BY <2>1, <3>7 DEF ProjectionInv
      <4> QED
        BY <4>1, <1>0 DEF Canonical, MarkOf
    <3> HIDE DEF new, known
    <3> QED
      BY <2>1, <2>2, <2>6, <3>6, <3>9, <3>10, <1>0 DEF ProjectionInv
  <2> QED
    BY <2>5, <2>6
<1> QED
  BY <1>4, <1>5, <1>6, <1>7, <1>8, <1>9, <1>10, <1>11 DEF IndexerNext, IndexerStep

\* A block that was scanned is replaced only by a reorganisation as deep as the
\* confirmations; one that comes in the middle of a scan tears it.
LEMMA ExtendsKeepsProjection ==
  ASSUME ChainTypeOK, ForksPast, IndexerTypeOK, ScannedInv, PollInv, ProjectionInv,
         NEW b, NEW p, NEW T \in SUBSET Tx, Extends(b, p, T),
         UNCHANGED <<projectionVars, indexer>>,
         torn' => deep',
         ~deep' => ~deep /\ b + Confirmations > Height,
         ~torn' => /\ ~torn
                   /\ \/ b + Confirmations > Height
                      \/ indexer.at \in {"idle", "compare"}
  PROVE  ProjectionInv'
<1>0. /\ Height \in Nat /\ Height' \in Nat /\ b \in 0..Height /\ Height <= Height'
      /\ \A h \in 1..b : chain'[h] = chain[h]
      /\ Scanned \in Nat /\ Scanned <= Height /\ Confirmations \in Nat \ {0}
      /\ Scanned = 0 \/ Scanned + Confirmations <= Height + 1
      /\ NextBlock = Scanned + 1
  BY MinedFacts, ScanFacts DEF Extends, ScannedInv
<1>1. Scanned' = Scanned /\ NextBlock' = NextBlock /\ ToBlock' = ToBlock
  BY DEF Scanned, NextBlock, ToBlock, projectionVars
<1>2. UNCHANGED <<marks, events, indexer>>
  BY DEF projectionVars
<1>3. b + Confirmations > Height => Scanned <= b
  BY <1>0
<1>4. ASSUME NEW k, k \in Nat, k <= b, NEW a \in Nat \ {0}
      PROVE  EventsOf(chain', a, k) = EventsOf(chain, a, k)
  BY <1>0, <1>4, EmittedSame
<1>5. Scanned <= b => (Faithful' <=> Faithful)
  <2>1. Scanned <= b => EventsOf(chain', 1, Scanned) = EventsOf(chain, 1, Scanned)
    BY <1>0, <1>4
  <2> QED
    BY <2>1, <1>1, <1>2 DEF Faithful
\* a mark of a block that is gone is of an older fork
<1>6. ASSUME NEW m \in marks, Canonical(m)'
      PROVE  m.number \in 1..b /\ Canonical(m)
  <2>1. /\ m.number \in 1..Scanned /\ m.number \in Nat /\ m.fork <= reorgs
        /\ m.number <= Height' /\ m = [number |-> m.number, fork |-> chain'[m.number].fork]
    BY <1>6 DEF ScannedInv, Canonical, MarkOf, IndexerTypeOK, Mark
  <2>2. m.number <= b
    <3> SUFFICES ASSUME m.number > b PROVE FALSE
      BY <2>1, <1>0
    <3>1. m.number \in (b + 1)..Height' /\ b < Height
      BY <2>1, <1>0
    <3>2. chain'[m.number].fork = reorgs'
      <4> DEFINE X == IF m.number = p THEN T ELSE {}
      <4>1. chain'[m.number] = [fork |-> reorgs', txs |-> X]
        BY <3>1 DEF Extends
      <4> HIDE DEF X
      <4> QED
        BY <4>1
    <3>3. reorgs' = reorgs + 1 /\ reorgs \in Nat
      BY <3>1, <1>0 DEF Extends, ChainTypeOK
    <3>4. m.fork = chain'[m.number].fork
      BY <2>1
    <3> QED
      BY <2>1, <3>2, <3>3, <3>4
  <2>3. chain'[m.number] = chain[m.number]
    BY <2>1, <2>2, <1>0
  <2> QED
    BY <2>1, <2>2, <2>3, <1>0 DEF Canonical, MarkOf
<1>7. MarksVouch => MarksVouch'
  <2> SUFFICES ASSUME MarksVouch, NEW m \in marks, Canonical(m)'
               PROVE  {e \in events : e.number <= m.number} =
                        EventsOf(chain', 1, m.number)
    BY <1>2 DEF MarksVouch
  <2>1. m.number \in 1..b /\ m.number \in Nat /\ Canonical(m)
    BY <1>6, <1>0
  <2> QED
    BY <2>1, <1>4 DEF MarksVouch
<1>8. ASSUME b + Confirmations > Height, indexer.at = "commit", Fetched
      PROVE  Fetched'
  <2>1. /\ ToBlock \in Nat /\ ToBlock <= b /\ indexer.from \in Nat \ {0}
        /\ \A e \in indexer.found : e.number \in indexer.from..ToBlock
    BY <1>0, <1>8, ScanFacts DEF PollInv
  <2>2. EventsOf(chain', indexer.from, ToBlock) = EventsOf(chain, indexer.from, ToBlock)
    BY <2>1, <1>4
  <2>3. \A e \in indexer.found : e.number \in 1..b
    BY <2>1, <1>0
  <2>4. {[number |-> e.number, fork |-> chain'[e.number].fork] : e \in indexer.found} =
          {MarkOf(e.number) : e \in indexer.found}
    BY <2>3, <1>0 DEF MarkOf
  <2> QED
    BY <2>2, <2>4, <1>1, <1>2, <1>8 DEF Fetched, MarkOf
<1>9. ASSUME b + Confirmations > Height, NEW m \in marks, Canonical(m)
      PROVE  Canonical(m)'
  <2>1. m.number \in 1..b /\ m.number <= Height'
    <3>1. m.number \in 1..Scanned
      BY <1>9 DEF ScannedInv
    <3> QED
      BY <3>1, <1>0, <1>3, <1>9
  <2> QED
    BY <2>1, <1>0, <1>9 DEF Canonical, MarkOf
<1>10. ~torn' => /\ MarksVouch'
                 /\ indexer'.at \in {"head", "logs", "commit"} => Faithful'
                 /\ indexer'.at = "commit" => Fetched'
  BY <1>2, <1>3, <1>5, <1>7, <1>8 DEF ProjectionInv
<1>11. ~deep' => /\ Faithful' /\ indexer'.at # "search"
                 /\ \A m \in marks' : Canonical(m)'
  <2> SUFFICES ASSUME ~deep' PROVE /\ Faithful' /\ indexer'.at # "search"
                                   /\ \A m \in marks : Canonical(m)'
    BY <1>2
  <2>1. ~deep /\ b + Confirmations > Height
    OBVIOUS
  <2> QED
    BY <2>1, <1>2, <1>3, <1>5, <1>9 DEF ProjectionInv
<1> QED
  BY <1>10, <1>11 DEF ProjectionInv

LEMMA NextProjection ==
  ASSUME BaseInv, ProjectionInv, [AnchorNext]_anchorVars
  PROVE  ProjectionInv'
<1>0. /\ ChainTypeOK /\ ChainInv /\ ForksPast /\ IndexerTypeOK /\ ScannedInv /\ PollInv
      /\ deep \in BOOLEAN /\ torn \in BOOLEAN
      /\ Height \in Nat /\ Confirmations \in Nat \ {0}
  BY MinedFacts, ChainAssumption
  DEF BaseInv, AnchorTypeOK, ChainTypeOK, IndexerTypeOK
<1>1. ASSUME UNCHANGED <<chain, deep, indexerVars>>
      PROVE  ProjectionInv'
  <2>1. /\ Scanned' = Scanned /\ ToBlock' = ToBlock /\ Height' = Height
        /\ UNCHANGED <<chain, deep, marks, events, indexer, torn>>
    BY <1>1 DEF indexerVars, projectionVars, Scanned, NextBlock, ToBlock, Height
  <2> QED
    BY <2>1 DEF ProjectionInv, MarksVouch, Faithful, Fetched, Canonical, MarkOf
<1>2. CASE SubmissionNext /\ UNCHANGED <<indexerVars, overtaken>>
  <2>1. UNCHANGED <<chain, deep>>
    BY <1>2, SubmissionKeepsSent DEF BaseInv, AnchorTypeOK
  <2> QED
    BY <1>1, <1>2, <2>1
<1>3. CASE IndexerNext /\ UNCHANGED <<chainVars, submissionVars, overtaken>>
  BY <1>0, <1>3, IndexerKeepsProjection
<1>4. CASE Mine /\ UNCHANGED <<submissionVars, indexerVars, overtaken>>
  <2>1. PICK T \in SUBSET Tx : Extends(Height, Height + 1, T)
    BY <1>0, <1>4, MineExtends
  <2>2. deep' = deep /\ UNCHANGED <<projectionVars, indexer, torn>>
    BY <1>4 DEF Mine, indexerVars
  <2>3. Height + Confirmations > Height
    BY <1>0
  <2>4. torn => deep
    BY DEF ProjectionInv
  <2> QED
    BY <1>0, <2>1, <2>2, <2>3, <2>4, ExtendsKeepsProjection
<1>5. CASE \E n \in 1..Height : Reorganisation(n)
  <2>1. PICK n \in 1..Height : Reorganisation(n)
    BY <1>5
  <2>2. PICK T \in SUBSET Tx, p \in Nat : Extends(Height - n, p, T)
    BY <1>0, <2>1, ReorganiseExtends DEF Reorganisation
  <2>3. /\ deep' = (deep \/ n >= Confirmations)
        /\ torn' = (torn \/ Tears(n))
        /\ UNCHANGED <<projectionVars, indexer>>
    BY <2>1 DEF Reorganisation, Reorganise
  <2>4. n >= Confirmations \/ Height - n + Confirmations > Height
    BY <1>0
  <2>5. torn => deep
    BY DEF ProjectionInv
  <2>6. /\ torn' => deep'
        /\ ~deep' => ~deep /\ Height - n + Confirmations > Height
        /\ ~torn' => /\ ~torn
                     /\ \/ Height - n + Confirmations > Height
                        \/ indexer.at \in {"idle", "compare"}
    BY <2>3, <2>4, <2>5 DEF Tears
  <2> QED
    BY <1>0, <2>2, <2>3, <2>6, ExtendsKeepsProjection
<1>6. CASE UNCHANGED anchorVars
  BY <1>1, <1>6 DEF anchorVars, chainVars
<1> QED
  BY <1>2, <1>3, <1>4, <1>5, <1>6 DEF AnchorNext, AnchorStep

\* The projection is what the contract emitted up to the checkpoint
\* (ProjectionFaithful): at all times without a reorganisation as deep as the
\* confirmations, and after any once a poll has compared its latest mark,
\* unless one came in the middle of a scan.
THEOREM ProjectionFaithfulHolds == AnchorSpec => []ProjectionFaithful
<1>1. AnchorInit => ProjectionInv
  <2> SUFFICES ASSUME AnchorInit PROVE ProjectionInv
    OBVIOUS
  <2>1. /\ torn = FALSE /\ marks = {} /\ events = {} /\ indexer.at = "idle"
        /\ Scanned = 0
    BY DEF AnchorInit, IndexerInit, Idle, Scanned, NextBlock
  <2>2. Faithful
    BY <2>1 DEF Faithful, EventsOf
  <2> QED
    BY <2>1, <2>2 DEF ProjectionInv, MarksVouch
<1>2. BaseInv /\ ProjectionInv /\ [AnchorNext]_anchorVars => ProjectionInv'
  BY NextProjection
<1>3. ProjectionInv => ProjectionFaithful
  BY DEF ProjectionInv, ProjectionFaithful, Faithful, Scanned, EventsIn, EventsOf
<1> QED
  BY <1>1, <1>2, <1>3, BaseHolds, PTL DEF AnchorSpec
=============================================================================
