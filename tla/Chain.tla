-------------------------------- MODULE Chain --------------------------------
(***************************************************************************)
(* The blockchain as the writer and the indexer of Todo Service see it      *)
(* through the RPC node: a sequence of blocks, transactions of the one     *)
(* writer account that wait, and reorganisations.  Nothing of it is in the *)
(* repository but the contract, whose recordTaskAction emits one event.    *)
(***************************************************************************)
EXTENDS Naturals, Sequences, FiniteSets

CONSTANTS
  Submission,     \* rows of chain_submissions
  Reverting,      \* those whose call reverts
  Confirmations,  \* CHAIN_CONFIRMATIONS
  MaxReorgs,      \* bound: reorganisations
  MaxDepth        \* bound: blocks that one replaces

ASSUME ChainAssumption ==
  /\ Confirmations \in Nat \ {0} /\ MaxReorgs \in Nat /\ MaxDepth \in Nat
  /\ Reverting \subseteq Submission

VARIABLES
  chain,     \* the canonical blocks, from the deployment block on
  mempool,   \* transactions that were broadcast and are not mined
  reorgs,    \* how many reorganisations there were: part of a block's hash
  deep       \* history: one of them replaced a block that had its
             \* confirmations

chainVars == <<chain, mempool, reorgs, deep>>

\* The hash of a transaction: the same call with the same nonce and fees is
\* the same transaction.
Tx == [sub : Submission, nonce : Nat]
\* Two blocks of one height are told apart by the reorganisation they came in.
Block == [fork : Nat, txs : SUBSET Tx]

ChainTypeOK ==
  /\ chain \in Seq(Block) /\ mempool \subseteq Tx
  /\ reorgs \in 0..MaxReorgs /\ deep \in BOOLEAN

ChainInit == chain = <<>> /\ mempool = {} /\ reorgs = 0 /\ deep = FALSE

Height == Len(chain)
MinedIn(blocks) == UNION {blocks[h].txs : h \in 1..Len(blocks)}
Mined == MinedIn(chain)
Succeeds(tx) == tx.sub \notin Reverting

\* What a block may hold after these blocks: transactions with the nonces that
\* are next.
Fits(T, blocks) ==
  LET n == Cardinality(MinedIn(blocks))
  IN {tx.nonce : tx \in T} = n..(n + Cardinality(T) - 1)

\* Blocks without a transaction are left out once everything mined has its
\* confirmations and one more.
Mine ==
  \E T \in SUBSET mempool :
    /\ Fits(T, chain)
    /\ T = {} => \E h \in 1..Height : chain[h].txs # {} /\ Height - h < Confirmations
    /\ chain' = Append(chain, [fork |-> reorgs, txs |-> T])
    /\ mempool' = {tx \in mempool \ T : \A m \in T : m.nonce # tx.nonce}
    /\ UNCHANGED <<reorgs, deep>>

\* The last n blocks are replaced by as many others; what only the old ones
\* held waits again.
Reorganise(n) ==
  LET kept == SubSeq(chain, 1, Height - n)
      back == mempool \cup (Mined \ MinedIn(kept))
      empty == [h \in 1..n |-> [fork |-> reorgs + 1, txs |-> {}]]
  IN /\ reorgs < MaxReorgs
     /\ n \in 1..Height /\ n <= MaxDepth
     /\ \E T \in SUBSET back, at \in 1..n :
          /\ Fits(T, kept)
          /\ T = {} => at = 1
          /\ chain' = kept \o [empty EXCEPT ![at].txs = T]
          /\ mempool' = {tx \in back \ T : \A m \in T : m.nonce # tx.nonce}
     /\ reorgs' = reorgs + 1
     /\ deep' = (deep \/ n >= Confirmations)
=============================================================================
