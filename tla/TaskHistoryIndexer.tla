------------------------- MODULE TaskHistoryIndexer -------------------------
(***************************************************************************)
(* The indexer: the projection of the contract's events in Todo PostgreSQL, *)
(* kept by whichever process has the advisory lock.  Each RPC call and      *)
(* each transaction of a poll is an action of its own.                      *)
(***************************************************************************)
EXTENDS Chain

CONSTANTS
  NoBlock,
  ScanRange,    \* CHAIN_SCAN_RANGE
  MaxRebuilds,  \* bound: runs of the rebuild command
  MaxFailedPolls  \* bound: polls that fail or stop

ASSUME IndexerAssumption ==
  /\ NoBlock \notin Nat /\ ScanRange \in Nat \ {0}
  /\ MaxRebuilds \in Nat /\ MaxFailedPolls \in Nat

VARIABLES
  checkpoint,   \* last_scanned_block; 0 is the block before the deployment
  marks,        \* chain_projection_blocks
  events,       \* task_chain_events
  indexer,      \* the poll that is under way
  rebuilds,
  failedPolls,
  torn          \* history: blocks that had their confirmations were replaced
                \* while a poll was scanning

projectionVars == <<checkpoint, marks, events>>
indexerVars == <<projectionVars, indexer, rebuilds, failedPolls, torn>>

\* The number and the hash of a block: two blocks of one number differ in the
\* fork, and with it in everything below.
Mark == [number : Nat, fork : Nat]
Event == [tx : Tx, number : Nat]
MarkOf(h) == [number |-> h, fork |-> chain[h].fork]
Canonical(mark) == mark.number <= Height /\ mark = MarkOf(mark.number)
\* What the contract emitted in these blocks.
EventsIn(from, to) ==
  UNION {{[tx |-> tx, number |-> h] : tx \in {t \in chain[h].txs : Succeeds(t)}} :
           h \in from..to}

Idle == [at |-> "idle", from |-> 0, safe |-> 0, found |-> {}, seen |-> {}]

IndexerTypeOK ==
  /\ checkpoint \in Nat \cup {NoBlock}
  /\ marks \subseteq Mark /\ events \subseteq Event
  /\ indexer \in [at : {"idle", "compare", "search", "head", "logs", "commit"},
                  from : Nat, safe : Nat, found : SUBSET Event,
                  seen : SUBSET Mark]
  /\ rebuilds \in 0..MaxRebuilds /\ failedPolls \in 0..MaxFailedPolls
  /\ torn \in BOOLEAN

IndexerInit ==
  /\ checkpoint = NoBlock /\ marks = {} /\ events = {}
  /\ indexer = Idle
  /\ rebuilds = 0 /\ failedPolls = 0 /\ torn = FALSE

-----------------------------------------------------------------------------
\* The first block that was not scanned.
NextBlock == IF checkpoint = NoBlock THEN 1 ELSE checkpoint + 1

\* acquireWorkerLock and pollOnce
PollOnce ==
  /\ indexer.at = "idle"
  /\ indexer' = [Idle EXCEPT !.at = IF checkpoint = NoBlock \/ marks = {}
                                   THEN "head" ELSE "compare"]
  /\ UNCHANGED <<projectionVars, rebuilds, failedPolls, torn>>

\* The rebuild command takes the same lock.
Rebuild ==
  /\ indexer.at = "idle"
  /\ rebuilds < MaxRebuilds
  /\ rebuilds' = rebuilds + 1
  /\ checkpoint' = NoBlock /\ marks' = {} /\ events' = {}
  /\ indexer' = [Idle EXCEPT !.at = "head"]
  /\ torn' = FALSE
  /\ UNCHANGED failedPolls

Latest == CHOOSE mark \in marks : \A m \in marks : m.number <= mark.number

\* Mutant: a projection whose first block still stands is left alone.
CompareOldest ==
  LET oldest == CHOOSE mark \in marks : \A m \in marks : m.number >= mark.number
  IN /\ indexer.at = "compare"
     /\ indexer' = [indexer EXCEPT !.at = IF Canonical(oldest)
                                         THEN "head" ELSE "search"]
     /\ UNCHANGED <<projectionVars, rebuilds, failedPolls, torn>>

\* Only the latest mark is compared; of a block that the node does not have
\* the call fails.
Compare ==
  /\ indexer.at = "compare"
  /\ indexer' = CASE Latest.number > Height -> Idle
                  [] Canonical(Latest) -> [indexer EXCEPT !.at = "head"]
                  [] OTHER -> [indexer EXCEPT !.at = "search"]
  /\ UNCHANGED <<projectionVars, rebuilds, failedPolls, torn>>

\* rollbackAfterBlock
RollbackAfterBlock(ancestor) ==
  /\ events' = {e \in events : e.number <= ancestor}
  /\ marks' = {mark \in marks : mark.number <= ancestor}
  /\ checkpoint' = ancestor

\* The marks are compared from the latest on, and the projection is taken back
\* to the first that still stands, or to the block before the deployment.
Search ==
  LET standing == {mark \in marks : Canonical(mark)}
      ancestor == IF standing = {} THEN 0
                  ELSE CHOOSE n \in {mark.number : mark \in standing} :
                         \A mark \in standing : mark.number <= n
  IN /\ indexer.at = "search"
     /\ RollbackAfterBlock(ancestor)
     /\ indexer' = [indexer EXCEPT !.at = "head"]
     /\ UNCHANGED <<rebuilds, failedPolls, torn>>

\* Mutant: everything up to the last block is scanned.
ReadHeadUnconfirmed ==
  /\ indexer.at = "head"
  /\ indexer' = IF NextBlock > Height THEN Idle
                ELSE [indexer EXCEPT !.at = "logs", !.from = NextBlock,
                                     !.safe = Height]
  /\ UNCHANGED <<projectionVars, rebuilds, failedPolls, torn>>

\* getBlockNumber: only blocks with all their confirmations are scanned.
ReadHead ==
  /\ indexer.at = "head"
  /\ indexer' = IF NextBlock + Confirmations > Height + 1 THEN Idle
                ELSE [indexer EXCEPT !.at = "logs", !.from = NextBlock,
                                     !.safe = Height + 1 - Confirmations]
  /\ UNCHANGED <<projectionVars, rebuilds, failedPolls, torn>>

ToBlock == IF indexer.from + ScanRange > indexer.safe THEN indexer.safe
           ELSE indexer.from + ScanRange - 1

\* getLogs of the range, each with the number and the hash of its block.
GetLogs ==
  LET found == EventsIn(indexer.from, ToBlock)
  IN /\ indexer.at = "logs"
     /\ indexer' = [indexer EXCEPT !.at = "commit", !.found = found,
                                   !.seen = {MarkOf(e.number) : e \in found}]
     /\ UNCHANGED <<projectionVars, rebuilds, failedPolls, torn>>

\* getBlock of the end of the range, then one transaction: a block that is
\* known gets the new hash, an event that is known stays as it is.
CommitScannedRange ==
  LET new == {mark \in indexer.seen : mark.number # ToBlock} \cup {MarkOf(ToBlock)}
      known == {e.tx : e \in events}
  IN /\ indexer.at = "commit"
     /\ marks' = new \cup {mark \in marks : \A m \in new : m.number # mark.number}
     /\ events' = events \cup {e \in indexer.found : e.tx \notin known}
     /\ checkpoint' = ToBlock
     /\ indexer' = IF ToBlock = indexer.safe THEN Idle
                   ELSE [Idle EXCEPT !.at = "logs", !.from = ToBlock + 1,
                                     !.safe = indexer.safe]
     /\ UNCHANGED <<rebuilds, failedPolls, torn>>

\* A call fails, or the process stops: the next poll starts from the tables.
PollFails ==
  /\ indexer.at # "idle"
  /\ failedPolls < MaxFailedPolls
  /\ failedPolls' = failedPolls + 1
  /\ indexer' = Idle
  /\ UNCHANGED <<projectionVars, rebuilds, torn>>

IndexerStep ==
  \/ PollOnce \/ Compare \/ Search \/ ReadHead \/ GetLogs \/ CommitScannedRange

IndexerNext == IndexerStep \/ Rebuild \/ PollFails

\* A replacement of n blocks in the middle of a scan.
Tears(n) == n >= Confirmations /\ indexer.at \notin {"idle", "compare"}
=============================================================================
