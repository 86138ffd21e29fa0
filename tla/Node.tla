-------------------------------- MODULE Node --------------------------------
(***************************************************************************)
(* The coin daemon the indexer asks for blocks.  It is not part of the     *)
(* repository: it is modelled from the three JSON-RPC methods wrap.cpp     *)
(* calls (getblockcount, getblockbynumber, gettransaction) and from the    *)
(* replies wrap.cpp expects of them.                                       *)
(*                                                                         *)
(* The daemon's view is one chain.  All branches share the blocks up to    *)
(* ForkHeight; above it a block is identified by its height and branch.    *)
(***************************************************************************)
EXTENDS Naturals, Sequences

CONSTANTS
    MaxHeight,   \* bound: the daemon's chain grows no higher
    ForkHeight,  \* the highest block all branches share
    Branches,    \* names of the branches
    MainBranch,  \* the branch of the shared blocks
    NoBlock,     \* an error reply of getblockbynumber: the block hash is ""
    Tx,          \* transaction ids
    TxsOf,       \* [Block -> Seq(Tx)]: the "tx" array of each block
    Faults       \* the kinds of fault this instance explores

FaultKinds == {"crash", "rpcError", "rpcDown", "dbError", "dbDown", "reorg"}

Heights == 0..MaxHeight

Block == {b \in [height : Heights, branch : Branches] :
            b.height <= ForkHeight => b.branch = MainBranch}

ASSUME HeightAssumption ==
    /\ MaxHeight \in Nat
    /\ ForkHeight \in Heights
ASSUME BranchAssumption == MainBranch \in Branches
ASSUME NoBlockAssumption == NoBlock \notin Block
ASSUME TxsOfAssumption == TxsOf \in [Block -> Seq(Tx)]
ASSUME FaultAssumption == Faults \subseteq FaultKinds

VARIABLES
    best,    \* the height getblockcount reports
    branch   \* the branch the daemon is on above ForkHeight

nodeVars == <<best, branch>>

-----------------------------------------------------------------------------

\* The block getblockbynumber returns for a height in range.
BlockAt(h) == [height |-> h,
               branch |-> IF h <= ForkHeight THEN MainBranch ELSE branch]

OnChain(b) == b.height <= best /\ b = BlockAt(b.height)

TxIds(b) == {TxsOf[b][i] : i \in DOMAIN TxsOf[b]}

\* gettransaction finds the transactions of the daemon's current chain.
TxKnown(t) == \E b \in Block : OnChain(b) /\ t \in TxIds(b)

NodeInit ==
    /\ best \in Heights
    /\ branch = MainBranch

\* A block arrives on top of the chain.
Extend ==
    /\ best < MaxHeight
    /\ best' = best + 1
    /\ UNCHANGED branch

\* The daemon switches to another branch.  It picks the branch with more
\* chain trust, which can be the shorter one.
Reorg ==
    /\ "reorg" \in Faults
    /\ branch' \in Branches \ {branch}
    /\ best' \in ForkHeight..MaxHeight

NodeTypeOK ==
    /\ best \in Heights
    /\ branch \in Branches
=============================================================================
