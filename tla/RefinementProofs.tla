--------------------------- MODULE RefinementProofs ---------------------------
(***************************************************************************)
(* The indexing process implements the sequential Indexer, whatever fails; *)
(* when nothing but a death of the process can happen it implements the    *)
(* strict one, and what is proved of that holds of the process.            *)
(*                                                                         *)
(* Then what it leaves in the tables: two blocks of a height only over two *)
(* heights without one, no transaction's row without its block's, nothing  *)
(* missing below the cursor when nothing fails, and one half indexed block *)
(* at most for each death.                                                 *)
(***************************************************************************)
EXTENDS FidInventorProofs

\* The faults that cost no height its block.
Strict == Faults \subseteq {"crash", "rpcDown"}

\* No statement fails, and no connection is lost.
DbSound == Faults \cap {"dbError", "dbDown"} = {}

\* When no statement fails, the row of a block follows its insertion; when no
\* reply fails either, a worker always holds a block.
StrictInv ==
    /\ DbSound =>
         /\ conn # "lost"
         /\ \A w \in Workers : Inserted(w) /\ blk[w] # NoBlock => blk[w] \in blockTab
    /\ Strict => \A w \in Workers : Holding(w) => blk[w] # NoBlock

RefineInv == ChainInv /\ StrictInv

LEMMA InsertedHolds == \A w \in Workers : Inserted(w) => Holding(w) /\ Working(w)
BY DEF Inserted, Holding, HoldingPcs, Working, Workers

LEMMA InitStrictInv == Init => StrictInv
BY DEF Init, DbInit, ForAll, StrictInv, Workers, Holding, HoldingPcs, Inserted

LEMMA TerminateStrict == Terminate => StrictInv'
BY DEF Terminate, ForAll, StrictInv, Workers, Holding, HoldingPcs, Inserted

LEMMA WorkerDbSound ==
  ASSUME RefineInv, NEW w \in Workers, WorkerStep(w), DbSound
  PROVE  /\ conn' # "lost"
         /\ \A v \in Workers : Inserted(v)' /\ blk'[v] # NoBlock => blk'[v] \in blockTab'
<1> USE DEF RefineInv, ChainInv, CursorInv, UserInv, TypeInv, TypeOK, StrictInv
<1>1. Working(w) /\ conn \in Logins /\ ~MayFail
  <2>1. Working(w) /\ conn # "none"
    BY WorkerMoves, WorkingAlone
  <2> QED
    BY <2>1 DEF DbTypeOK, MayFail, DbSound, Logins
<1>2. conn' # "lost"
  BY <1>1 DEF WorkerStep, FetchBlock, InsertBlock, FetchTx, TxsFetched, InsertTx, InsertDetail, BlockDone,
              Return, InitDb, dbVars, Logins
<1>3. blockTab \subseteq blockTab'
  BY WorkerMoves DEF InsertBlock, InsertBlockRow, dbVars
<1>4. ASSUME NEW v \in Workers, v # w
      PROVE  pc'[v] = pc[v] /\ blk'[v] = blk[v]
  BY <1>4 DEF WorkerStep, FetchBlock, InsertBlock, FetchTx, TxsFetched, InsertTx, InsertDetail, BlockDone,
              Return, Goto
<1>5. Inserted(w)' /\ blk'[w] # NoBlock => blk'[w] \in blockTab'
  <2>1. CASE InsertBlock(w)
    BY <1>1, <2>1 DEF InsertBlock, InsertBlockRow
  <2>2. CASE ~InsertBlock(w)
    <3>1. Inserted(w)' => Inserted(w) /\ blk'[w] = blk[w]
      BY <2>2 DEF WorkerStep, FetchBlock, FetchTx, TxsFetched, AfterTxs, InsertTx, InsertDetail, BlockDone,
                  Return, Goto, Inserted, Workers
    <3> QED
      BY <1>3, <3>1
  <2> QED
    BY <2>1, <2>2
<1> QED
  BY <1>2, <1>3, <1>4, <1>5 DEF Inserted

LEMMA WorkerStrict ==
  ASSUME RefineInv, NEW w \in Workers, WorkerStep(w), Strict, NEW v \in Workers, Holding(v)'
  PROVE  blk'[v] # NoBlock
<1> USE DEF RefineInv, ChainInv, CursorInv, UserInv, TypeInv, TypeOK, StrictInv
<1>1. CASE FetchBlock(w) /\ v = w
  <2>1. cur[w] <= best
    BY <1>1, WorkOnChain DEF FetchBlock, NoReorg, Strict
  <2>2. blk'[w] = BlockAt(cur[w])
    BY <1>1, <2>1, BestNat DEF FetchBlock, Strict
  <2> QED
    BY <1>1, <2>1, <2>2, BlockAtType, NoBlockAssumption
<1>2. CASE ~(FetchBlock(w) /\ v = w)
  <2>1. Holding(v) /\ blk'[v] = blk[v]
    BY <1>2 DEF WorkerStep, FetchBlock, InsertBlock, FetchTx, TxsFetched, InsertTx, InsertDetail, BlockDone, Return,
                Goto, Holding, HoldingPcs, Workers
  <2> QED
    BY <2>1
<1> QED
  BY <1>1, <1>2

LEMMA StepStrictInv ==
  ASSUME RefineInv, [Next]_vars
  PROVE  StrictInv'
<1> USE DEF RefineInv, ChainInv, CursorInv, UserInv, TypeInv, TypeOK
<1>1. CASE \E w \in Workers : WorkerStep(w)
  BY <1>1, WorkerDbSound, WorkerStrict DEF StrictInv, DbSound, Strict
<1>2. CASE MainCountFails \/ DbRefused \/ Crash \/ \E w \in Workers : RpcDown(w)
  BY <1>2, TerminateStrict DEF MainCountFails, DbRefused, Crash, RpcDown
<1>3. CASE DbLost
  BY <1>3 DEF DbLost, DbSound, Strict, StrictInv, workerVars, Holding, HoldingPcs
<1>4. CASE \/ Start \/ MainConnect \/ MainCount \/ MainPollInit \/ MainLaunch \/ MainPollFollow
           \/ CountStep \/ Wake \/ Daemon \/ UNCHANGED vars
  <2>1. blockTab' = blockTab /\ blk' = blk /\ (conn' = conn \/ conn' = "config")
    BY <1>4 DEF Start, MainConnect, MainCount, MainPollInit, MainLaunch, MainPollFollow, CountStep, CountGenesis,
                CountFollow, Wake, Daemon, vars, InitDb, tables, dbVars, workerVars
  <2>2. ASSUME NEW w \in Workers
        PROVE  (Holding(w)' => Holding(w)) /\ (Inserted(w)' => Inserted(w))
    <3>1. pc'[w] = pc[w] \/ pc'[w] \in {"count", "block", "sleep"}
      BY <1>4 DEF Start, MainConnect, MainCount, MainPollInit, MainLaunch, MainPollFollow, CountStep, CountGenesis,
                  CountFollow, Wake, Daemon, vars, RunThread, Goto, workerVars
    <3> QED
      BY <3>1 DEF Holding, HoldingPcs, Inserted
  <2> QED
    BY <2>1, <2>2 DEF Strict, DbSound, StrictInv
<1> QED
  BY <1>1, <1>2, <1>3, <1>4 DEF Next, MainStep, Fault

LEMMA InitRefineInv == Init => RefineInv
BY InitChainInv, InitStrictInv DEF RefineInv

LEMMA StepRefineInv == RefineInv /\ [Next]_vars => RefineInv'
BY StepChainInv, StepStrictInv DEF RefineInv

-----------------------------------------------------------------------------
(* The refinement *)

AbstractStep == [Abstract!Next]_(Abstract!vars)

LEMMA AbstractStutter ==
  ASSUME On' = On, Cursor' = Cursor, blockTab' = blockTab
  PROVE  AbstractStep
BY DEF AbstractStep, Abstract!vars, On

\* A process that ends leaves its rows and nothing else.
LEMMA TerminateRefines ==
  ASSUME CursorInv, Terminate
  PROVE  AbstractStep
<1>1. ~On' /\ Cursor' = 0 /\ blockTab' = blockTab
  BY DEF Terminate, On, Cursor, tables
<1>2. CASE On
  BY <1>1, <1>2 DEF AbstractStep, Abstract!Next, Abstract!Halt, On
<1>3. CASE ~On
  BY <1>1, <1>3, CursorType, AbstractStutter DEF On
<1> QED
  BY <1>2, <1>3

\* A worker stores the block of the cursor, and passes the cursor's height.
LEMMA WorkerRefines ==
  ASSUME RefineInv, NEW w \in Workers, WorkerStep(w)
  PROVE  AbstractStep
<1> USE DEF RefineInv, ChainInv
<1>1. Working(w) /\ On /\ On'
  BY WorkerMoves, WorkerAtCursor
<1>2. CASE Passing(w)
  <2>1. Cursor' = Cursor + 1 /\ blockTab' = blockTab
    BY <1>2, WorkerMoves DEF Passing, InsertBlock, BlockDone, Return, dbVars
  <2>2. Inserted(w) /\ Holding(w)
    BY <1>2, InsertedHolds DEF Passing, BlockDone, Return, Inserted, Workers
  <2>3. Strict => \E b \in blockTab : b.height = Cursor
    BY <1>1, <2>2, WorkerAtCursor DEF StrictInv, CursorInv, BlockInv, Strict, DbSound
  <2>4. Abstract!Advance
    BY <1>1, <2>1, <2>3 DEF Abstract!Advance, On, Strict
  <2> QED
    BY <2>4 DEF AbstractStep, Abstract!Next
<1>3. CASE InsertBlock(w)
  <2>1. ~Passing(w) /\ Holding(w)
    BY <1>3 DEF Passing, InsertBlock, BlockDone, Return, Holding, HoldingPcs, Workers
  <2>2. Cursor' = Cursor /\ Cursor = cur[w]
    BY <1>1, <2>1, WorkerMoves, WorkerAtCursor
  <2>3. CASE blockTab' = blockTab
    BY <1>1, <2>2, <2>3, AbstractStutter
  <2>4. CASE blockTab' # blockTab
    <3>1. blk[w] # NoBlock /\ blockTab' = blockTab \cup {blk[w]}
      BY <1>3, <2>4 DEF InsertBlock, InsertBlockRow, dbVars
    <3>2. blk[w] \in Served /\ blk[w].height = Cursor
      BY <2>1, <2>2, <3>1 DEF CursorInv, BlockInv
    <3>3. Abstract!Store(blk[w])
      BY <1>1, <2>2, <3>1, <3>2 DEF Abstract!Store, On
    <3> QED
      BY <3>2, <3>3 DEF AbstractStep, Abstract!Next
  <2> QED
    BY <2>3, <2>4
<1>4. CASE ~Passing(w) /\ ~InsertBlock(w)
  BY <1>1, <1>4, WorkerMoves, AbstractStutter
<1> QED
  BY <1>2, <1>3, <1>4

LEMMA MainRefines ==
  ASSUME RefineInv, Start \/ MainStep
  PROVE  AbstractStep
<1> USE DEF RefineInv, ChainInv
<1>1. CASE MainCountFails
  BY <1>1, TerminateRefines DEF MainCountFails
<1>2. CASE MainCount /\ ~On /\ On' /\ blockTab' = blockTab /\ Cursor' = Abstract!FirstHeight(BlockCount)
  <2>1. Abstract!Cardinality(blockTab) = Cardinality(blockTab)
    BY Zenon DEF Abstract!Cardinality, Cardinality
  <2> QED
    BY <1>2, <2>1 DEF AbstractStep, Abstract!Next, Abstract!Boot, On, BlockCount
<1>3. CASE UNCHANGED <<On, blockTab>> /\ Cursor' = Cursor
  BY <1>3, AbstractStutter
<1> QED
  BY <1>1, <1>2, <1>3, MainMoves

LEMMA StepRefines == RefineInv /\ [Next]_vars => AbstractStep
<1> SUFFICES ASSUME RefineInv, [Next]_vars PROVE AbstractStep
  OBVIOUS
<1>1. CASE UNCHANGED vars
  <2>1. On' = On /\ Cursor' = Cursor /\ blockTab' = blockTab
    BY <1>1 DEF vars, mainVars, dbVars, workerVars, On, Cursor, NextHeight
  <2> QED
    BY <2>1, AbstractStutter
<1>2. CASE Start \/ MainStep
  BY <1>2, MainRefines
<1>3. CASE \E w \in Workers : WorkerStep(w)
  BY <1>3, WorkerRefines
<1>4. CASE CountStep \/ Wake \/ DbLost \/ Daemon
  BY <1>4, OthersMove, AbstractStutter DEF RefineInv, ChainInv
<1>5. CASE DbRefused \/ Crash \/ \E w \in Workers : RpcDown(w)
  BY <1>5, TerminateRefines DEF DbRefused, Crash, RpcDown, RefineInv, ChainInv
<1> QED
  BY <1>1, <1>2, <1>3, <1>4, <1>5 DEF Next, Fault

LEMMA InitRefines == Init => Abstract!Init
BY DEF Init, DbInit, Abstract!Init, Cursor

\* The process with its threads, its unlocked heights and its unchecked return
\* codes is an indexer: it stores at its cursor, moves it up one by one, and
\* starts from the row count.  With deaths alone it leaves no height out on the
\* way.
THEOREM ProcessIsIndexer == Spec => ImplementsIndexer
<1>1. RefineInv /\ [Next]_vars => [Abstract!Next]_(Abstract!vars)
  BY StepRefines DEF AbstractStep
<1> QED
  BY <1>1, InitRefines, InitRefineInv, StepRefineInv, PTL DEF Spec, ImplementsIndexer, Abstract!Spec

-----------------------------------------------------------------------------
(* Rows behind the cursor *)

\* A row is of a height below the cursor, or the one a worker has just inserted.
Passed(b) == b.height < Cursor \/ \E w \in Workers : Inserted(w) /\ b = blk[w]

RowsPassed == \A b \in blockTab : Passed(b)

\* Two workers never hold blocks at the same time.
LEMMA OneHolds ==
  ASSUME ChainInv, NEW v \in Workers, NEW w \in Workers, Working(v), Working(w)
  PROVE  v = w
BY WorkingAlone DEF ChainInv, CursorInv, Workers

LEMMA RowHeights == ChainInv => \A b \in blockTab : b \in Block /\ b # NoBlock /\ b.height \in Nat
BY NoBlockAssumption, HeightAssumption
   DEF ChainInv, CursorInv, UserInv, TypeInv, TypeOK, DbTypeOK, Block, Heights

\* While the process runs, a row falls behind when its height is passed.
LEMMA RowFallsBehind ==
  ASSUME ChainInv, [Next]_vars, On, On', NEW b \in blockTab', b \in blockTab => Passed(b)
  PROVE  Passed(b)'
<1> USE DEF ChainInv
<1>1. CASE \E w \in Workers : WorkerStep(w)
  <2>1. PICK w \in Workers : WorkerStep(w)
    BY <1>1
  <2>2. Working(w) /\ Cursor \in Nat
    BY <2>1, WorkerMoves, CursorType
  <2>3. CASE Passing(w)
    <3>1. Cursor' = Cursor + 1 /\ blockTab' = blockTab
      BY <2>1, <2>3, WorkerMoves DEF Passing, InsertBlock, BlockDone, Return, dbVars
    <3>2. ASSUME NEW v \in Workers, Inserted(v), b = blk[v]
          PROVE  b.height = Cursor
      BY <3>1, <3>2, InsertedHolds, WorkerAtCursor, RowHeights DEF CursorInv, BlockInv
    <3>3. b.height \in Nat /\ (b.height < Cursor \/ b.height = Cursor)
      BY <3>1, <3>2, RowHeights DEF Passed
    <3> QED
      BY <2>2, <3>1, <3>3 DEF Passed
  <2>4. CASE ~Passing(w)
    <3>1. Cursor' = Cursor
      BY <2>1, <2>4, WorkerMoves
    <3>2. ASSUME NEW v \in Workers, Inserted(v)
          PROVE  Inserted(v)' /\ blk'[v] = blk[v]
      <4>1. v = w
        BY <2>2, <3>2, InsertedHolds, OneHolds
      <4> QED
        BY <2>1, <2>4, <3>2, <4>1
           DEF WorkerStep, FetchBlock, InsertBlock, FetchTx, TxsFetched, AfterTxs, InsertTx, InsertDetail, BlockDone,
               Return, Passing, Goto, Inserted, Workers, CursorInv, UserInv, TypeInv, TypeOK
    <3>3. blockTab' = blockTab \/ (Inserted(w)' /\ blk'[w] = blk[w] /\ blockTab' = blockTab \cup {blk[w]})
      <4>1. CASE InsertBlock(w)
        BY <4>1 DEF InsertBlock, InsertBlockRow, dbVars, Goto, Inserted, Workers, CursorInv, UserInv, TypeInv, TypeOK
      <4> QED
        BY <2>1, <4>1, WorkerMoves
    <3> QED
      BY <3>1, <3>2, <3>3 DEF Passed
  <2> QED
    BY <2>3, <2>4
<1>2. CASE ~\E w \in Workers : WorkerStep(w)
  <2>1. blockTab' = blockTab /\ Cursor' = Cursor
    <3>1. CASE Start \/ MainStep
      BY <3>1, MainMoves DEF MainCountFails, Terminate, On
    <3>2. CASE CountStep \/ Wake \/ DbLost \/ Daemon
      BY <3>2, OthersMove
    <3>3. CASE UNCHANGED vars
      BY <3>3 DEF vars, mainVars, dbVars, workerVars, Cursor, NextHeight
    <3>4. CASE DbRefused \/ Crash \/ \E w \in Workers : RpcDown(w)
      BY <3>4 DEF DbRefused, Crash, RpcDown, Terminate, On
    <3> QED
      BY <1>2, <3>1, <3>2, <3>3, <3>4 DEF Next, Fault
  <2>2. blk' = blk /\ \A w \in Workers : Inserted(w) => Inserted(w)'
    <3>1. CASE Start \/ MainStep
      BY <3>1 DEF Start, MainStep, MainConnect, MainCount, MainCountFails, MainPollInit, MainLaunch, MainPollFollow,
                  RunThread, workerVars, Inserted, On, Workers, CursorInv, UserInv, ControlInv, TypeInv, TypeOK
    <3>2. CASE CountStep \/ Wake \/ DbLost \/ Daemon \/ UNCHANGED vars
      BY <3>2 DEF CountStep, CountGenesis, CountFollow, Wake, DbLost, Daemon, vars, workerVars, Goto, Inserted,
                  CursorInv, UserInv, TypeInv, TypeOK, Workers
    <3>3. CASE DbRefused \/ Crash \/ \E w \in Workers : RpcDown(w)
      BY <3>3 DEF DbRefused, Crash, RpcDown, Terminate, On
    <3> QED
      BY <1>2, <3>1, <3>2, <3>3 DEF Next, Fault
  <2> QED
    BY <2>1, <2>2 DEF Passed
<1> QED
  BY <1>1, <1>2

LEMMA KeepsRowsPassed ==
  ASSUME ChainInv, [Next]_vars, On, On', RowsPassed
  PROVE  RowsPassed'
BY RowFallsBehind DEF RowsPassed

\* Outside the rounds of the workers nothing happens to tables and work, but
\* that the end of the process clears the work away.
Idle == {"off", "count", "block", "sleep"}

LEMMA QuietSteps ==
  ASSUME CursorInv, [Next]_vars, ~\E w \in Workers : WorkerStep(w)
  PROVE  /\ UNCHANGED <<blockTab, txTab, detTab>>
         /\ \/ Terminate /\ (MainCountFails \/ Fault)
            \/ /\ UNCHANGED <<blk, todo, vtx>>
               /\ \A w \in Workers : pc'[w] = pc[w] \/ (pc[w] \in Idle /\ pc'[w] \in Idle)
<1> USE DEF CursorInv, UserInv, TypeInv, TypeOK, Idle
<1>1. CASE MainCountFails \/ DbRefused \/ Crash \/ \E w \in Workers : RpcDown(w)
  BY <1>1 DEF MainCountFails, Fault, DbRefused, Crash, RpcDown, Terminate, tables
<1>2. CASE Start \/ MainConnect \/ MainPollInit \/ MainPollFollow \/ DbLost \/ Daemon \/ UNCHANGED vars
  BY <1>2 DEF Start, MainConnect, MainPollInit, MainPollFollow, DbLost, Daemon, vars, tables, dbVars, workerVars
<1>3. CASE MainCount \/ MainLaunch
  BY <1>3 DEF MainCount, MainLaunch, RunThread, ControlInv, dbVars, Workers
<1>4. CASE CountStep \/ Wake
  BY <1>4 DEF CountStep, CountGenesis, CountFollow, Wake, Goto, dbVars, Workers
<1> QED
  BY <1>1, <1>2, <1>3, <1>4 DEF Next, MainStep, Fault

-----------------------------------------------------------------------------
(* Two blocks of a height *)

\* Two heights below h have no row and never get one: a start puts the cursor
\* above the row count, and so above both, and it never goes down.
TwoGaps(h) ==
    \E i, j \in Nat :
        /\ i # j /\ i < h /\ j < h
        /\ i <= BlockCount /\ j <= BlockCount
        /\ i \notin StoredHeights /\ j \notin StoredHeights
        /\ On => i < Cursor /\ j < Cursor

OneRowAHeight == \A a, b \in blockTab : a.height = b.height => a = b

\* A process that runs the genesis worker began on an empty table and stores
\* at its cursor only, above all rows.  One that began higher finds two heights
\* missing below each row it has still to come to.
DoubleInv ==
    /\ On => \A b \in blockTab : Passed(b) \/ TwoGaps(b.height)
    /\ \A a, b \in blockTab : a # b /\ a.height = b.height => TwoGaps(a.height)
    /\ pc["genesis"] # "off" => On /\ RowsPassed /\ OneRowAHeight

LEMMA InitDoubleInv == Init => DoubleInv
BY DEF Init, DbInit, ForAll, Workers, DoubleInv, On

LEMMA TableFinite ==
  ChainInv => IsFiniteSet(blockTab) /\ BlockCount \in Nat
BY FS_CardinalityType DEF ChainInv, CursorInv, UserInv, TypeInv, TypeOK, DbTypeOK, BlockCount

LEMMA GapsStay ==
  ASSUME RefineInv, [Next]_vars, NEW h, TwoGaps(h)
  PROVE  TwoGaps(h)'
<1> USE DEF RefineInv
<1>1. PICK i \in Nat, j \in Nat :
        /\ i # j /\ i < h /\ j < h
        /\ i <= BlockCount /\ j <= BlockCount
        /\ i \notin StoredHeights /\ j \notin StoredHeights
        /\ On => i < Cursor /\ j < Cursor
  BY DEF TwoGaps
<1>2. AbstractStep /\ Cursor \in Nat /\ BlockCount \in Nat
  BY StepRefines, CursorType, TableFinite DEF ChainInv
<1>3. CASE On' = On /\ blockTab' = blockTab /\ Cursor' \in {Cursor, Cursor + 1}
  <2>1. BlockCount' = BlockCount /\ StoredHeights' = StoredHeights
    BY <1>3 DEF BlockCount, StoredHeights
  <2>2. On' => i < Cursor' /\ j < Cursor'
    BY <1>1, <1>2, <1>3
  <2> QED
    BY <1>1, <2>1, <2>2 DEF TwoGaps
<1>4. CASE Abstract!Boot
  <2>1. Cursor' = Abstract!FirstHeight(BlockCount) /\ blockTab' = blockTab
    BY <1>4, Zenon DEF Abstract!Boot, Abstract!Cardinality, Cardinality, BlockCount
  <2>2. BlockCount' = BlockCount /\ StoredHeights' = StoredHeights
    BY <2>1 DEF BlockCount, StoredHeights
  <2>3. i < Cursor' /\ j < Cursor'
    BY <1>1, <1>2, <2>1 DEF Abstract!FirstHeight
  <2> QED
    BY <1>1, <2>2, <2>3 DEF TwoGaps
<1>5. CASE \E b \in Served : Abstract!Store(b)
  <2>1. PICK b \in Served : Abstract!Store(b)
    BY <1>5
  <2>2. b.height = Cursor /\ blockTab' = blockTab \cup {b} /\ Cursor' = Cursor /\ On
    BY <2>1 DEF Abstract!Store, On
  <2>3. BlockCount' = BlockCount \/ BlockCount' = BlockCount + 1
    <3>1. IsFiniteSet(blockTab)
      BY TableFinite
    <3>2. Cardinality(blockTab \cup {b}) = IF b \in blockTab THEN Cardinality(blockTab) ELSE Cardinality(blockTab) + 1
      BY <3>1, FS_AddElement
    <3> QED
      BY <2>2, <3>2 DEF BlockCount
  <2>4. StoredHeights' = StoredHeights \cup {Cursor}
    BY <2>2 DEF StoredHeights
  <2>5. i # Cursor /\ j # Cursor
    BY <1>1, <1>2, <2>2
  <2>6. i <= BlockCount' /\ j <= BlockCount'
    BY <1>1, <1>2, <2>3
  <2> QED
    BY <1>1, <2>2, <2>4, <2>5, <2>6 DEF TwoGaps
<1>6. CASE Abstract!Halt
  <2>1. ~On' /\ blockTab' = blockTab
    BY <1>6 DEF Abstract!Halt, On
  <2>2. BlockCount' = BlockCount /\ StoredHeights' = StoredHeights
    BY <2>1 DEF BlockCount, StoredHeights
  <2> QED
    BY <1>1, <2>1, <2>2 DEF TwoGaps
<1> QED
  BY <1>2, <1>3, <1>4, <1>5, <1>6
     DEF AbstractStep, Abstract!Next, Abstract!Advance, Abstract!vars, On

LEMMA TwoMembers ==
  ASSUME NEW S, IsFiniteSet(S), Cardinality(S) >= 2
  PROVE  \E i, j \in S : i # j
<1>1. S # {}
  BY FS_EmptySet
<1>2. PICK i \in S : TRUE
  BY <1>1
<1>3. S # {i}
  BY FS_Singleton
<1> QED
  BY <1>2, <1>3

\* n rows leave two of the heights 0..n out when one of them is above n.
LEMMA RowAboveCount ==
  ASSUME ChainInv, NEW b \in blockTab, b.height > BlockCount
  PROVE  \E i, j \in 0..BlockCount : i # j /\ i \notin StoredHeights /\ j \notin StoredHeights
<1> DEFINE n == BlockCount
           Rest == blockTab \ {b}
           f == [x \in Rest |-> x.height]
           H == {f[x] : x \in Rest}
           G == (0..n) \ H
<1>1. n \in Nat /\ IsFiniteSet(blockTab)
  BY TableFinite
<1>2. IsFiniteSet(Rest) /\ Cardinality(Rest) = n - 1
  BY <1>1, FS_RemoveElement DEF BlockCount
<1>3. f \in Surjection(Rest, H)
  BY DEF Surjection
<1>4. IsFiniteSet(H) /\ Cardinality(H) <= n - 1
  BY <1>2, <1>3, FS_Surjection
<1>5. IsFiniteSet(0..n) /\ Cardinality(0..n) = n + 1
  BY <1>1, FS_Interval
<1>6. IsFiniteSet((0..n) \cap H) /\ Cardinality((0..n) \cap H) <= Cardinality(H)
  BY <1>4, FS_Intersection
<1>7. IsFiniteSet(G) /\ Cardinality(G) = Cardinality(0..n) - Cardinality((0..n) \cap H)
  BY <1>4, <1>5, FS_Difference
<1>8. Cardinality(G) >= 2
  BY <1>1, <1>4, <1>5, <1>6, <1>7, FS_CardinalityType
<1>9. \A i \in G : i \in 0..n /\ i \notin StoredHeights
  <2>1. b.height \notin 0..n
    BY <1>1
  <2> QED
    BY <2>1 DEF StoredHeights
<1>10. PICK i \in G, j \in G : i # j
  BY <1>7, <1>8, TwoMembers
<1> QED
  BY <1>9, <1>10

\* A worker inserts at its cursor: where there is a row already, it is one the
\* process has still to come to.
LEMMA StoresAtCursor ==
  ASSUME ChainInv, NEW w \in Workers, InsertBlock(w)
  PROVE  \/ blockTab' = blockTab
         \/ /\ blockTab' = blockTab \cup {blk[w]}
            /\ \A b \in blockTab : b.height = blk[w].height => ~Passed(b)
<1>1. Holding(w) /\ ~Inserted(w) /\ Working(w)
  BY DEF InsertBlock, Holding, HoldingPcs, Inserted, Working, Workers
<1>2. blockTab' = blockTab \/ (blk[w] # NoBlock /\ blockTab' = blockTab \cup {blk[w]})
  BY DEF InsertBlock, InsertBlockRow, dbVars
<1>3. \A v \in Workers : ~Inserted(v)
  BY <1>1, InsertedHolds, OneHolds
<1>4. blk[w] # NoBlock => blk[w].height = Cursor
  BY <1>1, WorkerAtCursor DEF ChainInv, CursorInv, BlockInv
<1>5. Cursor \in Nat
  BY CursorType DEF ChainInv
<1> QED
  BY <1>2, <1>3, <1>4, <1>5 DEF Passed

\* The genesis worker is started over an empty table only, and not taken away.
LEMMA GenesisStarts ==
  ASSUME ChainInv, [Next]_vars, pc'["genesis"] # "off"
  PROVE  \/ On /\ On' /\ pc["genesis"] # "off"
         \/ On' /\ blockTab = {} /\ blockTab' = {}
<1> USE DEF ChainInv, CursorInv, UserInv, TypeInv, TypeOK, Workers
<1>1. CASE MainCount
  <2>1. pc["genesis"] = "off" => BlockCount = 0 /\ mpc' = "pollInit" /\ blockTab' = blockTab
    BY <1>1 DEF MainCount, dbVars
  <2>2. pc["genesis"] = "off"
    BY <1>1 DEF MainCount, ControlInv
  <2>3. blockTab = {}
    BY <2>1, <2>2, TableFinite, FS_EmptySet DEF BlockCount
  <2> QED
    BY <2>1, <2>2, <2>3 DEF On
<1>2. CASE MainCountFails \/ DbRefused \/ Crash \/ \E w \in Workers : RpcDown(w)
  BY <1>2 DEF MainCountFails, DbRefused, Crash, RpcDown, Terminate, ForAll
<1>3. CASE \E w \in Workers : WorkerStep(w)
  <2>1. PICK w \in Workers : WorkerStep(w)
    BY <1>3
  <2>2. On /\ On'
    BY <2>1, WorkerMoves, WorkerAtCursor
  <2>3. pc["genesis"] # "off"
    BY <2>1 DEF WorkerStep, FetchBlock, InsertBlock, FetchTx, TxsFetched, InsertTx, InsertDetail, BlockDone,
                Return, Goto
  <2> QED
    BY <2>2, <2>3
<1>4. CASE \/ Start \/ MainConnect \/ MainPollInit \/ MainLaunch \/ MainPollFollow
           \/ CountStep \/ Wake \/ DbLost \/ Daemon \/ UNCHANGED vars
  <2>1. pc["genesis"] # "off"
    BY <1>4 DEF Start, MainConnect, MainPollInit, MainLaunch, MainPollFollow, RunThread, CountStep, CountGenesis,
                CountFollow, Wake, DbLost, Daemon, vars, workerVars, Goto
  <2>2. On
    BY <2>1 DEF ControlInv, On
  <2>3. On'
    BY <1>4, <2>2 DEF Start, MainConnect, MainPollInit, MainLaunch, MainPollFollow, CountStep, CountGenesis,
                CountFollow, Wake, DbLost, Daemon, vars, mainVars, On
  <2> QED
    BY <2>1, <2>2, <2>3
<1> QED
  BY <1>1, <1>2, <1>3, <1>4 DEF Next, MainStep, Fault

LEMMA StepRows ==
  ASSUME RefineInv, DoubleInv, [Next]_vars, On'
  PROVE  \A b \in blockTab' : Passed(b)' \/ TwoGaps(b.height)'
<1> USE DEF RefineInv
<1> SUFFICES ASSUME NEW b \in blockTab', ~Passed(b)'
             PROVE  TwoGaps(b.height)'
  OBVIOUS
<1>1. CASE On
  <2>1. b \in blockTab /\ ~Passed(b)
    BY <1>1, RowFallsBehind
  <2>2. TwoGaps(b.height)
    BY <1>1, <2>1 DEF DoubleInv
  <2> QED
    BY <2>2, GapsStay
<1>2. CASE ~On
  <2>1. Start \/ MainStep
    BY <1>2, WorkerMoves, WorkerAtCursor, OthersMove
       DEF Next, Fault, DbRefused, Crash, RpcDown, Terminate, On, ChainInv, vars, mainVars
  <2>2. Cursor' = Abstract!FirstHeight(BlockCount) /\ blockTab' = blockTab
    BY <1>2, <2>1, MainMoves DEF MainCountFails, Terminate, On, ChainInv
  <2>3. BlockCount \in Nat /\ BlockCount # 0 /\ b \in blockTab /\ b.height \in Nat
    BY <2>2, TableFinite, FS_EmptySet, RowHeights DEF BlockCount
  <2>4. Cursor' = BlockCount + 1
    BY <2>2, <2>3 DEF Abstract!FirstHeight
  <2>5. b.height > BlockCount
    BY <2>3, <2>4 DEF Passed
  <2>6. PICK i \in 0..BlockCount, j \in 0..BlockCount : i # j /\ i \notin StoredHeights /\ j \notin StoredHeights
    BY <2>3, <2>5, RowAboveCount
  <2>7. BlockCount' = BlockCount /\ StoredHeights' = StoredHeights
    BY <2>2 DEF BlockCount, StoredHeights
  <2>8. /\ i \in Nat /\ j \in Nat
        /\ i < b.height /\ j < b.height
        /\ i <= BlockCount /\ j <= BlockCount
        /\ i < Cursor' /\ j < Cursor'
    BY <2>3, <2>4, <2>5
  <2> QED
    BY <2>6, <2>7, <2>8 DEF TwoGaps
<1> QED
  BY <1>1, <1>2

\* What a step does to the table: nothing, or a worker inserts its block.
LEMMA TableStep ==
  ASSUME ChainInv, [Next]_vars
  PROVE  blockTab' = blockTab \/ \E w \in Workers : InsertBlock(w)
BY QuietSteps, WorkerMoves DEF ChainInv

LEMMA StepDoubleInv ==
  ASSUME RefineInv, DoubleInv, [Next]_vars
  PROVE  DoubleInv'
<1> USE DEF RefineInv
<1>1. On' => \A b \in blockTab' : Passed(b)' \/ TwoGaps(b.height)'
  BY StepRows
<1>2. \A h : TwoGaps(h) => TwoGaps(h)'
  BY GapsStay
<1>3. CASE blockTab' = blockTab
  <2>1. \A a, b \in blockTab' : a # b /\ a.height = b.height => TwoGaps(a.height)'
    BY <1>2, <1>3 DEF DoubleInv
  <2>2. ASSUME pc'["genesis"] # "off"
        PROVE  On' /\ RowsPassed' /\ OneRowAHeight'
    <3>1. CASE On /\ On' /\ pc["genesis"] # "off"
      BY <1>3, <3>1, KeepsRowsPassed DEF DoubleInv, OneRowAHeight
    <3>2. CASE On' /\ blockTab' = {}
      BY <3>2 DEF RowsPassed, OneRowAHeight
    <3> QED
      BY <2>2, <3>1, <3>2, GenesisStarts
  <2> QED
    BY <1>1, <2>1, <2>2 DEF DoubleInv
<1>4. ASSUME NEW w \in Workers, InsertBlock(w), blockTab' # blockTab
      PROVE  DoubleInv'
  <2>1. /\ blockTab' = blockTab \cup {blk[w]}
        /\ \A b \in blockTab : b.height = blk[w].height => ~Passed(b)
    BY <1>4, StoresAtCursor
  <2>2. On /\ On' /\ pc'["genesis"] # "off" => pc["genesis"] # "off"
    BY <1>4, WorkerMoves, WorkerAtCursor DEF WorkerStep, InsertBlock, Goto, ChainInv
  <2>3. On /\ On'
    BY <1>4, WorkerMoves, WorkerAtCursor DEF WorkerStep, ChainInv
  <2>4. \A b \in blockTab : b.height = blk[w].height => TwoGaps(blk[w].height)
    BY <2>1, <2>3 DEF DoubleInv
  <2>5. \A a, b \in blockTab' : a # b /\ a.height = b.height => TwoGaps(a.height)'
    <3>1. \A a, b \in blockTab' : a # b /\ a.height = b.height => TwoGaps(a.height)
      BY <2>1, <2>4 DEF DoubleInv
    <3> QED
      BY <1>2, <3>1
  <2>6. ASSUME pc'["genesis"] # "off"
        PROVE  On' /\ RowsPassed' /\ OneRowAHeight'
    <3>1. RowsPassed /\ OneRowAHeight
      BY <2>2, <2>3, <2>6 DEF DoubleInv
    <3>2. RowsPassed'
      BY <2>3, <3>1, KeepsRowsPassed
    <3>3. \A b \in blockTab : b.height # blk[w].height
      BY <2>1, <3>1 DEF RowsPassed
    <3> QED
      BY <2>1, <2>3, <3>1, <3>2, <3>3 DEF OneRowAHeight
  <2> QED
    BY <1>1, <2>5, <2>6 DEF DoubleInv
<1> QED
  BY <1>3, <1>4, TableStep

\* Deaths, restarts, reorganisations, error replies, lost connections: two
\* blocks of a height are only there when two heights below have none, and
\* never while a process runs that began on an empty table.
THEOREM SecondRowNeedsGaps == Spec => []SecondBlockNeedsGaps
<1> DEFINE Inv == RefineInv /\ DoubleInv
<1>1. Init => Inv
  BY InitRefineInv, InitDoubleInv
<1>2. Inv /\ [Next]_vars => Inv'
  BY StepRefineInv, StepDoubleInv
<1>3. Inv => SecondBlockNeedsGaps
  <2> SUFFICES ASSUME Inv, NEW a \in blockTab, NEW b \in blockTab, a # b, a.height = b.height
               PROVE  /\ pc["genesis"] = "off"
                      /\ \E i, j \in 0..(a.height - 1) : i # j /\ i \notin StoredHeights /\ j \notin StoredHeights
    BY DEF SecondBlockNeedsGaps
  <2>1. pc["genesis"] = "off"
    BY DEF DoubleInv, OneRowAHeight
  <2>2. TwoGaps(a.height) /\ a.height \in Nat
    BY RowHeights DEF DoubleInv, RefineInv
  <2>3. PICK i \in Nat, j \in Nat :
          i # j /\ i < a.height /\ j < a.height /\ i \notin StoredHeights /\ j \notin StoredHeights
    BY <2>2 DEF TwoGaps
  <2>4. i \in 0..(a.height - 1) /\ j \in 0..(a.height - 1)
    BY <2>2, <2>3
  <2> QED
    BY <2>1, <2>3, <2>4
<1> QED
  BY <1>1, <1>2, <1>3, PTL DEF Spec

-----------------------------------------------------------------------------
(* Deaths only: what is proved of the strict Indexer holds of the process. *)

Thms == INSTANCE IndexerProofs WITH
    Block <- Served,
    Lossy <- ~(Faults \subseteq {"crash", "rpcDown"}),
    on <- mpc \in {"pollInit", "launch", "pollFollow"},
    next <- Cursor,
    stored <- blockTab

\* The table has the shape the invariant of the strict Indexer describes, and
\* no row lies ahead of the cursor.
GapInv == Strict => Thms!IInv /\ (On => RowsPassed)

LEMMA StrictConditions == Strict => Thms!OneBlockAHeight /\ ~ ~(Faults \subseteq {"crash", "rpcDown"})
BY DEF Strict, Thms!OneBlockAHeight, Served, Block

LEMMA StepOfThms == AbstractStep => [Thms!Next]_(Thms!vars)
<1>1. Abstract!Cardinality(blockTab) = Thms!Cardinality(blockTab)
  BY Zenon DEF Abstract!Cardinality, Thms!Cardinality
<1> QED
  BY <1>1 DEF AbstractStep, Abstract!Next, Abstract!Boot, Abstract!Store, Abstract!Advance, Abstract!Halt,
         Abstract!FirstHeight, Abstract!vars, Thms!Next, Thms!Boot, Thms!Store, Thms!Advance, Thms!Halt,
         Thms!FirstHeight, Thms!vars

\* A start puts the cursor ahead of every row: past the gap, or at the next height.
LEMMA BootAhead ==
  ASSUME ChainInv, Thms!IInv, Cursor' = Abstract!FirstHeight(BlockCount), blockTab' = blockTab
  PROVE  RowsPassed'
<1>1. PICK t \in Nat, g \in Nat : Thms!Shape(t, g)
  BY DEF Thms!IInv
<1>2. Thms!Cardinality(blockTab) = BlockCount
  BY Zenon DEF Thms!Cardinality, Cardinality, BlockCount
<1>3. BlockCount = IF g = t THEN t ELSE t - 1
  BY <1>1, <1>2 DEF Thms!Shape
<1>4. \A b \in blockTab : b.height \in (0..(t - 1)) \ {g}
  BY <1>1 DEF Thms!Shape, Thms!StoredHeights
<1>5. g = t \/ g < t - 1
  BY <1>1 DEF Thms!Shape
<1>6. \A b \in blockTab : b.height < Cursor'
  BY <1>3, <1>4, <1>5 DEF Abstract!FirstHeight
<1> QED
  BY <1>6 DEF RowsPassed, Passed

LEMMA InitGapInv == Init => GapInv
<1>1. Init => Thms!Init
  BY DEF Init, DbInit, Thms!Init, Cursor
<1> QED
  BY <1>1, Thms!InitIInv DEF GapInv, Init, On

LEMMA StepGapInv ==
  ASSUME RefineInv, GapInv, [Next]_vars
  PROVE  GapInv'
<1> SUFFICES ASSUME Strict PROVE Thms!IInv' /\ (On' => RowsPassed')
  BY DEF GapInv, Strict
<1>1. Thms!IInv'
  BY StepRefines, StepOfThms, StrictConditions, Thms!StepIInv DEF GapInv
<1>2. CASE On /\ On'
  BY <1>1, <1>2, KeepsRowsPassed DEF GapInv, RefineInv
<1>3. CASE ~On /\ On'
  <2>1. Start \/ MainStep
    BY <1>3, WorkerMoves, WorkerAtCursor, OthersMove
       DEF Next, Fault, DbRefused, Crash, RpcDown, Terminate, On, RefineInv, ChainInv, vars, mainVars
  <2>2. Cursor' = Abstract!FirstHeight(BlockCount) /\ blockTab' = blockTab
    BY <1>3, <2>1, MainMoves DEF MainCountFails, Terminate, On, RefineInv, ChainInv
  <2> QED
    BY <1>1, <2>2, BootAhead DEF GapInv, RefineInv
<1> QED
  BY <1>1, <1>2, <1>3

\* Killed any number of times between any two statements, the process leaves out
\* at most one height: the theorem about Indexer, carried over the refinement.
THEOREM ProcessLeavesOneGap ==
  ASSUME Faults \subseteq {"crash", "rpcDown"}
  PROVE  Spec => []AtMostOneGap
<1> DEFINE Inv == RefineInv /\ GapInv
<1>1. Init => Inv
  BY InitRefineInv, InitGapInv
<1>2. Inv /\ [Next]_vars => Inv'
  BY StepRefineInv, StepGapInv
<1>3. Inv => AtMostOneGap
  <2> SUFFICES ASSUME Inv PROVE AtMostOneGap
    OBVIOUS
  <2>1. Thms!AtMostOneGap
    BY Thms!IInvImpliesAtMostOneGap DEF GapInv, Strict
  <2> QED
    BY <2>1 DEF AtMostOneGap, Abstract!AtMostOneGap, Abstract!Gaps, Abstract!StoredHeights,
                Thms!AtMostOneGap, Thms!Gaps, Thms!StoredHeights
<1> QED
  BY <1>1, <1>2, <1>3, PTL DEF Spec

-----------------------------------------------------------------------------
(* The tables *)

LEMMA RangeEmpty == Range(<<>>) = {}
BY DEF Range

LEMMA RangeHeadTail ==
  ASSUME NEW S, NEW s \in Seq(S), s # <<>>
  PROVE  Range(s) = {Head(s)} \cup Range(Tail(s))
<1>1. Range(Tail(s)) \subseteq Range(s) /\ Head(s) \in Range(s)
  BY DEF Range
<1>2. ASSUME NEW i \in DOMAIN s, i # 1
      PROVE  s[i] \in Range(Tail(s))
  <2>1. i - 1 \in DOMAIN Tail(s) /\ Tail(s)[i - 1] = s[i]
    BY <1>2
  <2> QED
    BY <2>1 DEF Range
<1> QED
  BY <1>1, <1>2 DEF Range

LEMMA RangeAppend ==
  ASSUME NEW S, NEW s \in Seq(S), NEW x \in S
  PROVE  Range(Append(s, x)) = Range(s) \cup {x}
<1>1. Range(s) \subseteq Range(Append(s, x)) /\ x \in Range(Append(s, x))
  BY DEF Range
<1>2. ASSUME NEW i \in DOMAIN Append(s, x)
      PROVE  Append(s, x)[i] \in Range(s) \cup {x}
  BY DEF Range
<1> QED
  BY <1>1, <1>2 DEF Range

-----------------------------------------------------------------------------
(* A transaction's row comes after its block's. *)

\* The transactions of the block a worker holds.
TxOf(w) == IF blk[w] = NoBlock THEN {} ELSE TxIds(blk[w])

\* What a worker has still to fetch and to insert is of the block it holds.
WorkInv ==
    \A w \in Workers : Holding(w) => Range(todo[w]) \cup Range(vtx[w]) \subseteq TxOf(w)

LEMMA HoldingBusy ==
  /\ Terminate => \A w \in Workers : ~Holding(w)'
  /\ \A w \in Workers : Holding(w) => pc[w] \notin Idle
  /\ \A w \in Workers : pc'[w] \in Idle => ~Holding(w)'
<1>1. Terminate => \A w \in Workers : ~Holding(w)'
  BY DEF Terminate, ForAll, Holding, HoldingPcs
<1>2. \A w \in Workers : Holding(w) => pc[w] \notin Idle
  BY DEF Holding, HoldingPcs, Idle
<1>3. \A w \in Workers : pc'[w] \in Idle => ~Holding(w)'
  BY DEF Holding, HoldingPcs, Idle
<1> QED
  BY <1>1, <1>2, <1>3

\* A step of a worker leaves the other worker's work alone.
LEMMA OtherWorker ==
  ASSUME TypeOK, NEW w \in Workers, WorkerStep(w), NEW v \in Workers, v # w
  PROVE  pc'[v] = pc[v] /\ blk'[v] = blk[v] /\ todo'[v] = todo[v] /\ vtx'[v] = vtx[v]
BY DEF WorkerStep, FetchBlock, InsertBlock, FetchTx, TxsFetched, InsertTx, InsertDetail, BlockDone, Return, Goto, TypeOK

LEMMA FetchBlockWork ==
  ASSUME RefineInv, NEW w \in Workers, FetchBlock(w)
  PROVE  /\ vtx'[w] = <<>>
         /\ \/ blk'[w] = NoBlock /\ todo'[w] = <<>> /\ TxOf(w)' = {}
            \/ /\ cur[w] <= best /\ BlockAt(cur[w]) \in Served
               /\ blk'[w] = BlockAt(cur[w]) /\ todo'[w] = TxsOf[BlockAt(cur[w])]
               /\ TxOf(w)' = Range(todo'[w])
<1> USE DEF RefineInv, ChainInv, CursorInv, UserInv, TypeInv, TypeOK
<1>1. vtx'[w] = <<>>
  BY DEF FetchBlock
<1>2. CASE blk'[w] = NoBlock /\ todo'[w] = <<>>
  BY <1>1, <1>2 DEF TxOf
<1>3. CASE cur[w] <= best /\ blk'[w] = BlockAt(cur[w]) /\ todo'[w] = TxsOf[BlockAt(cur[w])]
  <2>1. BlockAt(cur[w]) \in Served /\ BlockAt(cur[w]) # NoBlock
    BY <1>3, BlockAtServed, NoBlockAssumption DEF BlockInv, Served
  <2>2. TxOf(w)' = Range(todo'[w])
    BY <1>3, <2>1 DEF TxOf, TxIds, Range
  <2> QED
    BY <1>1, <1>3, <2>1, <2>2
<1> QED
  BY <1>2, <1>3 DEF FetchBlock

LEMMA InitWorkInv == Init => WorkInv
BY DEF Init, ForAll, WorkInv, Holding, HoldingPcs, Workers

LEMMA StepWorkInv ==
  ASSUME RefineInv, WorkInv, [Next]_vars
  PROVE  WorkInv'
<1> USE DEF RefineInv, ChainInv, CursorInv, UserInv, TypeInv, TypeOK
<1>1. CASE ~\E w \in Workers : WorkerStep(w)
  <2>1. CASE Terminate
    BY <2>1, HoldingBusy DEF WorkInv
  <2>2. CASE /\ UNCHANGED <<blk, todo, vtx>>
             /\ \A w \in Workers : pc'[w] = pc[w] \/ (pc[w] \in Idle /\ pc'[w] \in Idle)
    <3>1. \A w \in Workers : Holding(w)' => Holding(w)
      BY <2>2, HoldingBusy DEF Holding, HoldingPcs
    <3>2. \A w \in Workers : TxOf(w)' = TxOf(w)
      BY <2>2 DEF TxOf
    <3> QED
      BY <2>2, <3>1, <3>2 DEF WorkInv
  <2> QED
    BY <1>1, <2>1, <2>2, QuietSteps
<1>2. CASE \E w \in Workers : WorkerStep(w)
  <2>1. PICK w \in Workers : WorkerStep(w)
    BY <1>2
  <2>0. ASSUME NEW v \in Workers, v # w, Holding(v)'
        PROVE  (Range(todo[v]) \cup Range(vtx[v]) \subseteq TxOf(v))'
    <3>1. pc'[v] = pc[v] /\ blk'[v] = blk[v] /\ todo'[v] = todo[v] /\ vtx'[v] = vtx[v]
      BY <2>0, <2>1, OtherWorker
    <3>2. Holding(v) /\ TxOf(v)' = TxOf(v)
      BY <2>0, <3>1 DEF Holding, TxOf
    <3> QED
      BY <3>1, <3>2 DEF WorkInv
  <2>2. SUFFICES ASSUME Holding(w)'
                 PROVE  Range(todo'[w]) \cup Range(vtx'[w]) \subseteq TxOf(w)'
    BY <2>0 DEF WorkInv
  <2>3. CASE FetchBlock(w)
    BY <2>3, FetchBlockWork, RangeEmpty
  <2>4. CASE ~FetchBlock(w)
    <3>1. Holding(w) /\ blk'[w] = blk[w]
      BY <2>1, <2>2, <2>4 DEF WorkerStep, InsertBlock, FetchTx, TxsFetched, InsertTx, InsertDetail, BlockDone,
                              Return, Goto, Holding, HoldingPcs, Workers
    <3>2. TxOf(w)' = TxOf(w) /\ Range(todo[w]) \cup Range(vtx[w]) \subseteq TxOf(w)
      BY <3>1 DEF WorkInv, TxOf
    <3>3. CASE FetchTx(w)
      <4>1. todo[w] # <<>> /\ todo'[w] = Tail(todo[w]) /\ Head(todo[w]) \in Tx
        BY <3>3 DEF FetchTx
      <4>2. vtx'[w] = vtx[w] \/ vtx'[w] = Append(vtx[w], Head(todo[w]))
        BY <3>3 DEF FetchTx
      <4>3. Range(todo[w]) = {Head(todo[w])} \cup Range(todo'[w])
        BY <4>1, RangeHeadTail
      <4>4. Range(Append(vtx[w], Head(todo[w]))) = Range(vtx[w]) \cup {Head(todo[w])}
        BY <4>1, RangeAppend
      <4> QED
        BY <3>2, <4>2, <4>3, <4>4
    <3>4. CASE InsertTx(w) \/ InsertDetail(w)
      <4>1. todo'[w] = todo[w] /\ (vtx'[w] = vtx[w] \/ (vtx[w] # <<>> /\ vtx'[w] = Tail(vtx[w])))
        BY <3>4 DEF InsertTx, InsertDetail, DetailHasTx
      <4> QED
        BY <3>2, <4>1, RangeHeadTail
    <3>5. CASE ~FetchTx(w) /\ ~InsertTx(w) /\ ~InsertDetail(w)
      BY <2>1, <2>4, <3>2, <3>5 DEF WorkerStep, InsertBlock, TxsFetched, BlockDone, Return
    <3> QED
      BY <3>3, <3>4, <3>5
  <2> QED
    BY <2>3, <2>4
<1> QED
  BY <1>1, <1>2

\* The rows a worker's step adds are those of transactions of its block.
LEMMA TxRowsAdded ==
  ASSUME RefineInv, WorkInv, NEW w \in Workers, WorkerStep(w)
  PROVE  /\ blockTab \subseteq blockTab' /\ txTab \subseteq txTab' /\ detTab \subseteq detTab'
         /\ txTab' # txTab => InsertTx(w) /\ Inserted(w) /\ blk[w] # NoBlock /\ \E t \in TxIds(blk[w]) : txTab' = txTab \cup {t}
<1> USE DEF RefineInv, ChainInv, CursorInv, UserInv, TypeInv, TypeOK
<1>1. CASE InsertTx(w)
  <2>1. Holding(w) /\ Inserted(w) /\ vtx[w] # <<>>
    BY <1>1 DEF InsertTx, Holding, HoldingPcs, Inserted
  <2>2. Head(vtx[w]) \in TxOf(w)
    BY <2>1, RangeHeadTail DEF WorkInv
  <2> QED
    BY <1>1, <2>1, <2>2 DEF InsertTx, TxRowInserted, TxRowRefused, TxRowCountFailed, tables, TxOf
<1>2. CASE InsertBlock(w) \/ InsertDetail(w)
  BY <1>2 DEF InsertBlock, InsertBlockRow, InsertDetail, InsertDetailRows, dbVars
<1>3. CASE FetchBlock(w) \/ FetchTx(w) \/ TxsFetched(w) \/ BlockDone(w) \/ Return(w)
  BY <1>3 DEF FetchBlock, FetchTx, TxsFetched, BlockDone, Return, dbVars
<1> QED
  BY <1>1, <1>2, <1>3 DEF WorkerStep

LEMMA StepTxAfterBlock ==
  ASSUME RefineInv, WorkInv, DbSound, TxAfterBlock, [Next]_vars
  PROVE  TxAfterBlock'
<1>1. CASE \E w \in Workers : WorkerStep(w)
  <2>1. PICK w \in Workers : WorkerStep(w)
    BY <1>1
  <2>2. CASE txTab' = txTab
    BY <2>1, <2>2, TxRowsAdded DEF TxAfterBlock, TxIds
  <2>3. CASE txTab' # txTab
    <3>1. blk[w] \in blockTab
      BY <2>1, <2>3, TxRowsAdded DEF RefineInv, StrictInv
    <3> QED
      BY <2>1, <2>3, <3>1, TxRowsAdded DEF TxAfterBlock, TxIds
  <2> QED
    BY <2>2, <2>3
<1>2. CASE ~\E w \in Workers : WorkerStep(w)
  BY <1>2, QuietSteps DEF TxAfterBlock, TxIds, RefineInv, ChainInv
<1> QED
  BY <1>1, <1>2

\* While no statement fails, and whatever else does, every transaction's row has
\* the row of a block that holds it.
THEOREM TxRowsFollowBlocks ==
  ASSUME Faults \cap {"dbError", "dbDown"} = {}
  PROVE  Spec => []TxAfterBlock
<1> DEFINE Inv == RefineInv /\ WorkInv /\ TxAfterBlock
<1>1. Init => Inv
  BY InitRefineInv, InitWorkInv DEF Init, DbInit, TxAfterBlock
<1>2. Inv /\ [Next]_vars => Inv'
  BY StepRefineInv, StepWorkInv, StepTxAfterBlock DEF DbSound
<1>3. Inv => TxAfterBlock
  OBVIOUS
<1> QED
  BY <1>1, <1>2, <1>3, PTL DEF Spec

-----------------------------------------------------------------------------
(* Completeness: how much of a block is in the tables when its height is   *)
(* passed: all of it when nothing fails; and when the process is killed    *)
(* again and again, all but one block for each time.                       *)

\* All the transactions of the worker's block have been asked for.
Fetched(w) ==
    pc[w] \in {"insertTx", "detail", "return"} \cup (IF w = "follow" THEN {"insertBlock"} ELSE {})

\* No transaction of the worker's block is lost on the way into the tables: it
\* is to be fetched, to be inserted, or there with its details; and the details
\* of one transaction are missing while the worker is at them.
Complete(w) ==
    /\ Fetched(w) => todo[w] = <<>>
    /\ pc[w] = "return" => vtx[w] = <<>>
    /\ pc[w] = "detail" => Head(vtx[w]) \in txTab
    /\ TxOf(w) \subseteq Range(todo[w]) \cup Range(vtx[w]) \cup txTab
    /\ \A t \in TxOf(w) \cap txTab : t \in detTab \/ (pc[w] = "detail" /\ t = Head(vtx[w]))

CompleteInv == \A w \in Workers : Holding(w) => Complete(w)

\* A block is asked for before any of its transactions has been left half
\* inserted.
Fresh ==
    \A w \in Workers : pc[w] = "block" /\ cur[w] <= best =>
        TxIds(BlockAt(cur[w])) \cap txTab \subseteq detTab

LEMMA InitCompleteInv == Init => CompleteInv
BY DEF Init, ForAll, CompleteInv, Holding, HoldingPcs, Workers

\* Deaths alone: the connection of a worker at work executes what it is given.
LEMMA StrictConnection ==
  ASSUME RefineInv, Strict, mpc \notin {"down", "connect"}
  PROVE  CanExecute /\ ~MayFail
BY DEF RefineInv, ChainInv, CursorInv, UserInv, TypeInv, TypeOK, DbTypeOK, LoginInv, StrictInv, DbSound, Strict,
       CanExecute, MayFail, Logins

LEMMA FetchBlockComplete ==
  ASSUME RefineInv, Fresh, Strict, NEW w \in Workers, FetchBlock(w)
  PROVE  Complete(w)'
<1> USE DEF RefineInv, ChainInv, CursorInv, UserInv, TypeInv, TypeOK
<1>1. pc'[w] \in {"tx", "insertBlock"} /\ (w = "follow" => pc'[w] = "tx") /\ UNCHANGED <<txTab, detTab>>
  BY DEF FetchBlock, Goto, dbVars, Workers
<1>2. Holding(w)' /\ pc[w] = "block"
  BY <1>1 DEF Holding, HoldingPcs, FetchBlock
<1>3. blk'[w] # NoBlock
  BY <1>2, WorkerStrict DEF WorkerStep
<1>4. /\ cur[w] <= best /\ blk'[w] = BlockAt(cur[w]) /\ TxOf(w)' = Range(todo'[w])
  BY <1>3, FetchBlockWork
<1>5. TxOf(w)' = TxIds(BlockAt(cur[w]))
  BY <1>3, <1>4 DEF TxOf
<1>6. TxOf(w)' \cap txTab' \subseteq detTab'
  BY <1>1, <1>2, <1>4, <1>5 DEF Fresh
<1> QED
  BY <1>1, <1>4, <1>6 DEF Complete, Fetched

\* The daemon knows the transactions of a block it has just given out.
LEMMA FetchTxComplete ==
  ASSUME RefineInv, WorkInv, CompleteInv, Strict, NEW w \in Workers, FetchTx(w)
  PROVE  Complete(w)'
<1> USE DEF RefineInv, ChainInv, CursorInv, UserInv, TypeInv, TypeOK
<1>1. /\ pc[w] = "tx" /\ pc'[w] = "tx" /\ Holding(w) /\ Complete(w)
      /\ UNCHANGED <<txTab, detTab, blk>>
  BY DEF FetchTx, Holding, HoldingPcs, dbVars, CompleteInv
<1>2. todo[w] # <<>> /\ todo'[w] = Tail(todo[w]) /\ Head(todo[w]) \in Tx
  BY DEF FetchTx
<1>3. Range(todo[w]) = {Head(todo[w])} \cup Range(todo'[w])
  BY <1>2, RangeHeadTail
<1>4. TxKnown(Head(todo[w]))
  <2>1. blk[w] \in Served /\ blk[w].height <= best /\ Head(todo[w]) \in TxIds(blk[w])
    BY <1>1, <1>3 DEF StrictInv, BlockInv, ReachInv, NoReorg, Strict, WorkInv, TxOf
  <2>2. blk[w] = BlockAt(blk[w].height)
    BY <2>1 DEF Served, Block, BlockAt, BlockInv, Strict
  <2> QED
    BY <2>1, <2>2 DEF TxKnown, OnChain, Served
<1>5. vtx'[w] = Append(vtx[w], Head(todo[w]))
  BY <1>4 DEF FetchTx, Strict
<1>6. Range(vtx'[w]) = Range(vtx[w]) \cup {Head(todo[w])}
  BY <1>2, <1>5, RangeAppend
<1>7. TxOf(w)' = TxOf(w)
  BY <1>1 DEF TxOf
<1> QED
  BY <1>1, <1>3, <1>6, <1>7 DEF Complete, Fetched

LEMMA InsertComplete ==
  ASSUME RefineInv, CompleteInv, Strict, NEW w \in Workers, InsertTx(w) \/ InsertDetail(w)
  PROVE  Complete(w)'
<1> USE DEF RefineInv, ChainInv, CursorInv, UserInv, TypeInv, TypeOK
<1>1. CanExecute /\ ~MayFail
  BY StrictConnection, WorkingAlone DEF InsertTx, InsertDetail, Working
<1>2. Holding(w) /\ Complete(w) /\ TxOf(w)' = TxOf(w) /\ todo'[w] = todo[w] /\ vtx[w] # <<>>
  BY DEF InsertTx, InsertDetail, Holding, HoldingPcs, CompleteInv, TxOf, DetailHasTx
<1>3. Range(vtx[w]) = {Head(vtx[w])} \cup Range(Tail(vtx[w]))
  BY <1>2, RangeHeadTail
<1>4. CASE InsertTx(w)
  <2>1. \/ /\ TxRowInserted(Head(vtx[w])) /\ pc'[w] = "detail" /\ vtx'[w] = vtx[w]
        \/ /\ Head(vtx[w]) \in txTab /\ UNCHANGED tables
           /\ pc'[w] = "insertTx" /\ vtx'[w] = Tail(vtx[w])
    BY <1>1, <1>4 DEF InsertTx, TxRowRefused, TxRowCountFailed, Goto
  <2>2. pc[w] = "insertTx"
    BY <1>4 DEF InsertTx
  <2> QED
    BY <1>2, <1>3, <2>1, <2>2 DEF Complete, Fetched, TxRowInserted, tables
<1>5. CASE InsertDetail(w)
  <2>1. /\ pc[w] = "detail" /\ pc'[w] = "insertTx" /\ vtx'[w] = Tail(vtx[w])
        /\ txTab' = txTab /\ detTab' = detTab \cup {Head(vtx[w])}
    BY <1>1, <1>5 DEF InsertDetail, InsertDetailRows, Goto
  <2> QED
    BY <1>2, <1>3, <2>1 DEF Complete, Fetched
<1> QED
  BY <1>4, <1>5

\* The worker that is at work is the only one that holds a block.
LEMMA OtherHoldsNothing ==
  ASSUME ChainInv, NEW w \in Workers, WorkerStep(w), NEW v \in Workers, v # w
  PROVE  ~Holding(v) /\ ~Holding(v)'
<1>1. Working(w) /\ pc'[v] = pc[v]
  BY WorkerMoves, OtherWorker DEF ChainInv, CursorInv, UserInv, TypeInv
<1>2. ~Holding(v)
  BY <1>1, HoldingWorks, OneHolds
<1> QED
  BY <1>1, <1>2 DEF Holding

LEMMA StepCompleteInv ==
  ASSUME RefineInv, WorkInv, CompleteInv, Fresh, Strict, [Next]_vars
  PROVE  CompleteInv'
<1> USE DEF RefineInv, ChainInv, CursorInv, UserInv, TypeInv, TypeOK
<1>1. CASE \E w \in Workers : WorkerStep(w)
  <2>1. PICK w \in Workers : WorkerStep(w)
    BY <1>1
  <2>2. SUFFICES ASSUME Holding(w)' PROVE Complete(w)'
    BY <2>1, OtherHoldsNothing DEF CompleteInv
  <2>3. CASE FetchBlock(w) \/ FetchTx(w) \/ InsertTx(w) \/ InsertDetail(w)
    BY <2>3, FetchBlockComplete, FetchTxComplete, InsertComplete
  <2>4. CASE InsertBlock(w) \/ TxsFetched(w) \/ BlockDone(w)
    <3>1. Holding(w) /\ Complete(w) /\ TxOf(w)' = TxOf(w) /\ UNCHANGED <<todo, vtx, txTab, detTab>>
      <4>1. UNCHANGED <<todo, vtx, txTab, detTab, blk>>
        BY <2>4 DEF InsertBlock, InsertBlockRow, TxsFetched, BlockDone, dbVars
      <4>2. Holding(w)
        BY <2>4 DEF InsertBlock, TxsFetched, BlockDone, Holding, HoldingPcs
      <4> QED
        BY <4>1, <4>2 DEF CompleteInv, TxOf
    <3>2. /\ Fetched(w)' => todo[w] = <<>>
          /\ pc'[w] = "return" => vtx[w] = <<>>
          /\ pc'[w] # "detail" /\ pc[w] # "detail"
      <4>1. CASE InsertBlock(w)
        BY <3>1, <4>1 DEF InsertBlock, Goto, Complete, Fetched, Workers
      <4>2. CASE TxsFetched(w)
        BY <4>2 DEF TxsFetched, AfterTxs, Goto
      <4>3. CASE BlockDone(w)
        BY <2>2, <3>1, <4>3 DEF BlockDone, Goto, Complete, Fetched, Holding, HoldingPcs
      <4> QED
        BY <2>4, <4>1, <4>2, <4>3
    <3> QED
      BY <3>1, <3>2 DEF Complete
  <2>5. CASE Return(w)
    BY <2>2, <2>5 DEF Return, Goto, Holding, HoldingPcs
  <2> QED
    BY <2>1, <2>3, <2>4, <2>5 DEF WorkerStep
<1>2. CASE ~\E w \in Workers : WorkerStep(w)
  <2>1. CASE Terminate
    BY <2>1, HoldingBusy DEF CompleteInv
  <2>2. CASE /\ UNCHANGED <<blk, todo, vtx, txTab, detTab>>
             /\ \A w \in Workers : pc'[w] = pc[w] \/ (pc[w] \in Idle /\ pc'[w] \in Idle)
    <3> SUFFICES ASSUME NEW w \in Workers, Holding(w)' PROVE Complete(w)'
      BY DEF CompleteInv
    <3>1. pc'[w] = pc[w]
      BY <2>2, HoldingBusy
    <3>2. Complete(w) /\ TxOf(w)' = TxOf(w)
      BY <2>2, <3>1 DEF Holding, CompleteInv, TxOf
    <3> QED
      BY <2>2, <3>1, <3>2 DEF Complete, Fetched
  <2> QED
    BY <1>2, <2>1, <2>2, QuietSteps
<1> QED
  BY <1>1, <1>2

\* When a worker is through with a block, the whole block is there.
LEMMA PassedIndexed ==
  ASSUME RefineInv, CompleteInv, Strict, NEW w \in Workers, BlockDone(w) \/ (w = "follow" /\ Return(w))
  PROVE  Indexed(blk[w])
<1>1. /\ Holding(w) /\ Inserted(w) /\ pc[w] # "detail" /\ Fetched(w)
      /\ pc[w] = "return" \/ vtx[w] = <<>>
  BY DEF BlockDone, Return, Holding, HoldingPcs, Inserted, Fetched, Workers
<1>2. Complete(w) /\ blk[w] # NoBlock /\ blk[w] \in blockTab
  BY <1>1 DEF CompleteInv, RefineInv, StrictInv, Strict, DbSound
<1>3. Range(todo[w]) = {} /\ Range(vtx[w]) = {}
  BY <1>1, <1>2, RangeEmpty DEF Complete
<1> QED
  BY <1>1, <1>2, <1>3 DEF Complete, TxOf, Indexed

\* Whatever is in the tables stays there.
LEMMA TablesGrow ==
  ASSUME RefineInv, WorkInv, [Next]_vars
  PROVE  blockTab \subseteq blockTab' /\ txTab \subseteq txTab' /\ detTab \subseteq detTab'
BY QuietSteps, TxRowsAdded DEF RefineInv, ChainInv

-----------------------------------------------------------------------------
(* Nothing fails *)

\* The first life of a process: its table was empty when it counted, and its
\* connection is the one it made.
FirstLifeInv ==
    halts = 0 => conn # "lost" /\ (~On => blockTab = {})

LEMMA InitFirstLife == Init => FirstLifeInv
BY DEF Init, DbInit, FirstLifeInv

LEMMA StepFirstLife ==
  ASSUME ChainInv, FirstLifeInv, [Next]_vars
  PROVE  FirstLifeInv'
<1> SUFFICES ASSUME halts' = 0 PROVE FirstLifeInv'
  BY DEF FirstLifeInv
<1> USE DEF ChainInv
<1>1. halts = 0
  <2>1. halts' = halts \/ halts' = halts + 1
    BY DEF Next, Start, MainStep, MainConnect, MainCount, MainCountFails, MainPollInit, MainLaunch, MainPollFollow,
           CountStep, CountGenesis, CountFollow, WorkerStep, FetchBlock, InsertBlock, FetchTx, TxsFetched, InsertTx,
           InsertDetail, BlockDone, Return, Wake, Fault, DbRefused, Crash, DbLost, RpcDown, CanHalt, Daemon,
           vars, mainVars
  <2> QED
    BY <2>1 DEF CursorInv, UserInv, TypeInv, TypeOK
<1>2. CASE \E w \in Workers : WorkerStep(w)
  <2>1. PICK w \in Workers : WorkerStep(w)
    BY <1>2
  <2>2. conn' # "lost"
    BY <1>1, <2>1 DEF FirstLifeInv, WorkerStep, FetchBlock, InsertBlock, FetchTx, TxsFetched, InsertTx, InsertDetail,
                      BlockDone, Return, InitDb, dbVars
  <2> QED
    BY <2>1, <2>2, WorkerMoves DEF FirstLifeInv
<1>3. CASE Start \/ MainStep
  <2>1. ~MainCountFails
    BY <1>1 DEF MainCountFails, CanHalt, CanExecute, Logins, FirstLifeInv, CursorInv, UserInv, LoginInv,
                TypeInv, TypeOK, DbTypeOK
  <2>2. conn' # "lost" /\ blockTab' = blockTab
    BY <1>1, <1>3, <2>1 DEF Start, MainStep, MainConnect, MainCount, MainPollInit, MainLaunch, MainPollFollow,
                InitDb, dbVars, tables, FirstLifeInv
  <2>3. On => On'
    BY <1>3, <2>1, MainMoves
  <2> QED
    BY <1>1, <2>2, <2>3 DEF FirstLifeInv
<1>4. CASE CountStep \/ Wake \/ Daemon \/ UNCHANGED vars
  <2>1. UNCHANGED <<On, blockTab, conn>>
    BY <1>4 DEF CountStep, CountGenesis, CountFollow, Wake, Daemon, vars, mainVars, dbVars, On
  <2> QED
    BY <1>1, <2>1 DEF FirstLifeInv
<1>5. CASE DbLost \/ DbRefused \/ Crash \/ \E w \in Workers : RpcDown(w)
  BY <1>1, <1>5 DEF DbLost, DbRefused, Crash, RpcDown, CanHalt
<1> QED
  BY <1>2, <1>3, <1>4, <1>5 DEF Next, Fault

\* Details are missing only of the transaction a worker is at.
AllDetailed ==
    \A t \in txTab : t \in detTab \/ \E w \in Workers : pc[w] = "detail" /\ t = Head(vtx[w])

CleanInv == halts = 0 /\ AllDetailed /\ IndexedBelowCursor

\* Without faults the process has no end, and no fault is counted.
LEMMA NoHalt ==
  ASSUME RefineInv, Faults = {}, [Next]_vars
  PROVE  ~MainCountFails /\ ~Fault /\ halts' = halts
<1>1. ~MainCountFails
  BY StrictConnection DEF MainCountFails, Strict
<1>2. ~Fault
  BY DEF Fault, DbRefused, Crash, DbLost, RpcDown
<1> QED
  BY <1>1, <1>2
     DEF Next, Start, MainStep, MainConnect, MainCount, MainPollInit, MainLaunch, MainPollFollow, CountStep,
         CountGenesis, CountFollow, WorkerStep, FetchBlock, InsertBlock, FetchTx, TxsFetched, InsertTx,
         InsertDetail, BlockDone, Return, Wake, Daemon, vars, mainVars

LEMMA StepAllDetailed ==
  ASSUME RefineInv, WorkInv, AllDetailed, Faults = {}, [Next]_vars
  PROVE  AllDetailed'
<1> USE DEF RefineInv, ChainInv, CursorInv, UserInv, TypeInv, TypeOK
<1>1. CASE \E w \in Workers : WorkerStep(w)
  <2>1. PICK w \in Workers : WorkerStep(w)
    BY <1>1
  <2>2. \A v \in Workers : pc[v] = "detail" => v = w
    BY <2>1, OtherHoldsNothing DEF Holding, HoldingPcs
  <2>3. CASE InsertDetail(w)
    <3>1. CanExecute /\ ~MayFail
      BY <2>3, StrictConnection, WorkingAlone DEF InsertDetail, Working, Strict
    <3>2. txTab' = txTab /\ detTab' = detTab \cup {Head(vtx[w])}
      BY <2>3, <3>1 DEF InsertDetail, InsertDetailRows
    <3> QED
      BY <2>2, <3>2 DEF AllDetailed
  <2>4. CASE ~InsertDetail(w)
    <3>1. txTab \subseteq detTab \/ pc[w] = "detail"
      BY <2>2 DEF AllDetailed
    <3>2. pc[w] # "detail"
      BY <2>1, <2>4 DEF WorkerStep, FetchBlock, InsertBlock, FetchTx, TxsFetched, InsertTx, BlockDone, Return
    <3>3. CASE InsertTx(w) /\ TxRowInserted(Head(vtx[w])) /\ pc'[w] = "detail" /\ vtx' = vtx
      BY <3>1, <3>2, <3>3 DEF AllDetailed, TxRowInserted
    <3>4. CASE InsertTx(w) /\ ~(TxRowInserted(Head(vtx[w])) /\ pc'[w] = "detail" /\ vtx' = vtx)
      <4>1. ~MayFail
        BY <3>4, StrictConnection, WorkingAlone DEF InsertTx, Working, Strict
      <4>2. UNCHANGED tables
        BY <3>4, <4>1 DEF InsertTx, TxRowRefused, TxRowCountFailed, Goto
      <4> QED
        BY <3>1, <3>2, <4>2 DEF AllDetailed, tables
    <3>5. CASE ~InsertTx(w)
      <4>1. txTab' = txTab /\ detTab' = detTab
        BY <2>1, <2>4, <3>5 DEF WorkerStep, FetchBlock, InsertBlock, InsertBlockRow, FetchTx, TxsFetched, BlockDone,
                                Return, dbVars
      <4> QED
        BY <3>1, <3>2, <4>1 DEF AllDetailed
    <3> QED
      BY <3>3, <3>4, <3>5
  <2> QED
    BY <2>3, <2>4
<1>2. CASE ~\E w \in Workers : WorkerStep(w)
  <2>1. /\ UNCHANGED <<txTab, detTab, vtx>>
        /\ \A w \in Workers : pc'[w] = pc[w] \/ (pc[w] \in Idle /\ pc'[w] \in Idle)
    BY <1>2, NoHalt, QuietSteps
  <2> QED
    BY <2>1 DEF AllDetailed, Idle
<1> QED
  BY <1>1, <1>2

LEMMA CleanFresh == CursorInv /\ AllDetailed => Fresh
<1> SUFFICES ASSUME CursorInv, AllDetailed, NEW w \in Workers, pc[w] = "block"
             PROVE  txTab \subseteq detTab
  BY DEF Fresh
<1>1. \A v \in Workers : pc[v] = "detail" => v = w
  BY WorkingAlone DEF CursorInv, Working, Workers
<1> QED
  BY <1>1 DEF AllDetailed

LEMMA StepBelowCursor ==
  ASSUME RefineInv, WorkInv, CompleteInv, FirstLifeInv, CleanInv, Faults = {}, [Next]_vars
  PROVE  IndexedBelowCursor'
<1> USE DEF RefineInv, ChainInv, CursorInv
<1>1. Cursor \in Nat /\ \A h : BlockAt(h)' = BlockAt(h)
  <2>1. branch = MainBranch /\ branch' = MainBranch
    <3>1. CursorInv'
      BY StepCursorInv
    <3> QED
      BY <3>1 DEF BlockInv
  <2> QED
    BY <2>1, CursorType DEF BlockAt
<1>2. \A h : Indexed(BlockAt(h)) => Indexed(BlockAt(h))'
  BY <1>1, TablesGrow DEF Indexed, TxIds
<1>3. CASE Cursor' = Cursor
  BY <1>2, <1>3 DEF CleanInv, IndexedBelowCursor
<1>4. CASE \E w \in Workers : WorkerStep(w) /\ Passing(w)
  <2>1. PICK w \in Workers : WorkerStep(w) /\ Passing(w)
    BY <1>4
  <2>2. Cursor' = Cursor + 1
    BY <2>1, WorkerMoves
  <2>3. Indexed(blk[w]) /\ Holding(w)
    BY <2>1, PassedIndexed DEF Passing, Strict, BlockDone, Return, Holding, HoldingPcs, Workers
  <2>4. blk[w] = BlockAt(Cursor)
    <3>1. Cursor = cur[w] /\ blk[w] \in Served /\ blk[w].height = cur[w]
      BY <2>3, HoldingWorks, WorkerAtCursor DEF BlockInv, StrictInv, Strict
    <3> QED
      BY <3>1 DEF BlockAt, Served, Block, BlockInv
  <2>5. \A h \in 0..Cursor : Indexed(BlockAt(h))
    BY <1>1, <2>3, <2>4 DEF CleanInv, IndexedBelowCursor
  <2> QED
    BY <1>1, <1>2, <2>2, <2>5 DEF IndexedBelowCursor
<1>5. CASE MainCount /\ ~On /\ Cursor' = Abstract!FirstHeight(BlockCount)
  <2>1. BlockCount = 0
    BY <1>5, FS_EmptySet DEF FirstLifeInv, CleanInv, BlockCount
  <2> QED
    BY <1>5, <2>1 DEF Abstract!FirstHeight, IndexedBelowCursor
<1>6. CASE UNCHANGED vars
  BY <1>3, <1>6 DEF vars, mainVars, dbVars, workerVars, Cursor, NextHeight
<1> QED
  BY <1>3, <1>4, <1>5, <1>6, NoHalt, WorkerMoves, MainMoves, OthersMove DEF Next

\* When nothing fails, every height the process has passed is indexed, with all
\* transactions and all their details.
THEOREM NothingIsLeftOut ==
  ASSUME Faults = {}
  PROVE  Spec => []IndexedBelowCursor
<1> DEFINE Inv == RefineInv /\ WorkInv /\ CompleteInv /\ FirstLifeInv /\ CleanInv
<1>1. Init => Inv
  <2>1. Init => CleanInv
    BY DEF Init, DbInit, CleanInv, AllDetailed, IndexedBelowCursor, Cursor
  <2> QED
    BY <2>1, InitRefineInv, InitWorkInv, InitCompleteInv, InitFirstLife
<1>2. Inv /\ [Next]_vars => Inv'
  <2> SUFFICES ASSUME Inv, [Next]_vars PROVE Inv'
    OBVIOUS
  <2>1. Strict
    BY DEF Strict
  <2>2. RefineInv' /\ WorkInv' /\ FirstLifeInv'
    BY StepRefineInv, StepWorkInv, StepFirstLife DEF RefineInv
  <2>3. CompleteInv'
    BY <2>1, StepCompleteInv, CleanFresh DEF CleanInv, RefineInv, ChainInv
  <2>4. CleanInv'
    BY NoHalt, StepAllDetailed, StepBelowCursor DEF CleanInv
  <2> QED
    BY <2>2, <2>3, <2>4
<1>3. Inv => IndexedBelowCursor
  BY DEF CleanInv
<1> QED
  BY <1>1, <1>2, <1>3, PTL DEF Spec

-----------------------------------------------------------------------------
(* The process is killed again and again *)

\* A transaction is in one block of the chain.
EachTxOnce == \A a, b \in Served : TxIds(a) \cap TxIds(b) # {} => a = b

\* A block that is asked for has no row yet, and so none of its transactions has.
LEMMA StrictFresh ==
  ASSUME RefineInv, GapInv, TxAfterBlock, Strict, EachTxOnce
  PROVE  Fresh
<1> USE DEF RefineInv, ChainInv, CursorInv
<1> SUFFICES ASSUME NEW w \in Workers, pc[w] = "block", cur[w] <= best,
                    NEW t \in TxIds(BlockAt(cur[w])) \cap txTab
             PROVE  FALSE
  BY DEF Fresh
<1>1. Working(w) /\ On /\ Cursor = cur[w] /\ cur[w] \in Nat
  <2>1. Working(w)
    BY DEF Working
  <2> QED
    BY <2>1, WorkerAtCursor DEF FollowInv, Workers, UserInv, TypeInv, TypeOK
<1>2. BlockAt(cur[w]) \in Served /\ BlockAt(cur[w]).height = Cursor
  BY <1>1, BlockAtServed DEF UserInv, TypeInv, TypeOK, BlockInv
<1>3. BlockAt(cur[w]) \in blockTab
  <2>1. PICK b \in blockTab : t \in TxIds(b)
    BY DEF TxAfterBlock
  <2> QED
    BY <1>2, <2>1 DEF EachTxOnce, ReachInv
<1>4. PICK v \in Workers : Inserted(v)
  BY <1>1, <1>2, <1>3 DEF GapInv, RowsPassed, Passed
<1>5. v = w
  BY <1>1, <1>4, InsertedHolds, OneHolds
<1> QED
  BY <1>4, <1>5 DEF Inserted

\* The steps of a round in which the worker is at its block.
LEMMA WorkSet ==
  ASSUME ChainInv
  PROVE  \E x : InWork \subseteq {x}
<1>1. \A v, w \in Workers : pc[v] \in {"tx", "insertBlock", "insertTx", "detail"} /\
                           pc[w] \in {"tx", "insertBlock", "insertTx", "detail"} => v = w
  BY OneHolds DEF Working
<1>2. CASE InWork = {}
  BY <1>2
<1>3. CASE InWork # {}
  <2>1. PICK w \in Workers : pc[w] \in {"tx", "insertBlock", "insertTx", "detail"}
    BY <1>3 DEF InWork
  <2>2. InWork \subseteq {blk[w]}
    BY <1>1, <2>1 DEF InWork
  <2> QED
    BY <2>2
<1> QED
  BY <1>2, <1>3

LEMMA HalfFinite == TypeInv => IsFiniteSet(HalfIndexed)
BY FS_Subset DEF TypeInv, HalfIndexed

\* A death leaves one more block half indexed at most: the one that was worked on.
LEMMA DeathHalf ==
  ASSUME ChainInv, OneHalfIndexedPerHalt, Terminate, halts' = halts + 1
  PROVE  OneHalfIndexedPerHalt'
<1> USE DEF ChainInv, CursorInv, UserInv
<1>1. HalfIndexed' = HalfIndexed /\ InWork' = {}
  <2>1. HalfIndexed' = HalfIndexed
    BY DEF Terminate, tables, HalfIndexed, Indexed, TxIds
  <2>2. InWork' = {}
    BY DEF Terminate, ForAll, InWork
  <2> QED
    BY <2>1, <2>2
<1>2. PICK x : InWork \subseteq {x}
  BY WorkSet
<1> DEFINE rest == HalfIndexed \ InWork
<1>3. IsFiniteSet(rest) /\ Cardinality(rest) \in Nat
  BY HalfFinite, FS_Subset, FS_CardinalityType
<1>4. IsFiniteSet(rest \cup {x}) /\ Cardinality(rest \cup {x}) \in Nat /\ Cardinality(rest \cup {x}) <= Cardinality(rest) + 1
  <2> HIDE DEF rest
  <2>1. IsFiniteSet(rest \cup {x})
    BY <1>3, FS_AddElement
  <2>2. Cardinality(rest \cup {x}) = Cardinality(rest) \/ Cardinality(rest \cup {x}) = Cardinality(rest) + 1
    BY <1>3, FS_AddElement
  <2> QED
    BY <1>3, <2>1, <2>2
<1>5. Cardinality(HalfIndexed) <= Cardinality(rest \cup {x}) /\ Cardinality(HalfIndexed) \in Nat
  <2>1. HalfIndexed \subseteq rest \cup {x}
    BY <1>2
  <2> QED
    BY <1>4, <2>1, FS_Subset, FS_CardinalityType
<1>6. HalfIndexed' \ InWork' = HalfIndexed
  BY <1>1
<1>7. Cardinality(rest) <= halts /\ halts \in Nat
  BY MaxHaltsAssumption DEF OneHalfIndexedPerHalt, TypeInv, TypeOK
<1>8. Cardinality(HalfIndexed) <= halts'
  BY <1>3, <1>4, <1>5, <1>7
<1> QED
  BY <1>6, <1>8 DEF OneHalfIndexedPerHalt

\* A worker leaves a block when it is indexed.
LEMMA WorkHalf ==
  ASSUME RefineInv, WorkInv, CompleteInv, Strict, OneHalfIndexedPerHalt, NEW w \in Workers, WorkerStep(w)
  PROVE  OneHalfIndexedPerHalt'
<1> USE DEF RefineInv, ChainInv, CursorInv, UserInv
<1> DEFINE At(v) == pc[v] \in {"tx", "insertBlock", "insertTx", "detail"}
<1>1. halts' = halts
  BY DEF WorkerStep, FetchBlock, InsertBlock, FetchTx, TxsFetched, InsertTx, InsertDetail, BlockDone, Return, mainVars
<1>2. \A b : Indexed(b) => Indexed(b)'
  BY TxRowsAdded DEF Indexed, TxIds
<1>3. \A b \in blockTab' : b \in blockTab \/ b \in InWork'
  <2>1. CASE InsertBlock(w)
    <3>1. At(w)' /\ blk'[w] = blk[w] /\ (blockTab' = blockTab \/ blockTab' = blockTab \cup {blk[w]})
      BY <2>1 DEF InsertBlock, InsertBlockRow, dbVars, Goto, TypeInv, TypeOK
    <3> QED
      BY <3>1 DEF InWork
  <2> QED
    BY <2>1, WorkerMoves
<1>4. ASSUME NEW b \in InWork, b \notin InWork'
      PROVE  Indexed(b)
  <2>1. PICK v \in Workers : At(v) /\ b = blk[v]
    BY <1>4 DEF InWork
  <2>2. v = w /\ Holding(w)
    BY <2>1, OtherHoldsNothing DEF Holding, HoldingPcs
  <2>3. blk'[w] # blk[w] \/ ~At(w)'
    BY <1>4, <2>1, <2>2 DEF InWork
  <2>4. BlockDone(w)
    <3>1. CASE InsertBlock(w) \/ FetchTx(w)
      BY <2>1, <2>2, <2>3, <3>1 DEF InsertBlock, FetchTx, Goto, TypeInv, TypeOK
    <3>2. CASE TxsFetched(w) \/ InsertTx(w) \/ InsertDetail(w)
      BY <2>1, <2>2, <2>3, <3>2 DEF TxsFetched, AfterTxs, InsertTx, InsertDetail, Goto, TypeInv, TypeOK
    <3>3. CASE FetchBlock(w) \/ Return(w)
      BY <2>1, <2>2, <3>3 DEF FetchBlock, Return
    <3> QED
      BY <3>1, <3>2, <3>3 DEF WorkerStep
  <2> QED
    BY <2>1, <2>2, <2>4, PassedIndexed
<1>5. HalfIndexed' \ InWork' \subseteq HalfIndexed \ InWork
  BY <1>2, <1>3, <1>4 DEF HalfIndexed
<1>6. IsFiniteSet(HalfIndexed \ InWork) /\ Cardinality(HalfIndexed \ InWork) \in Nat
  BY HalfFinite, FS_Subset, FS_CardinalityType
<1>7. /\ Cardinality(HalfIndexed' \ InWork') <= Cardinality(HalfIndexed \ InWork)
      /\ Cardinality(HalfIndexed' \ InWork') \in Nat
  BY <1>5, <1>6, FS_Subset, FS_CardinalityType
<1> QED
  BY <1>1, <1>6, <1>7 DEF OneHalfIndexedPerHalt, TypeInv, TypeOK

LEMMA StepHalf ==
  ASSUME RefineInv, WorkInv, CompleteInv, Strict, OneHalfIndexedPerHalt, [Next]_vars
  PROVE  OneHalfIndexedPerHalt'
<1> USE DEF RefineInv, ChainInv, CursorInv
<1>1. CASE \E w \in Workers : WorkerStep(w)
  BY <1>1, WorkHalf
<1>2. CASE MainCountFails \/ DbRefused \/ Crash \/ DbLost \/ \E w \in Workers : RpcDown(w)
  <2>1. Terminate /\ halts' = halts + 1
    BY <1>2, StrictConnection DEF MainCountFails, DbRefused, Crash, DbLost, RpcDown, CanHalt, Strict
  <2> QED
    BY <2>1, DeathHalf
<1>3. CASE \/ Start \/ MainConnect \/ MainCount \/ MainPollInit \/ MainLaunch \/ MainPollFollow
           \/ CountStep \/ Wake \/ Daemon \/ UNCHANGED vars
  <2>1. halts' = halts /\ UNCHANGED <<blockTab, txTab, detTab, blk>>
    BY <1>3 DEF Start, MainConnect, MainCount, MainPollInit, MainLaunch, MainPollFollow, CountStep, CountGenesis,
                CountFollow, Wake, Daemon, vars, mainVars, dbVars, tables, workerVars
  <2>2. \A w \in Workers : pc'[w] = pc[w] \/ (pc[w] \in Idle /\ pc'[w] \in Idle)
    BY <1>3 DEF Start, MainConnect, MainCount, MainPollInit, MainLaunch, MainPollFollow, CountStep, CountGenesis,
                CountFollow, Wake, Daemon, vars, workerVars, RunThread, Goto, Idle, UserInv, ControlInv, TypeInv,
                TypeOK, Workers
  <2>3. InWork' = InWork /\ HalfIndexed' = HalfIndexed
    <3>1. InWork' = InWork
      BY <2>1, <2>2 DEF InWork, Idle
    <3>2. HalfIndexed' = HalfIndexed
      BY <2>1 DEF HalfIndexed, Indexed, TxIds
    <3> QED
      BY <3>1, <3>2
  <2> QED
    BY <2>1, <2>3 DEF OneHalfIndexedPerHalt
<1> QED
  BY <1>1, <1>2, <1>3 DEF Next, MainStep, Fault

\* Killed any number of times between any two statements, the process leaves a
\* block half indexed for each time at most, the one it is at not counted.  A
\* transaction must be in one block: a second one would refuse its row, and miss
\* the same details as the first.
THEOREM HalvesCountHalts ==
  ASSUME Faults \subseteq {"crash", "rpcDown"}, EachTxOnce
  PROVE  Spec => []OneHalfIndexedPerHalt
<1> DEFINE Inv == RefineInv /\ GapInv /\ WorkInv /\ TxAfterBlock /\ CompleteInv /\ OneHalfIndexedPerHalt
<1>1. Init => Inv
  <2>1. Init => TxAfterBlock
    BY DEF Init, DbInit, TxAfterBlock
  <2>2. Init => OneHalfIndexedPerHalt
    <3> SUFFICES ASSUME Init PROVE OneHalfIndexedPerHalt
      OBVIOUS
    <3>1. HalfIndexed \ InWork = {} /\ halts = 0
      BY DEF Init, DbInit, HalfIndexed
    <3> QED
      BY <3>1, FS_EmptySet DEF OneHalfIndexedPerHalt
  <2> QED
    BY <2>1, <2>2, InitRefineInv, InitGapInv, InitWorkInv, InitCompleteInv
<1>2. Inv /\ [Next]_vars => Inv'
  <2> SUFFICES ASSUME Inv, [Next]_vars PROVE Inv'
    OBVIOUS
  <2>1. Strict /\ DbSound
    BY DEF Strict, DbSound
  <2>2. RefineInv' /\ GapInv' /\ WorkInv'
    BY StepRefineInv, StepGapInv, StepWorkInv
  <2>3. TxAfterBlock'
    BY <2>1, StepTxAfterBlock
  <2>4. CompleteInv'
    BY <2>1, StepCompleteInv, StrictFresh
  <2>5. OneHalfIndexedPerHalt'
    BY <2>1, StepHalf
  <2> QED
    BY <2>2, <2>3, <2>4, <2>5
<1>3. Inv => OneHalfIndexedPerHalt
  OBVIOUS
<1> QED
  BY <1>1, <1>2, <1>3, PTL DEF Spec
=============================================================================
