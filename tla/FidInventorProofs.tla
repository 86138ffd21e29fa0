------------------------- MODULE FidInventorProofs -------------------------
(***************************************************************************)
(* Theorems about the indexing process, for every chain, every set of      *)
(* faults and every number of restarts: its types; who may use the         *)
(* connection, and with which login; and its cursor, which never goes      *)
(* back, never runs far ahead of the chain, never leads to two blocks of   *)
(* one height, and moves as the sequential Indexer allows.                 *)
(***************************************************************************)
EXTENDS FidInventor, FiniteSetTheorems, TLAPS

\* A worker that is to insert details has a transaction to do it for.
DetailHasTx == \A w \in Workers : pc[w] = "detail" => vtx[w] # <<>>

\* The type invariant, and that the rows can be counted.
TypeInv == TypeOK /\ IsFiniteSet(blockTab) /\ DetailHasTx

\* The assumptions on the constants, where a step needs the chain's types.
LEMMA BlockAtType ==
  ASSUME NodeTypeOK, NEW h \in Nat, h <= best
  PROVE  BlockAt(h) \in Block /\ TxsOf[BlockAt(h)] \in Seq(Tx)
<1>1. h \in Heights
  BY HeightAssumption DEF NodeTypeOK, Heights
<1>2. BlockAt(h) \in Block
  BY <1>1, BranchAssumption DEF BlockAt, Block, NodeTypeOK
<1> QED
  BY <1>2, TxsOfAssumption

LEMMA InitTypeInv == Init => TypeInv
<1> SUFFICES ASSUME Init PROVE TypeInv
  OBVIOUS
<1>1. NodeTypeOK
  BY BranchAssumption DEF Init, NodeInit, NodeTypeOK
<1>2. DbTypeOK /\ IsFiniteSet(blockTab)
  BY FS_EmptySet DEF Init, DbInit, DbTypeOK
<1> QED
  BY <1>1, <1>2, MaxHaltsAssumption DEF Init, ForAll, TypeInv, TypeOK, DetailHasTx

\* The end of a process leaves the tables and the chain as they are.
LEMMA TerminateTypeInv ==
  ASSUME TypeInv, Terminate, halts' \in 0..MaxHalts
  PROVE  TypeInv'
  BY DEF TypeInv, TypeOK, DetailHasTx, NodeTypeOK, DbTypeOK, Terminate, ForAll, nodeVars, tables

LEMMA CanHaltType == TypeInv /\ CanHalt => halts' \in 0..MaxHalts
  BY MaxHaltsAssumption DEF TypeInv, TypeOK, CanHalt

LEMMA MainTypeInv ==
  ASSUME TypeInv, Start \/ MainStep
  PROVE  TypeInv'
<1> USE DEF TypeInv, TypeOK, DetailHasTx, NodeTypeOK, DbTypeOK, Workers
<1>1. CASE Start
  BY <1>1 DEF Start, nodeVars, dbVars, workerVars
<1>2. CASE MainConnect
  BY <1>2 DEF MainConnect, InitDb, Logins, nodeVars, tables, workerVars
<1>3. CASE MainCount
  <2>1. BlockCount \in Nat
    BY FS_CardinalityType DEF BlockCount
  <2>2. height' \in Nat
    BY <1>3, <2>1 DEF MainCount, RunThread, RestartHeight
  <2> QED
    BY <1>3, <2>2 DEF MainCount, RunThread, nodeVars, dbVars
<1>4. CASE MainCountFails
  <2>1. halts' \in 0..MaxHalts
    BY <1>4, CanHaltType DEF MainCountFails
  <2> QED
    BY <1>4, <2>1, TerminateTypeInv DEF MainCountFails
<1>5. CASE MainPollInit
  BY <1>5 DEF MainPollInit, nodeVars, dbVars, workerVars
<1>6. CASE MainLaunch
  BY <1>6 DEF MainLaunch, RunThread, nodeVars, dbVars
<1>7. CASE MainPollFollow
  BY <1>7 DEF MainPollFollow, nodeVars, dbVars, workerVars
<1> QED
  BY <1>1, <1>2, <1>3, <1>4, <1>5, <1>6, <1>7 DEF MainStep

LEMMA CountTypeInv ==
  ASSUME TypeInv, CountStep \/ Wake
  PROVE  TypeInv'
<1> USE DEF TypeInv, TypeOK, DetailHasTx, NodeTypeOK, DbTypeOK, Workers, Goto, nodeVars, dbVars, mainVars
<1>1. \A n \in CountReplies : n \in Nat
  BY HeightAssumption DEF CountReplies, Heights
<1>2. NextHeight \in Nat
  BY DEF NextHeight
<1>3. ASSUME NEW n \in CountReplies, CountGenesis(n) PROVE TypeInv'
  BY <1>1, <1>3 DEF CountGenesis
<1>4. ASSUME NEW n \in CountReplies, CountFollow(n) PROVE TypeInv'
  BY <1>1, <1>2, <1>4, SMTT(30) DEF CountFollow
<1>5. CASE Wake
  BY <1>5 DEF Wake
<1> QED
  BY <1>3, <1>4, <1>5 DEF CountStep

LEMMA WorkerTypeInv ==
  ASSUME TypeInv, NEW w \in Workers, WorkerStep(w)
  PROVE  TypeInv'
<1> USE DEF TypeInv, TypeOK, DetailHasTx, NodeTypeOK, DbTypeOK, Goto, nodeVars, dbVars, mainVars
<1>1. CASE FetchBlock(w)
  <2>1. cur[w] <= best => BlockAt(cur[w]) \in Block /\ TxsOf[BlockAt(cur[w])] \in Seq(Tx)
    BY BlockAtType
  <2>2. blk' \in [Workers -> Block \cup {NoBlock}] /\ todo' \in [Workers -> Seq(Tx)]
    <3>1. CASE /\ blk' = [blk EXCEPT ![w] = BlockAt(cur[w])]
               /\ todo' = [todo EXCEPT ![w] = TxsOf[BlockAt(cur[w])]]
               /\ cur[w] <= best
      BY <2>1, <3>1
    <3>2. CASE blk' = [blk EXCEPT ![w] = NoBlock] /\ todo' = [todo EXCEPT ![w] = <<>>]
      BY <3>2
    <3> QED
      BY <1>1, <3>1, <3>2 DEF FetchBlock
  <2>3. vtx' = [vtx EXCEPT ![w] = <<>>] /\ vtx' \in [Workers -> Seq(Tx)]
    BY <1>1 DEF FetchBlock
  <2>4. pc' = [pc EXCEPT ![w] = IF w = "genesis" THEN "insertBlock" ELSE "tx"]
    BY <1>1 DEF FetchBlock
  <2> QED
    BY <1>1, <2>2, <2>3, <2>4 DEF FetchBlock
<1>2. CASE InsertBlock(w)
  <2>1. blockTab' \subseteq Block /\ IsFiniteSet(blockTab') /\ UNCHANGED <<txTab, detTab>>
    <3>1. CASE blk[w] = NoBlock
      BY <1>2, <3>1 DEF InsertBlock
    <3>2. CASE blk[w] # NoBlock
      <4>1. blk[w] \in Block /\ InsertBlockRow(blk[w])
        BY <1>2, <3>2 DEF InsertBlock
      <4>2. IsFiniteSet(blockTab \cup {blk[w]})
        BY FS_AddElement
      <4> QED
        BY <4>1, <4>2 DEF InsertBlockRow
    <3> QED
      BY <3>1, <3>2
  <2>2. conn' \in Logins \cup {"none", "lost"}
    BY <1>2 DEF InsertBlock, InitDb, Logins
  <2> QED
    BY <1>2, <2>1, <2>2 DEF InsertBlock
<1>3. CASE FetchTx(w)
  <2>1. Head(todo[w]) \in Tx /\ Tail(todo[w]) \in Seq(Tx) /\ vtx[w] \in Seq(Tx)
    BY <1>3 DEF FetchTx
  <2>2. todo' \in [Workers -> Seq(Tx)]
    BY <1>3, <2>1 DEF FetchTx
  <2>3. Append(vtx[w], Head(todo[w])) \in Seq(Tx)
    BY <2>1
  <2>4. vtx' \in [Workers -> Seq(Tx)]
    BY <1>3, <2>3 DEF FetchTx
  <2> QED
    BY <1>3, <2>2, <2>4 DEF FetchTx
<1>4. CASE TxsFetched(w)
  BY <1>4 DEF TxsFetched, AfterTxs
<1>5. CASE InsertTx(w)
  <2>1. Head(vtx[w]) \in Tx /\ Tail(vtx[w]) \in Seq(Tx)
    BY <1>5 DEF InsertTx
  <2>2. txTab' \subseteq Tx /\ UNCHANGED <<blockTab, detTab>>
    BY <1>5, <2>1 DEF InsertTx, TxRowInserted, TxRowRefused, TxRowCountFailed, tables
  <2>3. conn' \in Logins \cup {"none", "lost"}
    BY <1>5 DEF InsertTx, InitDb, Logins
  <2>4. vtx' \in [Workers -> Seq(Tx)]
    BY <1>5, <2>1 DEF InsertTx
  <2> QED
    BY <1>5, <2>2, <2>3, <2>4 DEF InsertTx
<1>6. CASE InsertDetail(w)
  <2>1. Head(vtx[w]) \in Tx /\ Tail(vtx[w]) \in Seq(Tx)
    BY <1>6 DEF InsertDetail
  <2>2. vtx' \in [Workers -> Seq(Tx)] /\ pc' = [pc EXCEPT ![w] = "insertTx"]
    BY <1>6, <2>1 DEF InsertDetail
  <2>3. detTab' \subseteq Tx /\ UNCHANGED <<blockTab, txTab, conn>>
    BY <1>6, <2>1 DEF InsertDetail, InsertDetailRows
  <2> QED
    BY <1>6, <2>2, <2>3 DEF InsertDetail
<1>7. CASE BlockDone(w)
  <2>1. cur' \in [Workers -> Nat]
    <3>1. cur' = cur \/ cur' = [cur EXCEPT ![w] = cur[w] + 1]
      BY <1>7 DEF BlockDone
    <3>2. cur[w] + 1 \in Nat
      OBVIOUS
    <3> QED
      BY <3>1, <3>2
  <2>2. PICK l \in {"block", "return"} : pc' = [pc EXCEPT ![w] = l]
    BY <1>7 DEF BlockDone
  <2> QED
    BY <1>7, <2>1, <2>2 DEF BlockDone
<1>8. CASE Return(w)
  BY <1>8 DEF Return, PublishedHeight
<1> QED
  BY <1>1, <1>2, <1>3, <1>4, <1>5, <1>6, <1>7, <1>8 DEF WorkerStep

LEMMA FaultTypeInv ==
  ASSUME TypeInv, Fault
  PROVE  TypeInv'
<1>1. CASE DbLost
  BY <1>1, CanHaltType
     DEF DbLost, TypeInv, TypeOK, DetailHasTx, NodeTypeOK, DbTypeOK, nodeVars, tables, workerVars
<1>2. CASE DbRefused \/ Crash \/ \E w \in Workers : RpcDown(w)
  BY <1>2, CanHaltType, TerminateTypeInv DEF DbRefused, Crash, RpcDown
<1> QED
  BY <1>1, <1>2 DEF Fault

LEMMA DaemonTypeInv ==
  ASSUME TypeInv, Daemon
  PROVE  TypeInv'
<1>1. NodeTypeOK'
  BY HeightAssumption DEF TypeInv, TypeOK, Daemon, NodeTypeOK, Extend, Reorg, Heights
<1> QED
  BY <1>1 DEF TypeInv, TypeOK, DetailHasTx, DbTypeOK, Daemon, dbVars, mainVars, workerVars

LEMMA StepTypeInv == TypeInv /\ [Next]_vars => TypeInv'
<1> SUFFICES ASSUME TypeInv, [Next]_vars PROVE TypeInv'
  OBVIOUS
<1>1. CASE UNCHANGED vars
  BY <1>1 DEF vars, nodeVars, dbVars, mainVars, workerVars, TypeInv, TypeOK, DetailHasTx, NodeTypeOK, DbTypeOK
<1> QED
  BY <1>1, MainTypeInv, CountTypeInv, WorkerTypeInv, FaultTypeInv, DaemonTypeInv DEF Next

\* Type correctness, whatever fails and however the chain changes.
THEOREM TypeCorrect == Spec => []TypeOK
<1>1. TypeInv => TypeOK
  BY DEF TypeInv
<1> QED
  BY <1>1, InitTypeInv, StepTypeInv, PTL DEF Spec

-----------------------------------------------------------------------------

\* Who may run when: no worker before the rows are counted, the genesis worker
\* alone while main() waits for it, the follow worker only after it is done.
\* The height main() waits for is published when the genesis worker is done.
ControlInv ==
    /\ mpc \in {"down", "connect", "count"} =>
         \A w \in Workers : pc[w] = "off" /\ task[w] = -1
    /\ mpc = "pollInit" =>
         /\ pc["follow"] = "off" /\ task["follow"] = -1
         /\ task["genesis"] # -1 => pc["genesis"] = "done"
    /\ mpc \in {"launch", "pollFollow"} => pc["genesis"] \in {"off", "done"}
    /\ mpc = "launch" => pc["follow"] = "off" /\ task["follow"] = -1

\* main() has connected before anybody else can.
LoginInv ==
    /\ conn # "builtin"
    /\ mpc \notin {"down", "connect"} => conn # "none"

UserInv == TypeInv /\ ControlInv /\ LoginInv

LEMMA InitUserInv == Init => UserInv
<1> SUFFICES ASSUME Init PROVE ControlInv /\ LoginInv
  BY InitTypeInv DEF UserInv
<1> QED
  BY DEF Init, DbInit, ForAll, ControlInv, LoginInv

LEMMA TerminateUser ==
  ASSUME Terminate
  PROVE  ControlInv' /\ LoginInv'
BY DEF Terminate, ForAll, ControlInv, LoginInv

LEMMA MainUser ==
  ASSUME UserInv, Start \/ MainStep
  PROVE  ControlInv' /\ LoginInv'
<1> USE DEF UserInv, TypeInv, TypeOK, ControlInv, LoginInv, Workers
<1>1. CASE Start
  BY <1>1 DEF Start, dbVars, workerVars
<1>2. CASE MainConnect
  BY <1>2 DEF MainConnect, InitDb, workerVars
<1>3. CASE MainCount
  BY <1>3 DEF MainCount, RunThread, dbVars
<1>4. CASE MainCountFails
  BY <1>4, TerminateUser DEF MainCountFails
<1>5. CASE MainPollInit
  BY <1>5 DEF MainPollInit, dbVars, workerVars
<1>6. CASE MainLaunch
  BY <1>6 DEF MainLaunch, RunThread, dbVars
<1>7. CASE MainPollFollow
  BY <1>7 DEF MainPollFollow, dbVars, workerVars
<1> QED
  BY <1>1, <1>2, <1>3, <1>4, <1>5, <1>6, <1>7 DEF MainStep

\* A worker at work has a process around it, in which main() has come past its
\* own use of the connection; and only one of the workers is at work.
Working(w) == pc[w] \notin {"off", "done"}

LEMMA WorkingAlone ==
  ASSUME UserInv, NEW w \in Workers, Working(w)
  PROVE  /\ mpc \in {"pollInit", "pollFollow"}
         /\ conn # "none"
         /\ w = "genesis" => mpc = "pollInit" /\ task["genesis"] = -1
         /\ w = "follow" => mpc = "pollFollow"
BY DEF UserInv, TypeInv, TypeOK, ControlInv, LoginInv, Workers, Working

\* A step of a worker that is at work, and that leaves main() and, but for its
\* last step, the published height alone.
LEMMA WorkerControl ==
  ASSUME UserInv, NEW w \in Workers, Working(w),
         mpc' = mpc, \A v \in Workers \ {w} : pc'[v] = pc[v],
         w = "genesis" =>
            /\ task'["follow"] = task["follow"]
            /\ task' = task \/ pc'["genesis"] = "done"
  PROVE  ControlInv'
<1>1. /\ w = "genesis" => mpc = "pollInit" /\ task["genesis"] = -1
      /\ w = "follow" => mpc = "pollFollow"
  BY WorkingAlone
<1>2. CASE w = "genesis"
  BY <1>1, <1>2 DEF UserInv, ControlInv, Workers
<1>3. CASE w = "follow"
  BY <1>1, <1>3 DEF UserInv, ControlInv, Workers
<1> QED
  BY <1>2, <1>3 DEF Workers

LEMMA CountUser ==
  ASSUME UserInv, CountStep \/ Wake
  PROVE  ControlInv' /\ LoginInv'
<1>1. PICK w \in Workers : /\ Working(w)
                           /\ \A v \in Workers \ {w} : pc'[v] = pc[v]
                           /\ UNCHANGED <<dbVars, mainVars, task>>
  <2>1. CASE \E n \in CountReplies : CountGenesis(n)
    BY <2>1 DEF CountGenesis, Goto, Working, Workers, UserInv, TypeInv, TypeOK
  <2>2. CASE \E n \in CountReplies : CountFollow(n)
    BY <2>2 DEF CountFollow, Goto, Working, Workers, UserInv, TypeInv, TypeOK
  <2>3. CASE Wake
    BY <2>3 DEF Wake, Goto, Working, Workers, UserInv, TypeInv, TypeOK
  <2> QED
    BY <2>1, <2>2, <2>3 DEF CountStep
<1>2. ControlInv'
  BY <1>1, WorkerControl DEF mainVars
<1>3. LoginInv'
  BY <1>1 DEF UserInv, LoginInv, dbVars, mainVars
<1> QED
  BY <1>2, <1>3

LEMMA WorkerUser ==
  ASSUME UserInv, NEW w \in Workers, WorkerStep(w)
  PROVE  ControlInv' /\ LoginInv'
<1>1. /\ Working(w)
      /\ \A v \in Workers \ {w} : pc'[v] = pc[v]
      /\ mpc' = mpc
      /\ conn' = conn \/ \E login \in Logins : InitDb(login)
  <2> USE DEF Goto, Working, UserInv, TypeInv, TypeOK
  <2>1. CASE FetchBlock(w) \/ FetchTx(w) \/ TxsFetched(w)
    BY <2>1 DEF FetchBlock, FetchTx, TxsFetched, dbVars, mainVars
  <2>2. CASE InsertBlock(w) \/ InsertTx(w)
    BY <2>2 DEF InsertBlock, InsertTx, dbVars, mainVars, Logins
  <2>3. CASE InsertDetail(w) \/ BlockDone(w) \/ Return(w)
    BY <2>3 DEF InsertDetail, BlockDone, Return, dbVars, mainVars
  <2> QED
    BY <2>1, <2>2, <2>3 DEF WorkerStep
<1>2. /\ task'["follow"] = task["follow"] \/ w = "follow"
      /\ task' = task \/ Return(w)
  <2>1. CASE Return(w)
    BY <2>1 DEF Return, UserInv, TypeInv, TypeOK, Workers
  <2>2. CASE ~Return(w)
    BY <2>2 DEF WorkerStep, FetchBlock, InsertBlock, FetchTx, TxsFetched, InsertTx,
                InsertDetail, BlockDone
  <2> QED
    BY <2>1, <2>2
<1>3. Return(w) /\ w = "genesis" => pc'["genesis"] = "done"
  BY DEF Return, Goto, UserInv, TypeInv, TypeOK
<1>4. ControlInv'
  BY <1>1, <1>2, <1>3, WorkerControl
<1>5. LoginInv'
  BY <1>1, WorkingAlone DEF UserInv, LoginInv, InitDb
<1> QED
  BY <1>4, <1>5

LEMMA StepUserInv == UserInv /\ [Next]_vars => UserInv'
<1> SUFFICES ASSUME UserInv, [Next]_vars PROVE ControlInv' /\ LoginInv'
  BY StepTypeInv DEF UserInv
<1>1. CASE UNCHANGED vars
  BY <1>1 DEF vars, dbVars, mainVars, workerVars, UserInv, ControlInv, LoginInv
<1>2. CASE Start \/ MainStep
  BY <1>2, MainUser
<1>3. CASE CountStep \/ Wake \/ \E w \in Workers : WorkerStep(w)
  BY <1>3, CountUser, WorkerUser
<1>4. CASE DbLost \/ Daemon
  BY <1>4 DEF DbLost, Daemon, dbVars, mainVars, workerVars, UserInv, ControlInv, LoginInv
<1>5. CASE DbRefused \/ Crash \/ \E w \in Workers : RpcDown(w)
  BY <1>5, TerminateUser DEF DbRefused, Crash, RpcDown
<1> QED
  BY <1>1, <1>2, <1>3, <1>4, <1>5 DEF Next, Fault

\* main() and the two workers are never at the unlocked connection together,
\* whatever fails: the theorem behind the missing mutex of mysqldb.cpp.
THEOREM OneUserAtATime == Spec => []OneDbUser
<1>1. UserInv => OneDbUser
  <2> SUFFICES ASSUME UserInv, NEW a \in DbUsers, NEW b \in DbUsers PROVE a = b
    BY DEF OneDbUser
  <2>1. \A w \in Workers : w \in DbUsers => Working(w)
    BY DEF DbUsers, Working, Workers
  <2>2. mpc \in {"connect", "count"} => \A w \in Workers : w \notin DbUsers
    BY <2>1, WorkingAlone
  <2>3. "genesis" \in DbUsers => "follow" \notin DbUsers
    BY <2>1, WorkingAlone DEF Workers
  <2> QED
    BY <2>2, <2>3 DEF DbUsers, Workers
<1> QED
  BY <1>1, InitUserInv, StepUserInv, PTL DEF Spec

\* The login compiled into wrap.cpp is never the one of the connection.
THEOREM BuiltinLoginUnused == Spec => []ConfigLoginOnly
<1>1. UserInv => ConfigLoginOnly
  BY DEF UserInv, LoginInv, ConfigLoginOnly
<1> QED
  BY <1>1, InitUserInv, StepUserInv, PTL DEF Spec

-----------------------------------------------------------------------------
(* The cursor *)

\* The process indexes: it has counted its rows.
On == mpc \in {"pollInit", "launch", "pollFollow"}

\* The steps of a round in which the worker holds the block at cur.
HoldingPcs(w) ==
    {"tx", "insertBlock", "insertTx", "detail"} \cup (IF w = "follow" THEN {"return"} ELSE {})
Holding(w) == pc[w] \in HoldingPcs(w)

\* The steps after the block's row was inserted, or was refused.
Inserted(w) ==
    pc[w] \in IF w = "genesis" THEN {"tx", "insertTx", "detail"} ELSE {"insertTx", "detail", "return"}

\* The genesis loop: the heights up to goal, then the one above it.
GenesisInv ==
    /\ pc["genesis"] = "count" => cur["genesis"] = 0
    /\ pc["genesis"] \in {"block", "tx", "insertBlock", "insertTx", "detail"} =>
         cur["genesis"] <= goal["genesis"]
    /\ pc["genesis"] \in {"return", "done"} => cur["genesis"] = goal["genesis"] + 1
    /\ task["genesis"] # -1 => task["genesis"] = goal["genesis"]

\* What main() reports is the cursor or, once the follow worker runs, below it.
HeightInv ==
    /\ mpc \in {"down", "connect", "count"} => height = 0 /\ cur["genesis"] = 0
    /\ mpc = "pollInit" => height = 0 /\ GenesisInv
    /\ mpc = "launch" => height >= 1
    /\ mpc = "pollFollow" => NextHeight >= 1 /\ height <= NextHeight

\* The follow worker handles the cursor's height through the whole round.
FollowInv ==
    mpc = "pollFollow" /\ (pc["follow"] = "block" \/ Holding("follow")) =>
        cur["follow"] = NextHeight /\ goal["follow"] = NextHeight

\* The block a worker holds was served for the height it handles.
BlockInv ==
    /\ "reorg" \in Faults \/ branch = MainBranch
    /\ \A w \in Workers : Holding(w) /\ blk[w] # NoBlock => blk[w] \in Served /\ blk[w].height = cur[w]

CursorInv == UserInv /\ HeightInv /\ FollowInv /\ BlockInv

LEMMA InitCursorInv == Init => CursorInv
<1> SUFFICES ASSUME Init PROVE HeightInv /\ FollowInv /\ BlockInv
  BY InitUserInv DEF CursorInv
<1> QED
  BY DEF Init, NodeInit, ForAll, HeightInv, FollowInv, BlockInv, Workers, Holding, HoldingPcs

LEMMA TerminateCursor ==
  ASSUME CursorInv, Terminate
  PROVE  HeightInv' /\ FollowInv' /\ BlockInv'
BY DEF Terminate, CursorInv, ForAll, HeightInv, FollowInv, BlockInv, Workers, Holding, HoldingPcs, nodeVars

\* No block is held by a worker that is not at work.
LEMMA HoldingWorks == \A w \in Workers : Holding(w) => Working(w)
BY DEF Holding, HoldingPcs, Working, Workers

\* The steps of main() touch neither the blocks held nor the heights worked on.
LEMMA MainCursor ==
  ASSUME CursorInv, Start \/ MainStep
  PROVE  HeightInv' /\ FollowInv' /\ BlockInv'
<1> USE DEF CursorInv, UserInv, TypeInv, TypeOK, Workers, nodeVars, dbVars, workerVars
<1>1. CASE Start
  BY <1>1 DEF Start, HeightInv, FollowInv, BlockInv, Served, Holding, HoldingPcs, NextHeight
<1>2. CASE MainConnect
  BY <1>2 DEF MainConnect, HeightInv, FollowInv, BlockInv, Served, Holding, HoldingPcs, NextHeight
<1>3. CASE MainCount
  <2>1. \A w \in Workers : pc[w] = "off" /\ task[w] = -1
    BY <1>3 DEF MainCount, ControlInv
  <2>2. BlockCount \in Nat
    BY FS_CardinalityType DEF BlockCount
  <2>3. HeightInv'
    BY <1>3, <2>1, <2>2 DEF MainCount, RunThread, RestartHeight, HeightInv, GenesisInv
  <2>4. FollowInv'
    BY <1>3 DEF MainCount, FollowInv
  <2>5. BlockInv'
    BY <1>3, <2>1 DEF MainCount, RunThread, BlockInv, Holding, HoldingPcs, Served
  <2> QED
    BY <2>3, <2>4, <2>5
<1>4. CASE MainCountFails
  BY <1>4, TerminateCursor DEF MainCountFails
<1>5. CASE MainPollInit
  <2>1. HeightInv'
    BY <1>5 DEF MainPollInit, HeightInv
  <2>2. FollowInv'
    BY <1>5 DEF MainPollInit, FollowInv
  <2>3. BlockInv'
    BY <1>5 DEF MainPollInit, BlockInv, Served, Holding, HoldingPcs
  <2> QED
    BY <2>1, <2>2, <2>3
<1>6. CASE MainLaunch
  <2>1. pc["follow"] = "off" /\ task["follow"] = -1
    BY <1>6 DEF MainLaunch, ControlInv
  <2>2. HeightInv'
    BY <1>6, <2>1 DEF MainLaunch, HeightInv, NextHeight
  <2>3. FollowInv'
    BY <1>6 DEF MainLaunch, RunThread, FollowInv, Holding, HoldingPcs
  <2>4. BlockInv'
    BY <1>6 DEF MainLaunch, RunThread, BlockInv, Served, Holding, HoldingPcs
  <2> QED
    BY <2>2, <2>3, <2>4
<1>7. CASE MainPollFollow
  BY <1>7 DEF MainPollFollow, HeightInv, FollowInv, BlockInv, Served, Holding, HoldingPcs, NextHeight
<1> QED
  BY <1>1, <1>2, <1>3, <1>4, <1>5, <1>6, <1>7 DEF MainStep

LEMMA CountCursor ==
  ASSUME CursorInv, CountStep \/ Wake
  PROVE  HeightInv' /\ FollowInv' /\ BlockInv'
<1> USE DEF CursorInv, UserInv, TypeInv, TypeOK, Workers, nodeVars, dbVars, mainVars, Goto
<1>1. ASSUME NEW n \in CountReplies, CountGenesis(n)
      PROVE  HeightInv' /\ FollowInv' /\ BlockInv'
  <2>1. mpc = "pollInit" /\ task["genesis"] = -1
    BY <1>1, WorkingAlone DEF Working, CountGenesis
  <2>2. n \in Nat
    BY HeightAssumption DEF CountReplies, Heights, NodeTypeOK
  <2>3. HeightInv'
    BY <1>1, <2>1, <2>2 DEF CountGenesis, HeightInv, GenesisInv
  <2>4. FollowInv'
    BY <1>1, <2>1 DEF CountGenesis, FollowInv
  <2>5. BlockInv'
    BY <1>1 DEF CountGenesis, BlockInv, Holding, HoldingPcs, Served
  <2> QED
    BY <2>3, <2>4, <2>5
<1>2. ASSUME NEW n \in CountReplies, CountFollow(n)
      PROVE  HeightInv' /\ FollowInv' /\ BlockInv'
  <2>1. mpc = "pollFollow" /\ NextHeight' = NextHeight /\ NextHeight \in Nat /\ NextHeight >= 1
    BY <1>2, WorkingAlone DEF Working, CountFollow, NextHeight, HeightInv
  <2>2. HeightInv'
    BY <1>2, <2>1 DEF CountFollow, HeightInv
  <2>3. FollowInv'
    BY <1>2, <2>1 DEF CountFollow, FollowInv, Holding, HoldingPcs
  <2>4. BlockInv'
    BY <1>2 DEF CountFollow, BlockInv, Holding, HoldingPcs, Served
  <2> QED
    BY <2>2, <2>3, <2>4
<1>3. CASE Wake
  <2>1. NextHeight' = NextHeight
    BY <1>3 DEF Wake, NextHeight
  <2>2. HeightInv'
    BY <1>3, <2>1 DEF Wake, HeightInv, GenesisInv
  <2>3. FollowInv' /\ BlockInv'
    BY <1>3 DEF Wake, FollowInv, BlockInv, Holding, HoldingPcs, Served
  <2> QED
    BY <2>2, <2>3
<1> QED
  BY <1>1, <1>2, <1>3 DEF CountStep

\* A block in range of the daemon's chain is one of those it ever serves.
LEMMA BlockAtServed ==
  ASSUME NodeTypeOK, "reorg" \in Faults \/ branch = MainBranch, NEW h \in Nat, h <= best
  PROVE  BlockAt(h) \in Served /\ BlockAt(h).height = h
BY BlockAtType DEF Served, BlockAt

\* A round of a worker: the block is fetched for the height it handles, and the
\* height it handles stays until the block is done.
LEMMA WorkerCursor ==
  ASSUME CursorInv, NEW w \in Workers, WorkerStep(w)
  PROVE  HeightInv' /\ FollowInv' /\ BlockInv'
<1> USE DEF CursorInv, UserInv, TypeInv, TypeOK, nodeVars, dbVars, mainVars, Goto, Holding, HoldingPcs
<1>1. /\ w = "genesis" => mpc = "pollInit" /\ task["genesis"] = -1 /\ task["follow"] = -1 /\ pc["follow"] = "off"
      /\ w = "follow" => mpc = "pollFollow" /\ pc["genesis"] \in {"off", "done"}
  <2>1. Working(w)
    BY DEF WorkerStep, FetchBlock, InsertBlock, FetchTx, TxsFetched, InsertTx, InsertDetail, BlockDone,
           Return, Working
  <2> QED
    BY <2>1, WorkingAlone DEF ControlInv
<1>2. CASE FetchBlock(w)
  <2>1. cur[w] <= best => BlockAt(cur[w]) \in Served /\ BlockAt(cur[w]).height = cur[w]
    BY BlockAtServed DEF BlockInv
  <2>2. BlockInv'
    BY <1>2, <2>1 DEF FetchBlock, BlockInv, Served
  <2>3. HeightInv' /\ FollowInv'
    BY <1>1, <1>2 DEF FetchBlock, HeightInv, GenesisInv, FollowInv, NextHeight, Workers
  <2> QED
    BY <2>2, <2>3
<1>3. CASE InsertBlock(w) \/ FetchTx(w) \/ TxsFetched(w) \/ InsertTx(w) \/ InsertDetail(w)
  <2>1. /\ UNCHANGED <<mainVars, nodeVars, task, goal, cur, blk>>
        /\ pc[w] \in {"tx", "insertBlock", "insertTx", "detail"}
        /\ \E l \in {"tx", "insertBlock", "insertTx", "detail"} : pc' = [pc EXCEPT ![w] = l]
    <3>1. CASE InsertBlock(w) \/ FetchTx(w)
      BY <3>1 DEF InsertBlock, FetchTx
    <3>2. CASE TxsFetched(w)
      BY <3>2 DEF TxsFetched, AfterTxs
    <3>3. CASE InsertTx(w) \/ InsertDetail(w)
      BY <3>3 DEF InsertTx, InsertDetail
    <3> QED
      BY <1>3, <3>1, <3>2, <3>3
  <2>2. HeightInv' /\ FollowInv'
    BY <1>1, <2>1 DEF HeightInv, GenesisInv, FollowInv, NextHeight, Workers
  <2>3. BlockInv'
    BY <2>1 DEF BlockInv, Served
  <2> QED
    BY <2>2, <2>3
<1>4. CASE BlockDone(w)
  <2>1. HeightInv'
    BY <1>1, <1>4 DEF BlockDone, HeightInv, GenesisInv, NextHeight, Workers
  <2>2. FollowInv'
    BY <1>1, <1>4 DEF BlockDone, FollowInv, NextHeight, Workers
  <2>3. BlockInv'
    BY <1>4 DEF BlockDone, BlockInv, Served, Workers
  <2> QED
    BY <2>1, <2>2, <2>3
<1>5. CASE Return(w)
  <2>1. HeightInv'
    BY <1>1, <1>5 DEF Return, PublishedHeight, HeightInv, GenesisInv, FollowInv, NextHeight, Workers
  <2>2. FollowInv'
    BY <1>1, <1>5 DEF Return, FollowInv, Workers
  <2>3. BlockInv'
    BY <1>5 DEF Return, BlockInv, Served, Workers
  <2> QED
    BY <2>1, <2>2, <2>3
<1> QED
  BY <1>2, <1>3, <1>4, <1>5 DEF WorkerStep

LEMMA StepCursorInv == CursorInv /\ [Next]_vars => CursorInv'
<1> SUFFICES ASSUME CursorInv, [Next]_vars PROVE HeightInv' /\ FollowInv' /\ BlockInv'
  BY StepUserInv DEF CursorInv
<1> USE DEF HeightInv, GenesisInv, FollowInv, BlockInv, Served, Holding, HoldingPcs, NextHeight
<1>1. CASE UNCHANGED vars
  BY <1>1 DEF CursorInv, vars, nodeVars, mainVars, workerVars
<1>2. CASE Start \/ MainStep
  BY <1>2, MainCursor
<1>3. CASE CountStep \/ Wake \/ \E w \in Workers : WorkerStep(w)
  BY <1>3, CountCursor, WorkerCursor
<1>4. CASE DbLost
  BY <1>4 DEF CursorInv, DbLost, nodeVars, workerVars
<1>5. CASE Daemon
  BY <1>5 DEF CursorInv, Daemon, Extend, Reorg, mainVars, workerVars
<1>6. CASE DbRefused \/ Crash \/ \E w \in Workers : RpcDown(w)
  BY <1>6, TerminateCursor DEF DbRefused, Crash, RpcDown
<1> QED
  BY <1>1, <1>2, <1>3, <1>4, <1>5, <1>6 DEF Next, Fault

-----------------------------------------------------------------------------
(* How each step moves the cursor. *)

\* The step after which a worker's height is passed.
Passing(w) == IF w = "genesis" THEN BlockDone(w) ELSE Return(w)

LEMMA CursorType == CursorInv => Cursor \in Nat /\ height <= Cursor /\ (~On => Cursor = 0)
BY DEF CursorInv, UserInv, TypeInv, TypeOK, Workers, HeightInv, Cursor, NextHeight, On

\* A worker at work is at the cursor.
LEMMA WorkerAtCursor ==
  ASSUME CursorInv, NEW w \in Workers, Working(w)
  PROVE  /\ On
         /\ w = "genesis" => mpc = "pollInit" /\ Cursor = cur[w]
         /\ w = "follow" => mpc = "pollFollow" /\ Cursor = NextHeight
         /\ Holding(w) => Cursor = cur[w]
<1>1. /\ w = "genesis" => mpc = "pollInit"
      /\ w = "follow" => mpc = "pollFollow"
  BY WorkingAlone DEF CursorInv
<1> QED
  BY <1>1 DEF CursorInv, FollowInv, On, Cursor, Workers

LEMMA MainMoves ==
  ASSUME CursorInv, MainStep \/ Start
  PROVE  \/ UNCHANGED <<On, blockTab>> /\ Cursor' = Cursor
         \/ MainCount /\ ~On /\ On' /\ blockTab' = blockTab /\ Cursor' = Abstract!FirstHeight(BlockCount)
         \/ MainCountFails
<1> USE DEF CursorInv, On, Cursor
<1>1. CASE Start \/ MainConnect
  BY <1>1 DEF Start, MainConnect, dbVars, tables
<1>2. CASE MainCount
  <2>1. BlockCount \in Nat
    BY FS_CardinalityType DEF BlockCount, UserInv, TypeInv
  <2>2. ~On /\ On' /\ blockTab' = blockTab
    BY <1>2 DEF MainCount, dbVars
  <2>3. Cursor' = Abstract!FirstHeight(BlockCount)
    <3>1. CASE BlockCount > 0
      BY <1>2, <2>1, <3>1 DEF MainCount, RestartHeight, Abstract!FirstHeight
    <3>2. CASE BlockCount = 0
      BY <1>2, <2>1, <3>2 DEF MainCount, HeightInv, Abstract!FirstHeight
    <3> QED
      BY <2>1, <3>1, <3>2
  <2> QED
    BY <1>2, <2>2, <2>3
<1>3. CASE MainCountFails
  BY <1>3
<1>4. CASE MainPollInit
  <2>1. task["genesis"] = goal["genesis"] /\ cur["genesis"] = goal["genesis"] + 1
    BY <1>4 DEF MainPollInit, HeightInv, GenesisInv, UserInv, ControlInv
  <2> QED
    BY <1>4, <2>1 DEF MainPollInit, dbVars
<1>5. CASE MainLaunch
  BY <1>5 DEF MainLaunch, UserInv, ControlInv, NextHeight, dbVars
<1>6. CASE MainPollFollow
  BY <1>6 DEF MainPollFollow, NextHeight, dbVars, workerVars
<1> QED
  BY <1>1, <1>2, <1>3, <1>4, <1>5, <1>6 DEF MainStep

LEMMA WorkerMoves ==
  ASSUME CursorInv, NEW w \in Workers, WorkerStep(w)
  PROVE  /\ Working(w) /\ On'
         /\ ~InsertBlock(w) => blockTab' = blockTab
         /\ Passing(w) => Cursor' = Cursor + 1
         /\ ~Passing(w) => Cursor' = Cursor
<1> USE DEF Passing
<1>1. /\ Working(w) /\ mpc' = mpc /\ command' = command /\ height' = height
      /\ ~InsertBlock(w) => blockTab' = blockTab
  <2>1. CASE FetchBlock(w) \/ FetchTx(w) \/ TxsFetched(w) \/ InsertTx(w)
    BY <2>1 DEF FetchBlock, FetchTx, TxsFetched, InsertTx, mainVars, dbVars, tables, Working,
                TxRowInserted, TxRowRefused, TxRowCountFailed
  <2>2. CASE InsertBlock(w) \/ InsertDetail(w) \/ BlockDone(w) \/ Return(w)
    BY <2>2 DEF InsertBlock, InsertDetail, InsertDetailRows, BlockDone, Return, mainVars, dbVars, Working
  <2> QED
    BY <2>1, <2>2 DEF WorkerStep
<1>2. /\ cur' = cur \/ BlockDone(w)
      /\ task' = task \/ Return(w)
  BY DEF WorkerStep, FetchBlock, InsertBlock, FetchTx, TxsFetched, InsertTx, InsertDetail, BlockDone, Return
<1>3. CASE w = "genesis"
  <2>1. mpc = "pollInit" /\ Cursor = cur[w]
    BY <1>1, <1>3, WorkerAtCursor
  <2>2. BlockDone(w) => cur'[w] = cur[w] + 1
    BY <1>3 DEF BlockDone, CursorInv, UserInv, TypeInv, TypeOK
  <2> QED
    BY <1>1, <1>2, <1>3, <2>1, <2>2 DEF Cursor, On
<1>4. CASE w = "follow"
  <2>1. mpc = "pollFollow" /\ Cursor = NextHeight
    BY <1>1, <1>4, WorkerAtCursor
  <2>2. Return(w) => task'[w] = NextHeight + 1 /\ NextHeight \in Nat
    BY <1>4, <2>1 DEF Return, PublishedHeight, CursorInv, UserInv, TypeInv, TypeOK, Workers, FollowInv,
                      Holding, HoldingPcs, NextHeight
  <2>3. ~Return(w) => NextHeight' = NextHeight
    BY <1>1, <1>2 DEF NextHeight
  <2> QED
    BY <1>1, <1>4, <2>1, <2>2, <2>3 DEF Cursor, NextHeight, On
<1> QED
  BY <1>3, <1>4 DEF Workers

LEMMA OthersMove ==
  ASSUME CountStep \/ Wake \/ DbLost \/ Daemon, CursorInv
  PROVE  UNCHANGED <<On, blockTab>> /\ Cursor' = Cursor
<1>1. CASE \E n \in CountReplies : CountGenesis(n)
  <2>1. cur'["genesis"] = cur["genesis"]
    <3>1. mpc = "pollInit"
      BY <1>1, WorkingAlone DEF CountGenesis, Working, CursorInv, Workers
    <3> QED
      BY <1>1, <3>1 DEF CountGenesis, CursorInv, HeightInv, GenesisInv, UserInv, TypeInv, TypeOK, Workers
  <2> QED
    BY <1>1, <2>1 DEF CountGenesis, mainVars, dbVars, On, Cursor, NextHeight
<1>2. CASE \E n \in CountReplies : CountFollow(n)
  <2>1. cur'["genesis"] = cur["genesis"]
    BY <1>2 DEF CountFollow, CursorInv, UserInv, TypeInv, TypeOK, Workers
  <2> QED
    BY <1>2, <2>1 DEF CountFollow, mainVars, dbVars, On, Cursor, NextHeight
<1>3. CASE Wake \/ DbLost \/ Daemon
  BY <1>3 DEF Wake, DbLost, Daemon, mainVars, dbVars, workerVars, tables, On, Cursor, NextHeight
<1> QED
  BY <1>1, <1>2, <1>3 DEF CountStep

\* Every step of a process that goes on keeps the cursor or takes it one up,
\* and main() never reports more than the cursor.
THEOREM CursorGoesUp == Spec => CursorNeverBack
<1>1. CursorInv /\ [Next]_vars =>
        [mpc' \notin {"down", "connect"} => Cursor' >= Cursor /\ height' <= Cursor']_vars
  <2> SUFFICES ASSUME CursorInv, Next, mpc' \notin {"down", "connect"}
               PROVE  Cursor' >= Cursor /\ height' <= Cursor'
    OBVIOUS
  <2>1. CursorInv'
    BY StepCursorInv
  <2>2. Cursor \in Nat /\ (Cursor \in Nat)' /\ (height <= Cursor)'
    BY <2>1, CursorType, PTL
  <2>3. CASE Start \/ MainStep
    <3>1. CASE UNCHANGED <<On, blockTab>> /\ Cursor' = Cursor
      BY <3>1, <2>2
    <3>2. CASE ~On
      BY <3>2, <2>2, CursorType
    <3>3. CASE MainCountFails
      BY <3>3 DEF MainCountFails, Terminate
    <3> QED
      BY <2>3, <3>1, <3>2, <3>3, MainMoves
  <2>4. CASE \E w \in Workers : WorkerStep(w)
    BY <2>2, <2>4, WorkerMoves
  <2>5. CASE CountStep \/ Wake \/ DbLost \/ Daemon
    BY <2>2, <2>5, OthersMove
  <2>6. CASE DbRefused \/ Crash \/ \E w \in Workers : RpcDown(w)
    BY <2>6 DEF DbRefused, Crash, RpcDown, Terminate
  <2> QED
    BY <2>3, <2>4, <2>5, <2>6 DEF Next, Fault
<1> QED
  BY <1>1, InitCursorInv, StepCursorInv, PTL DEF Spec, CursorNeverBack

-----------------------------------------------------------------------------
(* Without a reorganisation nothing asked for or stored is above the chain. *)

NoReorg == "reorg" \notin Faults

\* Rows and work come from the daemon's chain.
ReachInv ==
    /\ blockTab \subseteq Served
    /\ NoReorg =>
         /\ \A b \in blockTab : b.height <= best
         /\ \A w \in Workers : Holding(w) /\ blk[w] # NoBlock => blk[w].height <= best
         /\ \A w \in Workers : goal[w] <= best
         /\ Cursor <= best + 2

ChainInv == CursorInv /\ ReachInv

\* One row a height: no more rows than heights.
LEMMA RowsBounded ==
  ASSUME ChainInv, NoReorg
  PROVE  BlockCount <= best + 1
<1> DEFINE h == [b \in blockTab |-> b.height]
<1>1. best \in Nat
  BY HeightAssumption DEF ChainInv, CursorInv, UserInv, TypeInv, TypeOK, NodeTypeOK, Heights
<1>2. \A b \in blockTab : b.height \in 0..best
  BY <1>1, HeightAssumption DEF ChainInv, ReachInv, Served, Block, Heights
<1>3. \A a, b \in blockTab : a.height = b.height => a = b
  BY DEF ChainInv, ReachInv, Served, Block, NoReorg
<1>4. h \in Injection(blockTab, 0..best)
  BY <1>2, <1>3 DEF Injection, IsInjective
<1>5. IsFiniteSet(0..best) /\ Cardinality(0..best) = best + 1
  BY <1>1, FS_Interval
<1> QED
  BY <1>4, <1>5, FS_Injection DEF BlockCount

LEMMA InitReachInv == Init => ReachInv
<1> SUFFICES ASSUME Init PROVE ReachInv
  OBVIOUS
<1>1. best \in Nat
  BY HeightAssumption DEF Init, NodeInit, Heights
<1> QED
  BY <1>1 DEF Init, DbInit, ForAll, ReachInv, Workers, Holding, HoldingPcs, Cursor

LEMMA BestNat == CursorInv => best \in Nat /\ \A w \in Workers : goal[w] \in Int
BY HeightAssumption DEF CursorInv, UserInv, TypeInv, TypeOK, NodeTypeOK, Heights

LEMMA TerminateReach ==
  ASSUME ChainInv, Terminate
  PROVE  ReachInv'
<1>1. best \in Nat /\ best' = best /\ blockTab' = blockTab
  BY BestNat DEF Terminate, ChainInv, nodeVars, tables
<1>2. Cursor' = 0 /\ \A w \in Workers : ~Holding(w)' /\ goal'[w] = -1
  BY DEF Terminate, Cursor, ForAll, Holding, HoldingPcs, Workers
<1> QED
  BY <1>1, <1>2 DEF ChainInv, ReachInv, Served, NoReorg

\* The height a worker at work handles is on the chain.
LEMMA WorkOnChain ==
  ASSUME ChainInv, NoReorg, NEW w \in Workers, pc[w] = "block" \/ Holding(w)
  PROVE  cur[w] <= best
<1>1. Working(w) /\ cur[w] \in Nat /\ best \in Nat /\ goal[w] \in Int
  BY HeightAssumption DEF ChainInv, CursorInv, UserInv, TypeInv, TypeOK, NodeTypeOK, Heights, Working, Holding, HoldingPcs
<1>2. cur[w] <= goal[w]
  BY <1>1, WorkingAlone DEF ChainInv, CursorInv, HeightInv, GenesisInv, FollowInv, Holding, HoldingPcs, Workers
<1> QED
  BY <1>1, <1>2 DEF ChainInv, ReachInv

LEMMA MainReach ==
  ASSUME ChainInv, Start \/ MainStep
  PROVE  ReachInv'
<1> USE DEF ChainInv
<1>1. CASE MainCountFails
  BY <1>1, TerminateReach DEF MainCountFails
<1>2. CASE ~MainCountFails
  <2>1. /\ UNCHANGED <<nodeVars, blockTab, goal, blk>>
        /\ \A w \in Workers : Holding(w)' => Holding(w)
    BY <1>2 DEF MainStep, Start, MainConnect, MainCount, MainPollInit, MainLaunch, MainPollFollow, dbVars,
                tables, workerVars, RunThread, Holding, HoldingPcs, CursorInv, UserInv, TypeInv, TypeOK
  <2>2. NoReorg => Cursor' <= best + 2
    <3>1. CASE Cursor' = Cursor
      BY <3>1 DEF ReachInv
    <3>2. CASE Cursor' = Abstract!FirstHeight(BlockCount)
      <4>1. BlockCount \in Nat /\ best \in Nat
        BY FS_CardinalityType, HeightAssumption
           DEF BlockCount, CursorInv, UserInv, TypeInv, TypeOK, NodeTypeOK, Heights
      <4> QED
        BY <3>2, <4>1, RowsBounded DEF Abstract!FirstHeight
    <3> QED
      BY <1>2, <3>1, <3>2, MainMoves
  <2> QED
    BY <2>1, <2>2 DEF ReachInv, Served, nodeVars, NoReorg
<1> QED
  BY <1>1, <1>2

LEMMA CountReach ==
  ASSUME ChainInv, CountStep \/ Wake
  PROVE  ReachInv'
<1> USE DEF ChainInv
<1>1. /\ UNCHANGED <<nodeVars, blockTab, blk>> /\ Cursor' = Cursor
      /\ \A w \in Workers : Holding(w)' => Holding(w)
  <2>1. UNCHANGED <<nodeVars, blockTab, blk>>
    BY DEF CountStep, CountGenesis, CountFollow, Wake, dbVars
  <2>2. \A w \in Workers : Holding(w)' => Holding(w)
    BY DEF CountStep, CountGenesis, CountFollow, Wake, Goto, Holding, HoldingPcs, CursorInv, UserInv, TypeInv, TypeOK
  <2> QED
    BY <2>1, <2>2, OthersMove
<1>2. \A n \in CountReplies : n \in Nat /\ n <= best
  BY BestNat DEF CountReplies
<1>3. NoReorg => \A w \in Workers : goal'[w] <= best
  <2>1. ASSUME NEW n \in CountReplies, CountGenesis(n) PROVE \A w \in Workers : goal'[w] = goal[w] \/ goal'[w] = n
    BY <2>1 DEF CountGenesis, CursorInv, UserInv, TypeInv, TypeOK
  <2>2. ASSUME NEW n \in CountReplies, CountFollow(n) PROVE \A w \in Workers : goal'[w] = goal[w] \/ goal'[w] <= n
    <3>1. NextHeight \in Nat /\ NextHeight >= 1
      BY <2>2, WorkingAlone DEF Working, CountFollow, NextHeight, HeightInv, CursorInv, UserInv, TypeInv, TypeOK, Workers
    <3> QED
      BY <1>2, <2>2, <3>1 DEF CountFollow, CursorInv, UserInv, TypeInv, TypeOK, Workers
  <2>3. CASE Wake
    BY <2>3 DEF Wake, ReachInv
  <2>4. best \in Nat /\ \A n \in CountReplies : \A m \in Int : m <= n => m <= best
    BY <1>2, BestNat
  <2>5. \A w \in Workers : goal'[w] \in Int
    <3>1. CursorInv'
      BY StepCursorInv DEF Next
    <3> QED
      BY <3>1 DEF CursorInv, UserInv, TypeInv, TypeOK
  <2>6. CASE CountStep
    BY <1>2, <2>1, <2>2, <2>4, <2>5, <2>6 DEF CountStep, ReachInv
  <2> QED
    BY <2>3, <2>6
<1> QED
  BY <1>1, <1>3 DEF ReachInv, Served, NoReorg, nodeVars

LEMMA WorkerReach ==
  ASSUME ChainInv, NEW w \in Workers, WorkerStep(w)
  PROVE  ReachInv'
<1> USE DEF ChainInv
<1>1. UNCHANGED <<best, branch, goal>>
  BY DEF WorkerStep, FetchBlock, InsertBlock, FetchTx, TxsFetched, InsertTx, InsertDetail, BlockDone, Return, nodeVars
<1>2. blockTab' = blockTab \/ (Holding(w) /\ blk[w] # NoBlock /\ blockTab' = blockTab \cup {blk[w]})
  BY WorkerMoves DEF InsertBlock, InsertBlockRow, dbVars, Holding, HoldingPcs
<1>3. blockTab' \subseteq Served /\ (NoReorg => \A b \in blockTab' : b.height <= best)
  BY <1>2 DEF ReachInv, CursorInv, BlockInv
<1>4. ASSUME NoReorg, NEW v \in Workers, Holding(v)', blk'[v] # NoBlock
      PROVE  blk'[v].height <= best
  <2>1. CASE FetchBlock(w) /\ v = w
    <3>1. cur[w] <= best /\ blk'[w] = BlockAt(cur[w])
      BY <1>4, <2>1 DEF FetchBlock, NoReorg, CursorInv, UserInv, TypeInv, TypeOK
    <3> QED
      BY <2>1, <3>1 DEF BlockAt
  <2>2. CASE ~(FetchBlock(w) /\ v = w)
    <3>1. Holding(v) /\ blk'[v] = blk[v]
      BY <1>4, <2>2
         DEF WorkerStep, FetchBlock, InsertBlock, FetchTx, TxsFetched, InsertTx, InsertDetail, BlockDone, Return,
             Goto, Holding, HoldingPcs, CursorInv, UserInv, TypeInv, TypeOK, Workers
    <3> QED
      BY <1>4, <3>1 DEF ReachInv
  <2> QED
    BY <2>1, <2>2
<1>5. NoReorg => Cursor' <= best + 2
  <2>1. CASE Passing(w)
    <3>1. Holding(w) /\ Working(w)
      BY <2>1 DEF Passing, BlockDone, Return, Holding, HoldingPcs, Working, Workers
    <3>2. Cursor = cur[w] /\ Cursor \in Nat /\ best \in Nat
      BY <3>1, WorkerAtCursor, CursorType, BestNat
    <3> QED
      BY <2>1, <3>1, <3>2, WorkOnChain, WorkerMoves
  <2>2. CASE ~Passing(w)
    BY <2>2, WorkerMoves DEF ReachInv
  <2> QED
    BY <2>1, <2>2
<1> QED
  BY <1>1, <1>3, <1>4, <1>5 DEF ReachInv, Served, NoReorg

LEMMA StepChainInv == ChainInv /\ [Next]_vars => ChainInv'
<1> SUFFICES ASSUME ChainInv, [Next]_vars PROVE ReachInv'
  BY StepCursorInv DEF ChainInv
<1>1. CASE UNCHANGED vars
  BY <1>1 DEF ChainInv, ReachInv, vars, nodeVars, dbVars, mainVars, workerVars, Served, NoReorg, Holding,
              HoldingPcs, Cursor, NextHeight
<1>2. CASE Start \/ MainStep
  BY <1>2, MainReach
<1>3. CASE CountStep \/ Wake \/ \E w \in Workers : WorkerStep(w)
  BY <1>3, CountReach, WorkerReach
<1>4. CASE DbLost
  <2>1. Cursor' = Cursor
    BY <1>4, OthersMove DEF ChainInv
  <2> QED
    BY <1>4, <2>1 DEF ChainInv, ReachInv, DbLost, nodeVars, tables, workerVars, Served, NoReorg, Holding, HoldingPcs
<1>5. CASE Daemon
  <2>1. Cursor' = Cursor /\ Cursor \in Nat
    BY <1>5, OthersMove, CursorType DEF ChainInv
  <2>2. NoReorg => best' = best + 1 /\ best \in Nat
    BY <1>5, BestNat DEF Daemon, Extend, Reorg, NoReorg, ChainInv
  <2>3. /\ UNCHANGED <<blockTab, goal, blk, pc>>
        /\ \A w \in Workers : goal[w] \in Int
    BY <1>5, BestNat DEF Daemon, dbVars, workerVars, ChainInv
  <2>4. \A b \in Block : b.height \in Nat
    BY HeightAssumption DEF Block, Heights
  <2>5. blockTab \subseteq Block /\ \A w \in Workers : blk[w] \in Block \cup {NoBlock}
    BY DEF ChainInv, CursorInv, UserInv, TypeInv, TypeOK, DbTypeOK
  <2>6. NoReorg => /\ \A b \in blockTab : b.height <= best'
                   /\ \A w \in Workers : Holding(w) /\ blk[w] # NoBlock => blk[w].height <= best'
    BY <2>2, <2>4, <2>5 DEF ChainInv, ReachInv
  <2>7. NoReorg => Cursor <= best' + 2 /\ \A w \in Workers : goal[w] <= best'
    BY <2>1, <2>2, <2>3 DEF ChainInv, ReachInv
  <2> QED
    BY <2>1, <2>3, <2>6, <2>7 DEF ChainInv, ReachInv, Served, NoReorg, Holding, HoldingPcs
<1>6. CASE DbRefused \/ Crash \/ \E w \in Workers : RpcDown(w)
  BY <1>6, TerminateReach DEF DbRefused, Crash, RpcDown
<1> QED
  BY <1>1, <1>2, <1>3, <1>4, <1>5, <1>6 DEF Next, Fault

LEMMA InitChainInv == Init => ChainInv
BY InitCursorInv, InitReachInv DEF ChainInv

\* Whatever fails, an indexer on a chain that only grows asks for no block above
\* it, and is at most two heights past the best one: where a restart puts it.
THEOREM CursorNearChain ==
  ASSUME "reorg" \notin Faults
  PROVE  Spec => []NeverFarAhead
<1>1. ChainInv => NeverFarAhead
  BY WorkOnChain DEF ChainInv, ReachInv, NeverFarAhead, NoReorg
<1> QED
  BY <1>1, InitChainInv, StepChainInv, PTL DEF Spec
=============================================================================
