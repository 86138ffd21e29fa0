----------------------------- MODULE FidInventor -----------------------------
(***************************************************************************)
(* The indexer process: main(), the two CFidTaskSchedule threads it starts *)
(* (main.cc, taskschedule.cpp) and the handler a task runs (wrap.cpp).     *)
(*                                                                         *)
(* main() connects to MySQL and counts the stored blocks.  With an empty   *)
(* table it runs the genesis worker once over heights 0..best and busy-    *)
(* waits for it; then, or at once when there are blocks, it starts the     *)
(* follow worker, which handles one height per round for ever.  A worker   *)
(* publishes the height of its task only when call() has returned; main()  *)
(* reads it without a lock.                                                *)
(*                                                                         *)
(* Every RPC and every SQL statement is a step of its own, so that a       *)
(* crash, a lost connection, a new block or a reorganisation can come in   *)
(* between any two of them.  An exception nobody catches ends the process. *)
(***************************************************************************)
EXTENDS MysqlDb, Integers

CONSTANT MaxHalts   \* bound: faults that end the process or its connection

ASSUME MaxHaltsAssumption == MaxHalts \in Nat

Workers == {"genesis", "follow"}

VARIABLES
    mpc,      \* where main() is; "down" when no process runs
    height,   \* main.cc's global: the height main() reports
    command,  \* the number main() registered the follow task with
    halts,    \* faults so far that ended the process or its connection
    pc,       \* where each worker thread is inside CFidTask::call()
    task,     \* (*it).height of the shared task list: what getTask() returns
    goal,     \* the thread's own copy of the task: ftask.height
    cur,      \* the height the worker is handling
    blk,      \* CFidHandler::block, NoBlock when its hash is ""
    todo,     \* ids of the block's transactions still to be fetched
    vtx       \* CFidHandler::vtx: fetched transactions still to be inserted

mainVars == <<mpc, height, command, halts>>
workerVars == <<pc, task, goal, cur, blk, todo, vtx>>
vars == <<nodeVars, dbVars, mainVars, workerVars>>

ForAll(v) == [w \in Workers |-> v]

Init ==
    /\ NodeInit
    /\ DbInit
    /\ mpc = "down" /\ height = 0 /\ command = 0 /\ halts = 0
    /\ pc = ForAll("off") /\ task = ForAll(-1) /\ goal = ForAll(-1) /\ cur = ForAll(0)
    /\ blk = ForAll(NoBlock) /\ todo = ForAll(<<>>) /\ vtx = ForAll(<<>>)

\* The process is gone: its memory and its connection go, the tables stay.
Terminate ==
    /\ mpc' = "down" /\ height' = 0 /\ command' = 0
    /\ conn' = "none"
    /\ pc' = ForAll("off") /\ task' = ForAll(-1) /\ goal' = ForAll(-1) /\ cur' = ForAll(0)
    /\ blk' = ForAll(NoBlock) /\ todo' = ForAll(<<>>) /\ vtx' = ForAll(<<>>)
    /\ UNCHANGED <<nodeVars, tables>>

CanHalt == mpc # "down" /\ halts < MaxHalts /\ halts' = halts + 1

-----------------------------------------------------------------------------
(* main() *)

Start ==
    /\ mpc = "down"
    /\ mpc' = "connect"
    /\ UNCHANGED <<nodeVars, dbVars, height, command, halts, workerVars>>

\* initGensisBlock(): the process-wide connection, with the configured login.
MainConnect ==
    /\ mpc = "connect"
    /\ InitDb("config")
    /\ mpc' = "count"
    /\ UNCHANGED <<nodeVars, tables, height, command, halts, workerVars>>

\* m_con throws on a refused connection and main() does not catch.
DbRefused ==
    /\ "dbDown" \in Faults
    /\ mpc = "connect"
    /\ CanHalt
    /\ Terminate

\* Mutants of RestartHeight: two heights too far; the number of rows itself.
RestartHeightFar(n) == n + 2
RestartHeightNear(n) == n

\* The height the follow worker starts from when n blocks are stored.
RestartHeight(n) == n + 1

\* Thread::run(): a thread is made, and is in work() when it is scheduled.
RunThread(w) == pc' = [pc EXCEPT ![w] = "count"]

\* initGensisBlock(): blocks are there, or the genesis task has to run.
MainCount ==
    /\ mpc = "count"
    /\ CanExecute
    /\ \/ /\ BlockCount > 0
          /\ height' = RestartHeight(BlockCount)
          /\ mpc' = "launch"
          /\ UNCHANGED pc
       \/ /\ BlockCount = 0
          /\ height' = 0
          /\ mpc' = "pollInit"
          /\ RunThread("genesis")
    /\ UNCHANGED <<nodeVars, dbVars, command, halts, task, goal, cur, blk, todo, vtx>>

\* queryBlockCount() has no try: a failed query ends the process.
MainCountFails ==
    /\ mpc = "count"
    /\ \/ ~CanExecute /\ UNCHANGED halts
       \/ MayFail /\ CanHalt
    /\ Terminate

\* The busy wait of initGensisBlock(), leaving when a height is published.
MainPollInit ==
    /\ mpc = "pollInit"
    /\ task["genesis"] # -1
    /\ height' = task["genesis"] + 1
    /\ mpc' = "launch"
    /\ UNCHANGED <<nodeVars, dbVars, command, halts, workerVars>>

MainLaunch ==
    /\ mpc = "launch"
    /\ command' = height
    /\ RunThread("follow")
    /\ mpc' = "pollFollow"
    /\ UNCHANGED <<nodeVars, dbVars, height, halts, task, goal, cur, blk, todo, vtx>>

MainPollFollow ==
    /\ mpc = "pollFollow"
    /\ task["follow"] \notin {-1, height}
    /\ height' = task["follow"]
    /\ UNCHANGED <<nodeVars, dbVars, mpc, command, halts, workerVars>>

-----------------------------------------------------------------------------
(* A worker thread: CFidTask::call() and the rpc and db handlers it calls. *)

Goto(w, l) == pc' = [pc EXCEPT ![w] = l]

\* Mutants of CountReplies: the error's code taken for the height.
CountRepliesCode == {best} \cup IF "rpcError" \in Faults THEN {-5} ELSE {}
CountRepliesUnset == {best} \cup IF "rpcError" \in Faults THEN {-1} ELSE {}

\* getBlockCount(): an error reply leaves "error: ..." for atoi64, which is 0.
CountReplies == {best} \cup IF "rpcError" \in Faults THEN {0} ELSE {}

\* Mutant of CountGenesis: the shared task is given its height at once.
CountGenesisEarly(n) ==
    /\ pc["genesis"] = "count"
    /\ goal' = [goal EXCEPT !["genesis"] = n]
    /\ task' = [task EXCEPT !["genesis"] = n]
    /\ cur' = [cur EXCEPT !["genesis"] = 0]
    /\ Goto("genesis", "block")
    /\ UNCHANGED <<nodeVars, dbVars, mainVars, blk, todo, vtx>>

\* TASK_BLOCKGENSIS: the loop runs over 0..n.
CountGenesis(n) ==
    /\ pc["genesis"] = "count"
    /\ goal' = [goal EXCEPT !["genesis"] = n]
    /\ cur' = [cur EXCEPT !["genesis"] = 0]
    /\ Goto("genesis", "block")
    /\ UNCHANGED <<nodeVars, dbVars, mainVars, task, blk, todo, vtx>>

\* TASK_BLOCK_OR_TRANS: the height of this round.
NextHeight == IF task["follow"] # -1 THEN task["follow"] ELSE command

\* Mutants of CountFollow: a height above the chain is cut down to the best
\* one; the range test is off by one.
CountFollowClamped(n) ==
    /\ pc["follow"] = "count"
    /\ cur' = [cur EXCEPT !["follow"] = IF NextHeight > n THEN n ELSE NextHeight]
    /\ goal' = [goal EXCEPT !["follow"] = cur'["follow"]]
    /\ Goto("follow", "block")
    /\ UNCHANGED <<nodeVars, dbVars, mainVars, task, blk, todo, vtx>>

CountFollowAhead(n) ==
    /\ pc["follow"] = "count"
    /\ \/ /\ NextHeight > n + 1
          /\ Goto("follow", "sleep")
          /\ UNCHANGED <<goal, cur>>
       \/ /\ NextHeight <= n + 1
          /\ cur' = [cur EXCEPT !["follow"] = NextHeight]
          /\ goal' = [goal EXCEPT !["follow"] = NextHeight]
          /\ Goto("follow", "block")
    /\ UNCHANGED <<nodeVars, dbVars, mainVars, task, blk, todo, vtx>>

CountFollow(n) ==
    /\ pc["follow"] = "count"
    /\ \/ /\ NextHeight > 0 /\ NextHeight > n      \* out of range: later
          /\ Goto("follow", "sleep")
          /\ UNCHANGED <<goal, cur>>
       \/ /\ NextHeight <= 0 \/ NextHeight <= n
          /\ cur' = [cur EXCEPT !["follow"] = IF NextHeight <= 0 THEN n ELSE NextHeight]
          /\ goal' = [goal EXCEPT !["follow"] = cur'["follow"]]
          /\ Goto("follow", "block")
    /\ UNCHANGED <<nodeVars, dbVars, mainVars, task, blk, todo, vtx>>

\* getBlockByNumber(): out of range or an error reply leaves the hash empty
\* and the list of transactions too, and the task goes on.
FetchBlock(w) ==
    /\ pc[w] = "block"
    /\ \/ /\ cur[w] <= best
          /\ blk' = [blk EXCEPT ![w] = BlockAt(cur[w])]
          /\ todo' = [todo EXCEPT ![w] = TxsOf[BlockAt(cur[w])]]
       \/ /\ cur[w] > best \/ "rpcError" \in Faults
          /\ blk' = [blk EXCEPT ![w] = NoBlock]
          /\ todo' = [todo EXCEPT ![w] = <<>>]
    /\ vtx' = [vtx EXCEPT ![w] = <<>>]
    /\ Goto(w, IF w = "genesis" THEN "insertBlock" ELSE "tx")
    /\ UNCHANGED <<nodeVars, dbVars, mainVars, task, goal, cur>>

\* insertDBBlock(): nothing for an empty hash, else initDb() with the login
\* compiled in and the insert.
InsertBlock(w) ==
    /\ pc[w] = "insertBlock"
    /\ IF blk[w] = NoBlock
         THEN UNCHANGED dbVars
         ELSE InitDb("builtin") /\ InsertBlockRow(blk[w])
    /\ Goto(w, IF w = "genesis" THEN "tx" ELSE "insertTx")
    /\ UNCHANGED <<nodeVars, mainVars, task, goal, cur, blk, todo, vtx>>

\* getTransaction(): an error reply leaves a transaction without an id, which
\* insertDBTrans() passes over; it is left out of vtx here.
FetchTx(w) ==
    /\ pc[w] = "tx"
    /\ todo[w] # <<>>
    /\ todo' = [todo EXCEPT ![w] = Tail(todo[w])]
    /\ \/ /\ TxKnown(Head(todo[w]))
          /\ vtx' = [vtx EXCEPT ![w] = Append(vtx[w], Head(todo[w]))]
       \/ /\ ~TxKnown(Head(todo[w])) \/ "rpcError" \in Faults
          /\ UNCHANGED vtx
    /\ UNCHANGED <<nodeVars, dbVars, mainVars, pc, task, goal, cur, blk>>

\* Mutant of AfterTxs: insertDBBlockTrans without insertDBBlock.
AfterTxsNoBlock(w) == "insertTx"

\* All fetched: the genesis task stored the block before, the follow task
\* stores it now (insertDBBlockTrans: insertDBBlock, then insertDBTrans).
AfterTxs(w) == IF w = "genesis" THEN "insertTx" ELSE "insertBlock"

TxsFetched(w) ==
    /\ pc[w] = "tx"
    /\ todo[w] = <<>>
    /\ Goto(w, AfterTxs(w))
    /\ UNCHANGED <<nodeVars, dbVars, mainVars, task, goal, cur, blk, todo, vtx>>

\* insertDBTrans(): the transaction's row, and its details unless it failed.
InsertTx(w) ==
    /\ pc[w] = "insertTx"
    /\ vtx[w] # <<>>
    /\ InitDb("config")
    /\ \/ /\ TxRowInserted(Head(vtx[w]))
          /\ Goto(w, "detail")
          /\ UNCHANGED vtx
       \/ /\ TxRowRefused(Head(vtx[w])) \/ TxRowCountFailed(Head(vtx[w]))
          /\ vtx' = [vtx EXCEPT ![w] = Tail(vtx[w])]
          /\ UNCHANGED pc
    /\ UNCHANGED <<nodeVars, mainVars, task, goal, cur, blk, todo>>

InsertDetail(w) ==
    /\ pc[w] = "detail"
    /\ InsertDetailRows(Head(vtx[w]))
    /\ vtx' = [vtx EXCEPT ![w] = Tail(vtx[w])]
    /\ Goto(w, "insertTx")
    /\ UNCHANGED <<nodeVars, conn, mainVars, task, goal, cur, blk, todo>>

\* Mutant of BlockDone: the loop over vtx stops before the last transaction.
BlockDoneShort(w) ==
    /\ pc[w] = "insertTx"
    /\ Len(vtx[w]) <= 1
    /\ cur' = IF w = "genesis" THEN [cur EXCEPT ![w] = cur[w] + 1] ELSE cur
    /\ Goto(w, IF w = "genesis" /\ cur[w] + 1 <= goal[w] THEN "block" ELSE "return")
    /\ UNCHANGED <<nodeVars, dbVars, mainVars, task, goal, blk, todo, vtx>>

\* The block is done: the genesis loop goes on to the next height.
BlockDone(w) ==
    /\ pc[w] = "insertTx"
    /\ vtx[w] = <<>>
    /\ \/ /\ w = "genesis"
          /\ cur' = [cur EXCEPT ![w] = cur[w] + 1]
          /\ Goto(w, IF cur[w] + 1 <= goal[w] THEN "block" ELSE "return")
       \/ /\ w = "follow"
          /\ Goto(w, "return")
          /\ UNCHANGED cur
    /\ UNCHANGED <<nodeVars, dbVars, mainVars, task, goal, blk, todo, vtx>>

\* Mutant of PublishedHeight: the height after the loop of the genesis task.
PublishedHeightNext(w) == goal[w] + 1

\* work() after call(): the genesis task never sets its status, the follow
\* task always did when it gets here, whatever became of the block.
PublishedHeight(w) == IF w = "genesis" THEN goal[w] ELSE goal[w] + 1

Return(w) ==
    /\ pc[w] = "return"
    /\ task' = [task EXCEPT ![w] = PublishedHeight(w)]
    /\ blk' = [blk EXCEPT ![w] = NoBlock]     \* the handler goes with call()
    /\ Goto(w, IF w = "genesis" THEN "done" ELSE "sleep")
    /\ UNCHANGED <<nodeVars, dbVars, mainVars, goal, cur, todo, vtx>>

\* The pacing sleep ends and the next round begins.
Wake ==
    /\ pc["follow"] = "sleep"
    /\ Goto("follow", "count")
    /\ UNCHANGED <<nodeVars, dbVars, mainVars, task, goal, cur, blk, todo, vtx>>

-----------------------------------------------------------------------------
(* Faults *)

\* The process is killed.
Crash ==
    /\ "crash" \in Faults
    /\ CanHalt
    /\ Terminate

\* CallRPC() throws (refused connection, HTTP error, unreadable reply) and
\* the thread has no handler: the process is terminated.
RpcDown(w) ==
    /\ "rpcDown" \in Faults
    /\ pc[w] \in {"count", "block"} \/ (pc[w] = "tx" /\ todo[w] # <<>>)
    /\ CanHalt
    /\ Terminate

\* The server closes the connection; inited stays up.
DbLost ==
    /\ "dbDown" \in Faults
    /\ CanExecute
    /\ CanHalt
    /\ conn' = "lost"
    /\ UNCHANGED <<nodeVars, tables, mpc, height, command, workerVars>>

Daemon ==
    /\ Extend \/ Reorg
    /\ UNCHANGED <<dbVars, mainVars, workerVars>>

-----------------------------------------------------------------------------

MainStep ==
    \/ MainConnect \/ MainCount \/ MainCountFails
    \/ MainPollInit \/ MainLaunch \/ MainPollFollow

WorkerStep(w) ==
    \/ FetchBlock(w) \/ InsertBlock(w)
    \/ FetchTx(w) \/ TxsFetched(w)
    \/ InsertTx(w) \/ InsertDetail(w) \/ BlockDone(w) \/ Return(w)

CountStep ==
    \E n \in CountReplies : CountGenesis(n) \/ CountFollow(n)

Fault == DbRefused \/ Crash \/ DbLost \/ \E w \in Workers : RpcDown(w)

Next ==
    \/ Start \/ MainStep
    \/ CountStep \/ (\E w \in Workers : WorkerStep(w)) \/ Wake
    \/ Fault
    \/ Daemon

Spec == Init /\ [][Next]_vars

\* The operating system schedules every thread, the supervisor starts the
\* process again, and the daemon answers getblockcount again and again.
Fairness ==
    /\ WF_vars(Start) /\ WF_vars(MainStep)
    /\ WF_vars(CountStep) /\ WF_vars(Wake)
    /\ SF_vars(CountFollow(best))
    /\ \A w \in Workers : WF_vars(WorkerStep(w))

FairSpec == Spec /\ Fairness

-----------------------------------------------------------------------------
(* Properties *)

TypeOK ==
    /\ NodeTypeOK
    /\ DbTypeOK
    /\ mpc \in {"down", "connect", "count", "pollInit", "launch", "pollFollow"}
    /\ height \in Nat /\ command \in Nat /\ halts \in 0..MaxHalts
    /\ pc \in [Workers -> {"off", "count", "block", "tx", "insertBlock", "insertTx",
                          "detail", "return", "sleep", "done"}]
    /\ task \in [Workers -> Nat \cup {-1}]
    /\ goal \in [Workers -> Nat \cup {-1}]
    /\ cur \in [Workers -> Nat]
    /\ blk \in [Workers -> Block \cup {NoBlock}]
    /\ todo \in [Workers -> Seq(Tx)]
    /\ vtx \in [Workers -> Seq(Tx)]

\* The threads that are about to use the one MySQL connection, which no lock
\* protects (mysqldb.cpp:83, wrap.cpp:71-89).
DbUsers ==
    {w \in Workers : pc[w] \in {"insertBlock", "insertTx", "detail"}}
    \cup {m \in {"main"} : mpc \in {"connect", "count"}}

\* The height the process handles next, 0 while it is not indexing.
Cursor ==
    CASE mpc = "pollInit" -> cur["genesis"]
      [] mpc = "launch" -> height
      [] mpc = "pollFollow" -> NextHeight
      [] OTHER -> 0

\* A block is indexed when its row, its transactions' rows and all their
\* detail rows are there.
Indexed(b) == b \in blockTab /\ TxIds(b) \subseteq txTab \cap detTab

\* main() and the workers never use the unlocked connection at the same time:
\* a worker's height is published, and the next thread started, only after
\* call() has returned (taskschedule.cpp:126-142, main.cc:86-92).
OneDbUser == \A a, b \in DbUsers : a = b

\* The login compiled into wrap.cpp:6-9 never reaches the server, although
\* insertBk() offers it before every block: main() connects first.
ConfigLoginOnly == conn # "builtin"

\* Without faults every height the process has passed is indexed completely.
IndexedBelowCursor == \A h \in 0..(Cursor - 1) : Indexed(BlockAt(h))

\* Without a reorganisation the process never asks for a block the daemon
\* does not have (taskschedule.cpp:74) and never runs more than one height
\* ahead of the next block, whatever its restarts (main.cc:73) and errors.
NeverFarAhead ==
    /\ Cursor <= best + 2
    /\ \A w \in Workers : pc[w] = "block" => cur[w] <= best

\* While no statement fails, a transaction's row comes after the row of a
\* block that holds it (taskschedule.cpp:36-42, wrap.cpp:391-396).
TxAfterBlock == \A t \in txTab : \E b \in blockTab : t \in TxIds(b)

\* Crashes leave blocks half indexed and no restart repairs them, but each
\* costs one block at most: the worker handles one block at a time.
InWork == {blk[w] : w \in {v \in Workers : pc[v] \in {"tx", "insertBlock", "insertTx", "detail"}}}
HalfIndexed == {b \in blockTab : ~Indexed(b)}
OneHalfIndexedPerHalt == Cardinality(HalfIndexed \ InWork) <= halts

StoredHeights == {b.height : b \in blockTab}

\* main.cc:22, :66 and :77 say that the init task stores the blocks from
\* genesis to the best one and is left out when that has been done: no height
\* the cursor has passed is then without its block.
NoHeightLeftOut == \A h \in 0..(Cursor - 1) : h \in StoredHeights

\* taskschedule.cpp:75 gives the daemon's "Block number out of range." as the
\* reply that leaves the status 0: the follow task has a block whenever it
\* comes to "5. set status ok".
StatusOkHasBlock == pc["follow"] = "return" => blk["follow"] # NoBlock

\* A process that began on an empty table stores no second block of a height,
\* whatever the chain and the connection do.  A later one may, since it begins
\* where the number of rows says (main.cc:73), but only above two heights that
\* have no row.
SecondBlockNeedsGaps ==
    \A a, b \in blockTab : a # b /\ a.height = b.height =>
        /\ pc["genesis"] = "off"
        /\ \E i, j \in 0..(a.height - 1) : i # j /\ i \notin StoredHeights /\ j \notin StoredHeights

\* The cursor of a running process never goes back, and what main() reports
\* never overtakes it.
CursorNeverBack ==
    [][mpc' \notin {"down", "connect"} => Cursor' >= Cursor /\ height' <= Cursor']_vars

\* Without faults every block the daemon reports is indexed some day.
EveryBlockIndexed ==
    \A h \in Heights : (best >= h) ~> (h \in StoredHeights /\ Indexed(BlockAt(h)))

\* Whatever fails, the indexer comes past every height the daemon keeps
\* reporting: main()'s busy wait ends, no error stops the follow worker.
CursorPassesEveryHeight ==
    \A h \in Heights : (best >= h) ~> (Cursor > h)

\* The blocks the daemon ever serves.
Served == {b \in Block : "reorg" \in Faults \/ b.branch = MainBranch}

\* The process implements the sequential indexer.
Abstract == INSTANCE Indexer WITH
    Block <- Served,
    Lossy <- ~(Faults \subseteq {"crash", "rpcDown"}),
    on <- mpc \in {"pollInit", "launch", "pollFollow"},
    next <- Cursor,
    stored <- blockTab

ImplementsIndexer == Abstract!Spec

\* However often the process is stopped, at most one height stays without a
\* block: restarting skips one height, and only while none is missing.
AtMostOneGap == Abstract!AtMostOneGap
=============================================================================
