# fidinventor in TLA+

fidinventor copies a coin daemon's block chain into MySQL: it asks the daemon
for blocks and transactions over JSON-RPC and inserts them into four tables.
This directory holds TLA+ models of it, the TLC configurations that check them
on small instances and theorems about them that TLAPS checks for all instances.
Paths below are relative to the repository root (`src/src/` is the program's source
directory when the repository is checked out as `src/`).

## 1. The system

| Part | Source | State it keeps | Operations |
|---|---|---|---|
| main | `src/main.cc` | `height`, the two scheduler objects | `initGensisBlock()` connects, counts the stored blocks, runs the genesis task if there are none and busy-waits for it; `main()` starts the follow worker and polls it for ever |
| task scheduler | `src/taskschedule.cpp`, `.h` | a task list per thread, shared with main without a lock: `height`, `status` | `work()`: copy the task, `call()` it, write its height back, sleep; `getTask()` |
| tasks | `CFidTask::call()` | the thread's copy of the task | `TASK_BLOCKGENSIS`: all heights 0..best once; `TASK_BLOCK_OR_TRANS`: one height a round |
| handler | `src/wrap.cpp` | the block and transactions being copied | `getBlockCount`, `getBlockByNumber`, `getTransaction`, `switchBk`, `switchTx`, `insertDBBlock`, `insertDBTrans` |
| MySQL store | `src/mysqldb/mysqldb.cpp`, `fidinventor.sql` | one connection for the process, `inited`; the tables `block`, `blocktransaction`, `blocktx_vout`, `blocktx_vin` | `initDb` (two forms), `insertBlock`, `insertTx`, `queryBlockCount` |
| RPC client | `src/rpcclient.cpp`, `rpcprotocol.cpp` | the socket and the buffers of one call, none between calls | `CallRPC`, the HTTP reader, `RPCConvertValues` |
| thread class | `src/thread.h` | `m_thread`, `running` | `run`, `catchUp`, `deleteThreadSafe` |
| configuration, utilities | `src/config.cpp`, `src/utils.cpp` | `mapArgs` | parsing, `GetArg`, Base64, time |
| JSON, formatting | `src/json/`, `src/tinyformat.h` | the value under construction with pointers into it | vendored json_spirit (reader, writer, getters) and tinyformat |
| coin daemon | not in the repository | its best chain | `getblockcount`, `getblockbynumber`, `gettransaction` |

How they interact. `main()` is one thread, each scheduler another. The genesis
worker runs alone; `main()` reads its published height and starts the follow
worker with it. A worker's task calls the daemon and the database one call after
another. No statement is in a transaction; no return code of an insert is looked
at; no exception of an RPC is caught, so one ends the process. What survives the
process is the tables, and of them a new process reads only the number of rows
of `block`.

What is hard here: the hand-over of a height between threads without a lock; a
process that dies between two statements and restarts from a row count; error
replies that pass for data (an error text parsed as the number 0, an empty block
that counts as success); a chain that reorganises between two replies; a
connection that breaks while a flag says it is open; SQL whose effect on the
detail tables depends on statement order; and a sleep computed from clocks.
`PROJECT.json` lists each of these at its line under `hazards`, with the properties that would catch it.

What makes each part correct:

* the process: blocks are indexed in order and completely without faults; with
  faults the loss is bounded; the cursor never goes back; every height is passed;
* the store: a process that began on an empty table gives no height a second block, a later one (it begins where the
  row count says) only above two heights that have none; rows of transactions follow rows of blocks, the
  connection is the configured one and has one user at a time;
* the detail tables: an input shows the amount of an output its own transaction spends;
* the RPC client: a call fails or has what the daemon's reply says, whole, however the connection behaves; it ends when the connection does;
* the JSON library: what is read is what was written, a text that is cut or malformed is refused, the parser's pointers stay valid;
* the records: a block's record comes from that block's reply alone, and a documented reply is stored without an exception;
* the configuration, the login, the requests: the values that were written are the values that arrive;
* the typing: `W` and `S` mean what the coin means by them;
* the pacing: the worker keeps up with every chain whose spacing leaves it room, and no arithmetic makes it sleep longer than it should.

## 2. The modules

| Module | Models | Extends |
|---|---|---|
| `Node` | the daemon: a chain that grows (`Extend`) and switches branch (`Reorg`) | |
| `MysqlDb` | `CMysqlDb` and the tables, a detail row set per transaction | `Node` |
| `FidInventor` | `main()`, both workers, the handler calls, faults; composes the two above | `MysqlDb` |
| `Indexer` | the abstract sequential indexer: one cursor, one table | |
| `TxStore` | `insertTx()` statement by statement | |
| `Pacing` | the sleep in `work()` against a timed chain | |
| `JsonReader` | the JSON grammar with its semantic actions and pointers, a token a step; which texts are a value's (`Written`); `find_value` | |
| `JsonWriter` | the writer: the text of each part from those of its kids; objects and arrays of given members | `JsonReader` |
| `JsonLanguage` | the language of JSON by the length of its sentences; recursive, for TLC only | `JsonReader` |
| `Rpc` | what a call promises the handler: it fails, or yields the meaning of the reply | |
| `RpcClient` | `CallRPC()` and the HTTP reader, item by item, against a server that may do anything; implements `Rpc` | `JsonReader` |
| `RpcRequest` | a command to the request object: `switchParams`, `RPCConvertValues`, `JSONRPCRequest`; its text read by the daemon, as a job | `Job`, `JsonWriter` |
| `JsonText` | strings in JSON: escapes written and read, byte by byte | |
| `Base64` | `EncodeBase64`, `DecodeBase64` | |
| `FidConfig` | the configuration file, `mapArgs`, its getters | |
| `MachineInt`, `JsonValue` | the build's `int`; values and the getters of `json_spirit_value.h` and `wrap.h` | |
| `BlockRecord` | `CFidBlock`, `clear()`, `switchBk()` | `JsonValue` |
| `TxClassify` | `switchTx()`: fields, inputs, outputs, the type | `JsonValue` |
| `SleepArith` | the sleep of `work()` in `int`s that overflow | `MachineInt` |
| `Job` | what a job is: an input, and the functions that handle it one after another | |
| `Records` | the conversions of the last three as jobs over any allowed reply or round: both workers' handlers, the exception, `gettransaction`, the sleep | `Job`, the last three |
| `Texts` | the conversions of texts as jobs over any text: the login, a string in JSON, the configuration | `Job`, `JsonText`, `Base64`, `FidConfig` |
| `Conversions` | the jobs of all three and that of any text read as JSON, so that one run checks all the pure functions | `RpcRequest`, `JsonLanguage`, `Records`, `Texts` |
| `MCFidInventor`, `MCTxStore`, `MCRpcClient`, `MCConversions` | instances for TLC | |
| `IndexerProofs` | theorem about the abstract indexer | `Indexer` |
| `FidInventorProofs` | theorems about the process: types, exclusion, the cursor | `FidInventor` |
| `RefinementProofs` | the refinement, what it carries over, what is in the tables | `FidInventorProofs`, `IndexerProofs` |
| `TxStoreProofs` | theorems about the detail tables | `TxStore` |
| `ConversionProofs` | theorems about the conversions, the sleep and the requests | `Records`, `Texts`, `RpcRequest`, `JsonReaderProofs` |
| `PacingProofs` | theorems about how late the follow task is | `Pacing` |
| `JsonReaderProofs` | theorems about the reader and the writer | `JsonWriter` |
| `RpcClientProofs` | theorems about the client | `RpcClient`, `JsonReaderProofs` |

### State and code

`FidInventor` takes each RPC and each SQL statement as one step. `mpc` is where
`main()` is, `pc[w]` where worker `w` is in `CFidTask::call()`:

| Action | Code |
|---|---|
| `MainConnect`, `MainCount`, `MainPollInit` | `initGensisBlock()`, main.cc:52-97 |
| `MainLaunch`, `MainPollFollow` | main.cc:113-142 |
| `CountGenesis`, `CountFollow` | the `getBlockCount()` at the head of each task and the range test after it |
| `FetchBlock`, `FetchTx`, `TxsFetched` | `getBlockByNumber()`, each `getTransaction()`, the end of the loop |
| `InsertBlock`, `InsertTx`, `InsertDetail` | `insertDBBlock()`, and for each transaction the row and its details |
| `BlockDone`, `Return`, `Wake` | the genesis loop, `work()` after `call()`, the sleep |
| `Crash`, `RpcDown`, `DbRefused`, `DbLost`, `MainCountFails` | death of the process, an RPC that throws, a refused or broken connection, a failed count |

`task[w]` is the shared list's `(*it).height`, `goal[w]` the height in the thread's own
copy, `cur[w]` the height being handled. An error reply is a value
(`CountReplies` has the 0 that `atoi64` makes of the error text; a failed
`getblockbynumber` leaves `NoBlock`). An action covers the whole handler: `InsertBlock`
includes the `initDb()` call with the compiled-in login, which does
nothing because `main()` has connected.

Two accesses to one `int` (`(*it).height`) race without a lock. The model
takes them as atomic: the compiler cannot keep the value in a register across
the calls in the loop, and an aligned `int` is read in one piece on the platforms
the build supports.

`Indexer` is what the process amounts to: `Boot` takes the cursor from the row count,
`Store` stores a block of the cursor's height, `Advance` moves on, `Halt` stops. The refinement in `FidInventor`:
`on` is "main() has counted", `next` is `Cursor` (the genesis worker's index, then
`height` while `main()` launches, then the height of the follow worker's
next round), `stored` is the table, and its blocks are those the daemon can serve (`Served`: one branch when it never
reorganises). With `Lossy` FALSE, `Advance` needs the
block stored; the process implements that when its only faults are deaths and
throwing RPCs, and the lossy one under any faults.

`RpcClient` takes a call from the login test to its end. The reply is a sequence of items: status line, header
lines, the empty line, JSON tokens. `Answer` decides on a reply with any status and any length, `Send` delivers an item,
`Close` may come at any time, also in the middle of an item (`CutShort`: half a status line, a
length without its last digits, a number that is still one without its last digit). `Replies` are the values a server may answer with, each with a
text of its own; `RepliesAssumption` says that the text is one of the value's (`Written`), and `RestAssumption` that only an atom can be cut:
a number into numbers, all others into no token at all.

| Action | Code |
|---|---|
| `NoLogin`, `Login` | rpcclient.cpp:36-50 |
| `Connect`, `Refused` | `SSLIOStreamDevice::connect()`, one address a step, rpcclient.cpp:52-60 |
| `Post` | rpcclient.cpp:62-73; a failed write leaves a stream that yields nothing (`good`) |
| `ReadHTTPStatus`, `ReadHTTPHeader`, `ReadBody` | rpcprotocol.cpp:137-199; `getline` on a dead stream gives an empty line, a short `read` leaves zeros (`Nul`) |
| `CheckStatus`, `ReadString`, `NotParsed` | rpcclient.cpp:84-94 |
| `Parsed` | rpcclient.cpp:95-99 and `callRPC(task, message)`, wrap.cpp:42-60 |

The interface to `FidInventor` is `Rpc`: an RPC step of the process (`CountGenesis`, `CountFollow`, `FetchBlock`, `FetchTx`,
`RpcDown`) is the step `End` of a call, which has an answer, an error or has failed. `ImplementsRpc` says that no
other outcome exists (an answer made of a part of a reply), and `CallEnds` is what the fairness of worker steps rests on.

`JsonReader` represents a pointer by the path of the value it points to. `PointersValid` says that each path leads to the
last element of its vector, so no `push_back` ever moves what a pointer points to.

`Conversions` is a state machine of jobs: an input from a set, then the program's functions one after another as
actions (`MakeRequest` and `ReadRequest` of `RpcRequest`, `ReadToken`; those of `Records`, among them two times `ReadBlock`; those of `Texts`: `Encode`, `Decode`,
`WriteText`, `ReadText`, `ParseFile`, `UseConfig`). The functions themselves are operators in the modules named above.
`RpcRequest`, `Records` and `Texts` stand apart because they reach no recursive operator and so can be proved about: a loop of the code is a function of
the number of its rounds (`Encoding`, `Decoding`, `Escaping`, `Unescaping`, `Parsing`). Their inputs are
constants with assumptions, which the theorems quantify over and `MCConversions` instantiates. Of `Records`: every value of a reply has a type and a number,
nonces are unsigned, an output has an amount, a coinbase is not empty, block times are ints. Of `Texts`: texts are sequences of bytes
(`BytesAssumption`), files sequences of sections (`FilesAssumption`), nothing more. Of `RpcRequest`: the words that spell a number spell one
(`NumberAssumption`); a height is any of them, a hash any string, digits only or not.

## 3. The runs

Every name is a run of `PROJECT.json`. `Faults` chooses the kinds of fault, `MaxHalts` how many
of them may end the process or its connection.

| Run | Instance | Shows |
|---|---|---|
| `fault_free` | heights 0..3, no faults | `IndexedBelowCursor`: everything below the cursor is indexed with all details; `EveryBlockIndexed`: every block the daemon reports is some day |
| `crashes` | heights 0..3, up to 3 deaths | `AtMostOneGap`; `TxAfterBlock`; `OneHalfIndexedPerHalt`; the strict `Indexer` is implemented |
| `all_faults` | heights 0..2, two branches, all faults, 1 halt | `TypeOK`, `OneDbUser`, `ConfigLoginOnly`, `CursorNeverBack`; `SecondBlockNeedsGaps`: no second block of a height without two empty heights below; the lossy `Indexer` is implemented |
| `progress` | heights 0..2, all faults but reorganisation, 2 halts | `NeverFarAhead`; `CursorPassesEveryHeight` |
| `tx_store` | 3 transactions, 4 calls, any statement failing, deaths | `DetailsOnce`, `AmountFromOwnTx`, `SingleInputRight` |
| `rpc_client` | nine replies (answers, errors, neither), five statuses and none, six lengths and none, two addresses | `WholeReplyTaken`: a whole reply is what the call comes back with; `ImplementsRpc`: never anything else than that or failure; `CallEnds`; `TypeOK` |
| `conversions` | the inputs below | see the next table |
| `pacing` | all chains of 5 blocks with gaps from {2, 6, 24} s, calls of up to 0.4 s | `SteadyDelay`, `BoundedDelay` |

`conversions` has one job for each function:

| Job | Inputs | Shows |
|---|---|---|
| `login`, `base64` | all sequences of up to 4 of 5 bytes; all texts of up to 5 of 6 characters | `LoginRoundTrip`; `Base64AcceptsOnlyEncodings`: no two logins have one text |
| `string` | up to 4 of 8 bytes (quote, backslash, `u`, `0`, control bytes, a byte above 127) | `StringRoundTrip`: the string ends at its own quote and comes back |
| `json` | all texts of up to 8 tokens | `PointersValid`, `ReadsWhatIsWritten`, `ThrowsAtFirstWrongToken` (up to 4 tokens, against the language told by length) |
| `config` | the generated file; up to two sections, full, with an empty value, with a missing key, of another name | `SettingsOfFirstSection` |
| `request` | the three commands, heights 1 and 7, every string as a hash, those of digits only among them | `RequestUnderstood` |
| `blocks` | pairs of replies to `getblockbynumber`, each whole or with one member missing, of another type, with another nonce, or no object; both workers | `BlockFromOneReply`, `NonceDistinct`, `DocumentedReplyStored` |
| `tx` | all shapes of up to 3 inputs and 3 outputs | `MintTyped` |
| `sleep` | seven block times up to the ends of `int`, rounds of up to `IntSize / 4` s, a clock that goes back | `SleepBounded` |

Runs that end in a counterexample, each a finding:

| Run | The code | What is said of it |
|---|---|---|
| `restart_skips` (`NoHeightLeftOut`) | main.cc:73 restarts at the row count plus one. Heights 0..h are h+1 rows: the next process starts at h+2 and height h+1 is never stored | main.cc:22, :66, :77 |
| `out_of_range` (`StatusOkHasBlock`) | after a reorganisation an out-of-range reply to `getblockbynumber` still gives status 1, and the height is passed | taskschedule.cpp:75, :89 |
| `multi_input` (`AmountOfPrevout`) | the update of one input rewrites the amount of all inputs of its transaction | mysqldb.cpp:237, :249 |
| `ordinary` (`OrdinaryIsTransfer`) | every transaction that mints nothing is typed `S` | transaction.h:64, wrap.cpp:231-232 |

### Bounds and why they are enough

* Heights. The first height is special (genesis), the one after is where a restart
  skips, one more is where an error in the skip would show; heights 0..3
  give `crashes` room for a restart over a full table, over one with a gap, and a third.
* Blocks: block 1 has two transactions so that a death, an error reply or a
  failed statement can come between them. On the other branch the blocks 1 and
  2 swap transactions, so that a transaction arrives that is already stored.
* `MaxHalts`: one death per window; two and three in sequence are explored
  where restarts add up (`crashes`, `progress`). One is enough for a second block of a height in `all_faults`: the inserts
  of heights 0 and 1 fail, 2 is stored, and a process that starts over the one row comes to 2 again after a reorganisation.
* `MaxCalls` of `TxStore` is 4: each transaction once and one of them again, or one of them four times.
* `NumBlocks` of `Pacing` is 5, `MaxWork` two ticks of 200 ms; the theorems hold for all. The two bounds are stated of chains
  whose gaps leave room (`Followable`: the fifth of a gap that the sleep leaves is as long as a call and the part of a second that
  `GetTime()` cuts off). The instance has chains with a gap of 6 s, the shortest that does, and of 2 s, which does not. The
  condition is on the code: where blocks come every 2 s and a call takes 0.8 s, rounds sleep 1 s and 1.6 s in turn, 2.1 s with the call
  on an average, and the worker falls behind for ever.
* `MaxIO` of `Conversions` is the number of inputs and outputs; the code looks
  at the first two positions and treats all others alike.
* JSON texts: 8 tokens are two levels with two elements, or four levels with none; a pointer goes wrong at the first
  element after a closed one, which takes 7. Replies of `rpc_client` are longer (up to 15 tokens).
* Base64 works on groups of three bytes and four characters: 4 bytes and 5 characters are one group and the beginning of the next.
* `IntSize` is 128 and `PerSecond` 5, so that a product overflows after 3 s (4000 x) and after 15 s
  (800 x), and both kinds of round, those that overflow and those that do not, are there. The code's are 2^32 and 1000. The compiler may
  compute `x * 1000 * 4/5` with the factors 1000 * 4 and a division, or with 800: both are tried, and any `int` is taken
  for what overflows. A clock that jumps by 2^31 s during one round is beyond the model.

Deadlock is checked in every run of the process. `TxStore`, `Pacing` and `Conversions` stop when their bounded input
is used up, and `RpcClient` makes one call, which may wait for ever.

### Fairness

`FairSpec` assumes: the operating system schedules each thread (`WF` of
`MainStep`, of each `WorkerStep`, of `CountStep` and `Wake`); somebody starts the
process again after it died (`WF(Start)`: without that nothing is promised, and
`MaxHalts` bounds how often it dies); and the daemon, asked for its block count again and
again, answers with it again and again rather than with an error each time (`SF(CountFollow(best))`).
The last is a strong fairness because errors may come in between, any number of
times. Nothing is assumed of the daemon's chain: it need not grow. No fairness is assumed of
faults. `WF(WorkerStep)` says that each RPC ends; what that rests on is `CallEnds` of `RpcClient`, under fairness of the
client's own steps and of a server that sends what it has begun to send: a call ends once it has been answered or the connection closed,
except while it waits for a body longer than the one sent. Nothing in the code ends that wait or the wait for an answer
that never comes (the socket has no time limit); the liveness of the process is stated for daemons that do neither.

## 4. The proofs

`tlapm` checks these for every value of the constants, which are only assumed to be what the named ASSUMEs of
their modules say (types, mostly). A theorem that needs more has the condition in its statement; the conditions
on `Faults` are those of the runs that check the same property.

### The process

The invariants build on each other: `TypeInv`, `UserInv`, `CursorInv`, `ChainInv`, `RefineInv`, each the one before and more.

| Theorem | Property | Under | Argument |
|---|---|---|---|
| `TypeCorrect` | `TypeOK` | all faults | not inductive as it stands: the row count is a number only if the table is finite, `Head(vtx[w])` a transaction only if `vtx[w]` is not empty; `TypeInv` adds both |
| `OneUserAtATime` | `OneDbUser` | all faults | the exclusion a mutex would give and the code leaves to the order in which threads start: `ControlInv` says which threads may work for each place of `main()`; the genesis worker's height is published only once that worker is done |
| `BuiltinLoginUnused` | `ConfigLoginOnly` | all faults | a worker at work has a `main()` that has connected before |
| `CursorGoesUp` | `CursorNeverBack` | all faults | `CursorInv` ties the three places a height is held in (the worker's index, the published height, the next round's height) to each other at every hand-over |
| `CursorNearChain` | `NeverFarAhead` | no reorganisation | `ReachInv` bounds the rows in the table by the chain, so that a start from the row count lands within two of it |
| `ProcessIsIndexer` | `ImplementsIndexer` | all faults | `RefineInv` adds that while no statement can fail a worker past its insert has its row; then each action maps to `Boot`, `Store`, `Advance`, `Halt` or a stutter, the strict ones when only deaths and throwing RPCs happen |
| `SecondRowNeedsGaps` | `SecondBlockNeedsGaps` | all faults | a worker inserts at its cursor. A process born on an empty table has all rows behind it (`RowsPassed`). One that starts over `n` rows may still come to rows above `n`, but then the other `n - 1` rows leave two of the heights `0..n` without one (`RowAboveCount`), and no later process fills them, since none starts below (`TwoGaps`, `GapsStay`); `DoubleInv` says this of every row not yet passed |
| `ProcessLeavesOneGap` | `AtMostOneGap` | deaths, throwing RPCs | no induction over the process's own actions: the step invariant of `IndexerProofs` carried over the refinement mapping |
| `TxRowsFollowBlocks` | `TxAfterBlock` | no database faults | `WorkInv`: what a worker is about to insert is of the block it holds, whose row is in |
| `NothingIsLeftOut` | `IndexedBelowCursor` | no faults | `CompleteInv`: each transaction of the block at hand is to be fetched, to be inserted, or stored with its details |
| `HalvesCountHalts` | `OneHalfIndexedPerHalt` | deaths, throwing RPCs | the half indexed blocks are at most the halts so far and the block in work. It needs `EachTxOnce`: two blocks with the same transaction would both stay half indexed after one death at it |

`IndexerProofs!StrictIndexerLeavesOneGap`: on a chain with one block a height, the strict indexer leaves out at
most one height. `AtMostOneGap` says nothing of the cursor; the invariant `IInv` describes the
whole table by two numbers, a top `t` and a gap `g` (`g = t` for none), and the cursor as
next to the top, or one past it when the process started on a table without a gap. A start on a gapless table of `t`
rows skips `t`, at most once: with a gap there are `t - 1` rows and the start
lands at `t`, the next height.

`EachTxOnce` holds of a coin's chain, where a transaction is in one block of a branch, and of the instance `crashes`. The other
conditions are on faults, and without them the properties fail: a reorganisation shrinks the chain below the cursor, a lost
connection loses rows.

### The detail tables

`TxStoreProofs` proves all four properties of the run `tx_store`, from one invariant: `StoreInv` is `TypeOK`, that a transaction whose
loops run has its row (`LoopInv`), that an output row belongs to a transaction with a row and is of an index before the loop's (`VoutInv`),
and that an input row is of an input the loop has reached (`VinInv`). `StoreTypeCorrect`, `AmountsStayInTx` and `SingleInputsRight` hold
of all transactions and calls. `NoDetailTwice` assumes `DistinctInputs`, no transaction naming one outpoint twice: the property compares
outpoints, and a coin's transaction spends an output once.

### The records and the sleep

`ConversionProofs` proves the five properties of `Records`. `RecordInv` says that each record is made of its own reply and a blank
record, whichever worker copies the blocks (`BlockInv`), that a typed transaction is `SwitchTx` of its reply, and that a sleep keeps its bound.

* `SleepInTime`: the bound for every `IntSize` and `PerSecond`, all block times, and rounds of any length (only a clock that
  goes back by more than half of `IntSize` seconds in a round is excluded). The subtraction is cut to an int; `PacedSeconds` shows that whenever
  the code's two tests let the result through, the seconds multiplied are at most those the round took. An overflowed
  product would have been above every int, so whatever int it becomes is less (`OrOverflowRange`).
* `NoncesStayTwo`: conversion of an unsigned int is injective (`ToIntInjective`).
* `RecordOfOneReply`, `DocumentedStored`, `MintsAreTyped`: for all replies and all numbers of inputs and outputs.

### The texts

`ConversionProofs` also proves the four properties of `Texts`, for texts and files of every length. `TextInv` says that what a job has made
is the composition of its functions so far; what remains is a fact about each composition. The prover knows nothing of how a function
that is defined by its value one round before unfolds, so the first lemma about each loop (`EncodingRounds`, `ParsingRounds`, ...) shows that the function is there and
what each round does; then a loop invariant goes from round to round, by the least round at which it would fail (`LeastNumber`).

* `LoginComesBack` (`LoginRoundTrip`). `RoundTrip` compares the encoder after `n` bytes with the decoder after the characters
  written so far: the decoder has those bytes, or all but the last and its upper bits, while the encoder holds the lower ones.
* `OnlyEncodingsDecode` (`Base64AcceptsOnlyEncodings`). `Back` is the same comparison the other way round, from the characters; the bits in hand
  must be 0 at the end, or two texts would decode to one login.
* `StringComesBack` (`StringRoundTrip`). Every byte goes out as one of three units (`Unit`). `Unescaped`: after `n` rounds the reader has the first `n` bytes and
  stands behind their units. `Scanned`: the scan for the closing quote has not stopped within them and no backslash is open, which a unit that ends in
  a lone backslash would break.
* `FirstSectionCounts` (`SettingsOfFirstSection`). `Parsed` says of the arguments after `n` sections that each is the one of the first section of its name
  among them; `map::insert()` keeps it.

### The requests

`RequestsUnderstood` (`RequestUnderstood`): the daemon reads what is posted as the command it was made of, for every height and every hash. `RequestInv` says that
what is being read is the text of the request's value and that the reader follows it; `RequestHolds` that this value is made of atoms by
`Object` and `Array`, hence proper (`Json`), and that `find_value` finds the method and the parameters in it. The rest is `WriterIsRead`, below.

### The pacing

`PacingProofs` proves the three properties of the run `pacing` for all gaps, all lengths of a chain and of a call. `PacingTypeCorrect` holds whatever
an unassigned block time may be; `SteadyInTime` and `DelayBounded` are for `Unset = {}`, a daemon whose replies are all blocks: with an arbitrary
number for a block's time the sleep is arbitrary, and `SteadyDelay` fails.

The bounds are not inductive: how late the next block is done depends on how long the last round slept. `DelayInv` splits the states between
two rounds. `Calm`: the task is there in time, as after a start and after any wait. `Prompt`: it was in time for the last block and has slept at
most 4/5 of a gap since. `CatchingUp`: it was late with the last block, by less than 4/5 of a gap and with a call to spare, and has slept no more than
a short round's sleep. A `Calm` round leads to a `Prompt` one. After a `Prompt` one, either the round took no longer than the gap and the next
is `Prompt`, or it did and the sleep is the default one, so that the next is `CatchingUp`. `CatchingUp` is kept until the
task waits, as each round is then shorter than any gap. On a chain of one spacing every state is `Calm`.

### The JSON reader and writer

`Written(v, t, span)` says what it is for a text to be a value's, by places and not by recursion: each part of the value has a span of the text,
an atom one token, a compound its brackets, its children's spans in order between them, with commas and names. `JsonReaderProofs` has six results for all values and texts.

* `PointersStayValid` (`PointersValid`). `PointerInv`: the stack of open compounds and the current one are the beginnings of one path, each the last element of
  the one before, and nothing but them is in work.
* `WrittenIsRead`: when the tokens of a value's text have been fed, the reader has that value, and has not thrown. `Follows` is the
  invariant along the text: the parts whose spans have begun are there, with as many children as have begun, and `Place` says what the parser may accept next from where
  the last token lies between the spans.
* `ReadIsWritten` (`ReadsWhatIsWritten`): whatever text the reader accepts is a text of the value it has made. `SoundInv` builds the spans as the
  reader goes, as an existential invariant: every closed part is `Written` within the text so far, every open one is but for its closing bracket, and `Edge`
  ties the last position to the parser's state. The property computes the spans (`Spans`: each end of a part is some tokens behind an end of another, `Behind` and `Distance`);
  `SpansUnique` shows that spans of a text can be no others, by induction over the positions of the text (`LeastNumber`).
* `WriterIsRead`: what the writer makes of a value is read as that value, and not before its last token. It joins `WrittenIsRead` to the writer (`WriteIsWritten`: every
  value's text is one of the value's). The writer is a function of the parts of a value (`PartTexts`), each from its kids, so the proof goes by the distance of a part from
  the deepest ones: a part's text is a sequence of tokens, begins and ends with its own brackets and holds the texts of its kids at the sums of the
  lengths before them (`PartIsWritten`). The hypothesis is `Json(v)`: a finite tree of parts, numbered without gaps, names in objects only.
* `ThrowsWhenNoneFollows`: the reader has thrown exactly when what it has read begins the text of no value. One way is `WriterIsRead`. The other completes
  the text of a reader that has not thrown (`CanBecomeText`): where the grammar is within a member or behind a comma, the missing tokens up to an atom are added and the
  atom with them (`AtomFits`), and then what is open is closed from the inside out (`AllClose`). What comes out is `Written` for some value; that value can be written
  (`WrittenIsJson`: its depth is bounded by the length, `DepthBound`), and a value has one text (`TextsUnique`), so it is the writer's.
* `EndsOnTextOfValue`: the reader is through exactly at the whole text of a value, and the writer makes that text of what it has read.

### The RPC client

`RpcClientProofs` proves three results for all replies, statuses, lengths and numbers of addresses and for every way in which a reply is cut.

* `TypesKept` (`TypeOK`).
* `WholeReplyIsTaken` (`WholeReplyTaken`): a reply that has arrived whole with its length is what the call comes back with.
* `CallImplementsRpc` (`ImplementsRpc`): the call is a call of `Rpc`.

One invariant, `CallInv`, serves all. `Flowing` relates what the server has to send, what is on the wire and what the client has read to the reply that was decided on (`Sent`,
`Arrived`): nothing is lost in between but the end, when the connection closes. When the body is read, `Remains` says that it is a beginning of the reply's
text, then perhaps one number that was shortened, then zeros. `Reading` is the reader's `Follows` on the reply's text; `Lost` says
that the reader is off it and either has refused what it read, found no object, or has only zeros to come. A text that is cut gives no object, since the last bracket is missing; that is where
`RestAssumption` counts.

### Model-checked only

* Liveness: `EveryBlockIndexed`, `CursorPassesEveryHeight`, `CallEnds` (the prover has no ENABLED).
* `ThrowsAtFirstWrongToken`: the language the reader is compared with is recursive (`JsonLanguage`), and a module that reaches a recursive operator loses the SMT
  backend. `ThrowsWhenNoneFollows` says the same of the language the writer makes; that the two languages are one is what TLC's comparison adds.

All other properties of the passing runs are proved.

## 5. Not modelled

* The server's half of `rpcprotocol.cpp` and `CommandLineRPC()`, `-rpcssl` and `-rpcwait`: nothing calls or sets them.
* The text of SQL, column formats, the character set, logging, `toString()`.
* Digits: `strprintf`, `atoi64`, Boost.Spirit's numbers, dates. A number is a number on both sides; the one
  conversion that loses something, `get_int()`, is modelled.
* In `JsonText` one byte strings only; the wide ones are not instantiated.
* `TASK_BLOCK`, `TASK_TRANSACTION` and `queryTest()`: nothing calls them.
* The end of `main()`: its loop has no exit (`bQuit` is never assigned, and SIGINT only logs). With it go `Thread::catchUp()`,
  `deleteThreadSafe()` and the second deletion of `pTaskSchedInit` (main.cc:70 keeps the pointer, main.cc:145 would use it).
* A reply without outputs, for which the log line wrap.cpp:233 reads `vouts[0]`: the coin has no such transaction.
* A column that refuses a value (`fidinventor.sql:99`, a 32-bit sequence into a signed column): `TxStore` lets any insert
  be refused, but not for this reason.
* Vendored tinyformat, build files.

Two hazards are in the models, and no property is about them, since the code does what one would have to forbid and nothing in the
repository says otherwise: the endless wait for a body (rpcclient.cpp:82; `Starved` in `RpcClient`, which `CallEnds` leaves out) and the
exception over a reply without `proofhash` (wrap.cpp:365; `Throws` in `BlockRecord`; `DocumentedReplyStored` requires the member).

## 6. Plan

All of it is done. What the provers do not reach, and stays with TLC, is at the end of section 4.
