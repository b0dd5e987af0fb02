------------------------------ MODULE RocksLogs ------------------------------
(***************************************************************************)
(* Logs over the permanent storage: the request, its filter, and the       *)
(* messages of the blocks it selects.                                      *)
(***************************************************************************)
EXTENDS Rocks, Filters

CONSTANTS
    LogRequests,      \* requests for logs
    MaxLogRange       \* blocks a request for logs may span

ReadLogs(filter) ==
    LET inRange == {n \in DOMAIN db.blocks_by_number :
                      n >= filter.from_block /\ (filter.to_block # None => n <= filter.to_block)}
        ofBlock(n) == SelectSeq(LogMessagesFromRocks(db.blocks_by_number[n]),
                                LAMBDA m : Matches(filter, m.log, n))
    IN  FlattenSeq([i \in 1..Cardinality(inRange) |-> ofBlock(SetToSortSeq(inRange, <)[i])])

NumberOf(filter) == IF ReadBlock(filter) = None THEN None ELSE ReadBlock(filter).header.number

TargetOf(filter) == TargetState(filter, NumberOf(filter))

GetLogs(request) ==
    LET filter == ParseLogFilter(request, TargetOf(FirstFilter(request)), TargetOf(LastFilter(request)),
                                 number, number + 1)
        closed == IF "error" \in DOMAIN filter THEN filter ELSE GetLogsFilter(filter, number, MaxLogRange)
    IN  IF "error" \in DOMAIN closed THEN closed ELSE [logs |-> ReadLogs(closed)]

AllMessages(n) == FlattenSeq([k \in 1..(n + 1) |-> CreateLogMessages(Mined(k - 1))])

\* A client that asks for the logs of everything mined so far gets the messages
\* the subscribers were sent when the blocks were mined, in the same order and
\* numbered alike, filtered by address and topics; and the receipts of the
\* transactions number them alike too (rocks_state.rs read_logs, server.rs
\* eth_get_logs, block.rs create_log_messages, transaction_mined.rs
\* create_alloy_logs).
LogsAgree ==
    ~ghost.torn /\ ghost.blocks # <<>> /\ job.op = "idle" =>
        /\ \A request \in LogRequests :
             LET answer == GetLogs(request)
             IN  "error" \notin DOMAIN answer =>
                   answer.logs = SelectSeq(AllMessages(LastMined), LAMBDA m :
                       /\ request.block_hash # None => m.block_hash = request.block_hash
                       /\ request.block_hash = None /\ Given(request.from_block).by = "latest" =>
                              m.block_number = number
                       /\ request.address # {} => m.log.address \in request.address
                       /\ \A i \in DOMAIN request.topics : TopicAccepts(request.topics[i], m.log.topics[i]))
        /\ \A n \in Blocks : \A i \in DOMAIN Mined(n).transactions :
             LET hash == Mined(n).transactions[i].execution.hash
             IN  CreateAlloyLogs(ReadTransaction(hash))
                   = SelectSeq(CreateLogMessages(Mined(n)), LAMBDA m : m.transaction_hash = hash)

==============================================================================
