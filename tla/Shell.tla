-------------------------------- MODULE Shell --------------------------------
(* neo4j-client: it reads statements and commands from a prompt or from       *)
(* files that source one another, sends statements ahead of rendering their    *)
(* results, and keeps a connection, a transaction, parameters and an output    *)
(* file between them, while SIGINT may reset the session at any time.  The     *)
(* client library is what the other modules say of it: a call may fail.        *)
EXTENDS Transaction, Sequences, FiniteSets, SequencesExt

CONSTANTS Interactive,    \* whether the shell is run at a prompt, or may be
          PipelineMax,    \* statements a batch sends before rendering one
          SourceMaxDepth, \* of nested calls of :source
          Names,          \* of exported parameters
          Inputs,         \* bound on the segments of input read
          Connections,    \* bound on the connections made
          Interrupts      \* bound on the signals

ASSUME ShellAssumption ==
  /\ Interactive \subseteq BOOLEAN /\ PipelineMax \in Nat \ {0} /\ SourceMaxDepth \in Nat
  /\ {Inputs, Connections, Interrupts} \subseteq Nat

VARIABLES
  connection,  \* of the shell, None when it has none
  closed,      \* the connections neo4j_close has freed
  poisoned,    \* those neo4j_reset has been called for since a transaction began
  tx,          \* the transaction of the shell, and its connection
  frames,      \* the inputs being read, the innermost last
  doing,       \* what the shell is about to do
  prepared,    \* number of statements prepared
  done,        \* the statements completed or aborted, in order
  open,        \* the result streams that are not closed
  dropped,     \* number of those neo4j_run_in_tx kept from the shell
  exports,     \* the exported parameters, each with its storage
  stored,      \* the storage that is not freed
  output,      \* the file output goes to, None if it is not redirected
  files,       \* output files that are not closed
  used,        \* segments read
  interrupts,
  crashed

None == 0
NoneTx == [tx |-> NoTx, conn |-> None]
EmptyQueue == [next |-> 0, depth |-> 0, slots |-> [i \in 0 .. PipelineMax - 1 |-> None]]
Frame(kind) == [kind |-> kind, queue |-> EmptyQueue]
Do(at) == [at |-> at, then |-> "none", attempt |-> 0]

library == <<connection, closed, poisoned, tx>>
statements == <<prepared, done, open, dropped>>
settings == <<exports, stored, output, files>>
vars == <<library, frames, doing, statements, settings, used, interrupts, crashed>>

Init ==
  /\ connection = None /\ closed = {} /\ poisoned = {} /\ tx = NoneTx
  /\ \E prompt \in Interactive :
       /\ frames = IF prompt THEN <<Frame("prompt")>> ELSE <<>>
       /\ doing = Do(IF prompt THEN "read" ELSE "main")
  /\ prepared = 0 /\ done = <<>> /\ open = {} /\ dropped = 0
  /\ exports = <<>> /\ stored = {} /\ output = None /\ files = {}
  /\ used = 0 /\ interrupts = 0 /\ crashed = "no"
-----------------------------------------------------------------------------
(* Control: what comes after a command, a statement or an input has returned *)
(* `r'.  A batch stops at the first that does not return 0; the prompt only   *)
(* when :quit returns 1.                                                      *)

At(at) == crashed = "no" /\ doing.at = at
Top(stack) == stack[Len(stack)]
InBatch == frames # <<>> /\ Top(frames).kind # "prompt"

After(stack, r) ==
  IF stack = <<>> THEN Do(IF r = 0 THEN "main" ELSE "leave")
  ELSE IF Top(stack).kind # "prompt" THEN Do(IF r = 0 THEN "read" ELSE "abort")
  ELSE Do(IF r = 1 THEN "leave" ELSE "read")

Returns(r) == doing' = After(frames, r) /\ frames' = frames
Crashes(why) ==
  /\ crashed' = why
  /\ UNCHANGED <<library, frames, doing, statements, settings, used, interrupts>>
Goes == crashed' = "no" /\ UNCHANGED <<used, interrupts>>
Reads == At("read") /\ used < Inputs /\ used' = used + 1 /\ UNCHANGED interrupts

\* A call that looks at the connection of a transaction which is not there.
Dangles == tx.tx.live /\ ~tx.tx.is_expired /\ tx.conn \in closed
Poisoned == tx.conn \in poisoned
-----------------------------------------------------------------------------
(* The queue of a batch: a ring of PipelineMax continuations.               *)

\* Fault: the index is not wrapped.
SlotUnwrapped(queue) == queue.next + queue.depth

Slot(queue) ==
  LET i == queue.next + queue.depth
  IN  IF i >= PipelineMax THEN i - PipelineMax ELSE i
Push(queue, continuation) ==
  [queue EXCEPT !.slots[Slot(queue)] = continuation, !.depth = @ + 1]
First(queue) == queue.slots[queue.next]
Pop(queue) ==
  [queue EXCEPT !.next = IF @ + 1 >= PipelineMax THEN 0 ELSE @ + 1, !.depth = @ - 1]
Contents(queue) ==
  [k \in 1 .. queue.depth |-> queue.slots[(queue.next + k - 1) % PipelineMax]]

Queue == Top(frames).queue
WithQueue(queue) == [frames EXCEPT ![Len(frames)].queue = queue]
-----------------------------------------------------------------------------
(* Statements.                                                              *)

\* neo4j_run, or neo4j_run_in_tx, which waits for the first answer: whether the
\* shell is given the results, what becomes of transaction t, and how many streams
\* are kept from the shell, which is so when the transaction timed out.
Ran(given, t, kept) == [given |-> given, tx |-> t, kept |-> kept]
StatementRuns(t) ==
  IF ~t.live THEN {Ran(TRUE, t, 0), Ran(FALSE, t, 0)}
  ELSE IF ~Usable(t, Poisoned) THEN {Ran(FALSE, t, 0)}
  ELSE {Ran(TRUE, t, 0), Ran(FALSE, RunFailed(t), 0), Ran(FALSE, RunTimedOut(t), 1)}

\* A call that looks at the connection of a transaction that is open.
RunDangles == connection # None /\ tx.tx.live /\ tx.tx.is_open /\ Dangles

\* prepare_statement: the continuations a statement may get, each with what
\* becomes of the transaction.
Continuation(complete) == [id |-> prepared + 1, complete |-> complete, conn |-> connection]
Prepared ==
  LET after(complete, run) == [continuation |-> Continuation(complete), run |-> run]
  IN  IF connection = None THEN {after("not connected", Ran(FALSE, tx.tx, 0))}
      ELSE {after(IF run.given THEN "render" ELSE "failure", run) : run \in StatementRuns(tx.tx)}

Prepares(p) ==
  /\ prepared' = prepared + 1
  /\ tx' = [tx EXCEPT !.tx = p.run.tx]
  /\ dropped' = dropped + p.run.kept

\* complete_evaluation: the results are rendered, and closed whatever happens.
Completions(continuation) == IF continuation.complete = "render" THEN {0, -1} ELSE {-1}
StreamOf(continuation) == IF continuation.complete = "render" THEN {continuation.id} ELSE {}

\* evaluate: there must be room, so the first of a full queue is completed.
Statement ==
  /\ Reads /\ InBatch
  /\ doing' = [doing EXCEPT !.at = IF Queue.depth >= PipelineMax THEN "room" ELSE "prepare"]
  /\ UNCHANGED <<library, frames, statements, settings, crashed>>

Prepare ==
  /\ At("prepare")
  /\ IF RunDangles
     THEN Crashes("transaction without connection")
     ELSE \E p \in Prepared :
            /\ Prepares(p)
            /\ open' = open \cup StreamOf(p.continuation)
            /\ frames' = WithQueue(Push(Queue, p.continuation))
            /\ doing' = Do("read") /\ Goes
            /\ UNCHANGED <<connection, closed, poisoned, done, settings>>

\* evaluate_statement: at the prompt the result is rendered at once.
EvaluateStatement ==
  /\ Reads /\ ~InBatch
  /\ IF RunDangles
     THEN /\ crashed' = "transaction without connection"
          /\ UNCHANGED <<library, frames, doing, statements>>
     ELSE \E p \in Prepared : \E r \in Completions(p.continuation) :
            /\ Prepares(p)
            /\ done' = Append(done, p.continuation.id)
            /\ Returns(r) /\ crashed' = "no"
            /\ UNCHANGED <<connection, closed, poisoned, open>>
  /\ UNCHANGED settings

\* finalize, one continuation: for room, before a command, or at the end.
Finalize ==
  /\ doing.at \in {"room", "drain", "last"} /\ At(doing.at) /\ Queue.depth > 0
  /\ \E r \in Completions(First(Queue)) :
       doing' = IF r # 0 THEN Do("abort")
                ELSE IF doing.at = "room" THEN Do("prepare") ELSE doing
  /\ done' = Append(done, First(Queue).id)
  /\ open' = open \ StreamOf(First(Queue))
  /\ frames' = WithQueue(Pop(Queue))
  /\ Goes /\ UNCHANGED <<library, prepared, dropped, settings>>

\* abort_outstanding, one continuation: its results are closed unseen.
Abort ==
  /\ At("abort") /\ Queue.depth > 0
  /\ done' = Append(done, First(Queue).id)
  /\ open' = open \ StreamOf(First(Queue))
  /\ frames' = WithQueue(Pop(Queue))
  /\ Goes /\ UNCHANGED <<library, doing, prepared, dropped, settings>>
-----------------------------------------------------------------------------
(* Inputs.                                                                  *)

\* The end of the input, or what cannot be read or parsed.
EndOfInput ==
  /\ At("read")
  /\ IF InBatch THEN \E at \in {"last", "abort"} : doing' = Do(at)
     ELSE doing' = Do("leave")
  /\ Goes /\ UNCHANGED <<library, frames, statements, settings>>

\* process returns to :source or to main; the frame below is as it was.
Return ==
  /\ doing.at \in {"last", "abort"} /\ At(doing.at) /\ Queue.depth = 0
  /\ frames' = Front(frames)
  /\ doing' = After(Front(frames), IF doing.at = "last" THEN 0 ELSE -1)
  /\ Goes /\ UNCHANGED <<library, statements, settings>>

\* main: the next of --source, --eval and standard input, or none.
Handle ==
  /\ At("main") /\ used < Inputs /\ used' = used + 1
  /\ \E kind \in {"batch", "eval"} : frames' = <<Frame(kind)>>
  /\ doing' = Do("read")
  /\ UNCHANGED <<library, statements, settings, interrupts, crashed>>
Finish ==
  /\ At("main") /\ doing' = Do("leave")
  /\ Goes /\ UNCHANGED <<library, frames, statements, settings>>

\* shell_state_destroy
Leave ==
  /\ At("leave") /\ doing' = Do("ended") /\ frames' = <<>>
  /\ closed' = closed \cup ({connection} \ {None}) /\ connection' = None
  /\ files' = files \ {output} /\ output' = None
  /\ stored' = stored \ {exports[i].storage : i \in DOMAIN exports} /\ exports' = <<>>
  /\ Goes /\ UNCHANGED <<poisoned, tx, statements>>
-----------------------------------------------------------------------------
(* Commands: a batch renders all that it has sent first.                    *)

Commands == {"source", "begin", "commit", "rollback", "connect", "reconnect", "disconnect",
             "reset", "schema", "export", "unexport", "outfile", "quit", "other"}

\* Fault: the command is run at once.
BeforeCommandRuns(batch) == "run"

BeforeCommand(batch) == IF batch THEN "drain" ELSE "run"

Command(command) ==
  /\ Reads /\ doing' = [Do(BeforeCommand(InBatch)) EXCEPT !.then = command]
  /\ UNCHANGED <<library, frames, statements, settings, crashed>>
Drained ==
  /\ At("drain") /\ Queue.depth = 0 /\ doing' = [doing EXCEPT !.at = "run"]
  /\ Goes /\ UNCHANGED <<library, frames, statements, settings>>

Runs(command) == At("run") /\ doing.then = command

\* source
Source ==
  /\ Runs("source")
  /\ \/ /\ Cardinality({i \in DOMAIN frames : frames[i].kind # "eval"}) < SourceMaxDepth
        /\ frames' = Append(frames, Frame("batch")) /\ doing' = Do("read")
     \/ Returns(-1)
  /\ Goes /\ UNCHANGED <<library, statements, settings>>

\* :quit, and the commands that do no more than return.
Quit ==
  /\ Runs("quit") /\ Returns(1)
  /\ Goes /\ UNCHANGED <<library, statements, settings>>
OtherCommand ==
  /\ Runs("other") /\ \E r \in {0, -1} : Returns(r)
  /\ Goes /\ UNCHANGED <<library, statements, settings>>

\* eval_begin, eval_commit and eval_rollback refuse a protocol below version 3, and
\* the latter two arguments.
Refuse ==
  /\ Runs("begin") \/ Runs("commit") \/ Runs("rollback")
  /\ connection # None /\ Returns(-1)
  /\ Goes /\ UNCHANGED <<library, statements, settings>>

\* display_schema: two statements, the second only if the first gave its results.
\* A failure after the results of the first are closed closes them again.
Schema ==
  /\ Runs("schema")
  /\ IF connection = None THEN Returns(-1) /\ Goes /\ UNCHANGED <<library, statements, settings>>
     ELSE IF RunDangles THEN Crashes("transaction without connection")
     ELSE \E indexes \in StatementRuns(tx.tx) :
            \E run \in IF indexes.given THEN StatementRuns(indexes.tx) ELSE {indexes} :
              \/ /\ \E r \in IF run.given THEN {0, -1} ELSE {-1} : Returns(r)
                 /\ tx' = [tx EXCEPT !.tx = run.tx] /\ dropped' = dropped + run.kept
                 /\ Goes
                 /\ UNCHANGED <<connection, closed, poisoned, prepared, done, open, settings>>
              \/ run.given /\ Crashes("results closed twice")
-----------------------------------------------------------------------------
(* Connections.                                                             *)

\* db_disconnect frees the connection; only then the shell forgets it.
CloseConnection(then) ==
  /\ closed' = closed \cup {connection}
  /\ doing' = [Do("closing") EXCEPT !.then = then]
  /\ UNCHANGED <<connection, poisoned, tx, frames>>

Disconnect ==
  /\ Runs("disconnect")
  /\ IF connection = None THEN Returns(-1) /\ UNCHANGED library ELSE CloseConnection("disconnect")
  /\ Goes /\ UNCHANGED <<statements, settings>>
Disconnected ==
  /\ At("closing") /\ connection' = None
  /\ IF doing.then = "disconnect" THEN Returns(0)
     ELSE doing' = [Do("connecting") EXCEPT !.attempt = 1] /\ frames' = frames
  /\ Goes /\ UNCHANGED <<closed, poisoned, tx, statements, settings>>

\* db_connect and db_reconnect, which fails when nothing was connected to yet.
Connect ==
  /\ Runs("connect") \/ Runs("reconnect")
  /\ \/ doing.then = "reconnect" /\ Returns(-1) /\ UNCHANGED library
     \/ connection # None /\ CloseConnection("connect")
     \/ /\ connection = None /\ doing' = [Do("connecting") EXCEPT !.attempt = 1]
        /\ UNCHANGED <<library, frames>>
  /\ Goes /\ UNCHANGED <<statements, settings>>

\* attempt_db_connect: a user whose credentials are refused is asked three more
\* times; expired ones are changed over a connection of its own.
Attempt ==
  /\ At("connecting")
  /\ \/ /\ Cardinality(closed) < Connections
        /\ connection' = Cardinality(closed) + 1 /\ Returns(0)
     \/ Returns(-1) /\ UNCHANGED connection
     \/ /\ doing.attempt <= 3 /\ doing' = [doing EXCEPT !.attempt = @ + 1]
        /\ UNCHANGED <<connection, frames>>
  /\ Goes /\ UNCHANGED <<closed, poisoned, tx, statements, settings>>

\* neo4j_reset marks the transaction of the connection, unless another thread or
\* the code that was interrupted uses it.
ResetSession ==
  /\ Runs("reset")
  /\ IF connection = None THEN Returns(-1) /\ UNCHANGED library
     ELSE /\ Returns(0) /\ poisoned' \in {poisoned, poisoned \cup {connection}}
          /\ UNCHANGED <<connection, closed, tx>>
  /\ Goes /\ UNCHANGED <<statements, settings>>

\* interrupt_handler
Interrupt ==
  /\ crashed = "no" /\ doing.at # "ended" /\ connection # None
  /\ interrupts < Interrupts /\ interrupts' = interrupts + 1
  /\ IF connection \in closed
     THEN crashed' = "connection reset after close" /\ UNCHANGED library
     ELSE /\ poisoned' \in {poisoned, poisoned \cup {connection}}
          /\ UNCHANGED <<connection, closed, tx, crashed>>
  /\ UNCHANGED <<frames, doing, statements, settings, used>>
-----------------------------------------------------------------------------
(* Transactions.                                                            *)

Answers == {"SUCCESS", "FAILURE", "TIMEOUT", "IGNORED", "INVALID"}

\* db_begin_tx: a transaction that has ended is freed; one that does not begin
\* is not.
Begin ==
  /\ Runs("begin")
  /\ IF connection = None THEN Crashes("no connection")
     ELSE IF Dangles THEN Crashes("transaction without connection")
     ELSE /\ IF Usable(tx.tx, Poisoned) THEN Returns(-1) /\ UNCHANGED <<tx, poisoned>>
             ELSE \/ Returns(-1) /\ tx' = NoneTx /\ poisoned' = poisoned
                  \/ \E answer \in Answers :
                       LET reply == tx_callback("BEGIN", new_transaction, answer)
                           new == Begun(reply.tx, reply.rc)
                       IN  /\ poisoned' = poisoned \ {connection}
                           /\ tx' = IF new.failed THEN NoneTx ELSE [tx |-> new, conn |-> connection]
                           /\ Returns(IF new.failed THEN -1 ELSE 0)
          /\ Goes /\ UNCHANGED <<connection, closed, statements, settings>>

\* What neo4j_commit and neo4j_rollback return.
Ends(request) ==
  IF ~Usable(tx.tx, Poisoned) THEN {-1}
  ELSE {LET reply == tx_callback(request, tx.tx, answer)
        IN  IF Ended(reply.tx, reply.rc).failed THEN -1 ELSE 0 : answer \in Answers}

\* db_commit_tx
Commit ==
  /\ Runs("commit")
  /\ IF connection = None THEN Crashes("no connection")
     ELSE IF ~tx.tx.live \/ ~tx.tx.is_open
     THEN Returns(-1) /\ Goes /\ UNCHANGED <<library, statements, settings>>
     ELSE IF Dangles THEN Crashes("transaction without connection")
     ELSE /\ \E r \in Ends("COMMIT") : Returns(r)
          /\ tx' = NoneTx
          /\ Goes /\ UNCHANGED <<connection, closed, poisoned, statements, settings>>

\* db_rollback_tx goes on when the transaction is not open.
Rollback ==
  /\ Runs("rollback")
  /\ IF connection = None THEN Crashes("no connection")
     ELSE IF ~tx.tx.live
     THEN Returns(-1) /\ Goes /\ UNCHANGED <<library, statements, settings>>
     ELSE IF Dangles THEN Crashes("transaction without connection")
     ELSE /\ \E r \in Ends("ROLLBACK") : Returns(r)
          /\ tx' = NoneTx
          /\ Goes /\ UNCHANGED <<connection, closed, poisoned, statements, settings>>
-----------------------------------------------------------------------------
(* Parameters and output.                                                   *)

\* shell_state_add_export: the entry takes the place of the first that is not
\* less, or goes before it.
NotLess(name) == {i \in DOMAIN exports : exports[i].key >= name}
Place(name) ==
  IF NotLess(name) = {} THEN Len(exports) + 1
  ELSE CHOOSE i \in NotLess(name) : \A j \in NotLess(name) : i <= j
Export ==
  /\ Runs("export")
  /\ \E name \in Names :
       LET i == Place(name)
           entry == [key |-> name, storage |-> used]
           same == IF i <= Len(exports) THEN exports[i].key = name ELSE FALSE
       IN  \/ /\ same /\ Returns(0)
              /\ stored' = (stored \ {exports[i].storage}) \cup {used}
              /\ exports' = [exports EXCEPT ![i] = entry]
           \/ /\ ~same /\ Returns(0)
              /\ stored' = stored \cup {used}
              /\ exports' = InsertAt(exports, i, entry)
           \/ Returns(-1) /\ UNCHANGED <<exports, stored>>
  /\ Goes /\ UNCHANGED <<library, statements, output, files>>

\* Fault: the storage of the last entry is freed, not that of the one removed.
UnexportedLast(list, i) == list[Len(list)].storage

\* The storage that is freed.
Unexported(list, i) == list[i].storage

\* shell_state_unexport: the last entry takes the place of the one removed.
Unexport ==
  /\ Runs("unexport")
  /\ \E name \in Names :
       LET found == {i \in DOMAIN exports : exports[i].key = name}
           first == CHOOSE i \in found : \A j \in found : i <= j
       IN  IF found = {} THEN UNCHANGED <<exports, stored>>
           ELSE /\ exports' = Front([exports EXCEPT ![first] = Last(exports)])
                /\ stored' = stored \ {Unexported(exports, first)}
  /\ Returns(0)
  /\ Goes /\ UNCHANGED <<library, statements, output, files>>

\* redirect_output: the new file is open before the old one is closed.
RedirectOutput ==
  /\ Runs("outfile")
  /\ \/ \E file \in {None, used} :
          /\ output' = file /\ files' = (files \ {output}) \cup ({file} \ {None})
          /\ Returns(0)
     \/ Returns(-1) /\ UNCHANGED <<output, files>>
  /\ Goes /\ UNCHANGED <<library, statements, exports, stored>>

Next ==
  \/ Statement \/ Prepare \/ EvaluateStatement \/ Finalize \/ Abort
  \/ EndOfInput \/ Return \/ Handle \/ Finish \/ Leave
  \/ (\E command \in Commands : Command(command)) \/ Drained \/ Source \/ Quit \/ OtherCommand
  \/ Refuse \/ Schema \/ Disconnect \/ Disconnected \/ Connect \/ Attempt \/ ResetSession \/ Interrupt
  \/ Begin \/ Commit \/ Rollback \/ Export \/ Unexport \/ RedirectOutput

Spec == Init /\ [][Next]_vars
-----------------------------------------------------------------------------
\* The continuations that wait: a batch that sources another has none.
Waiting == IF frames = <<>> THEN <<>> ELSE Contents(Queue)

\* Whatever sources what, and whichever statement fails: results are rendered,
\* or given up, in the order in which their statements came, each statement once;
\* only the innermost input has statements that wait, at a prompt there are none,
\* and they are of the connection the shell has.
InTurn ==
  crashed = "no" =>
    /\ done \o [k \in DOMAIN Waiting |-> Waiting[k].id] = [k \in 1 .. prepared |-> k]
    /\ \A k \in DOMAIN Waiting : Waiting[k].conn = connection
    /\ \A i \in DOMAIN frames :
         (i # Len(frames) \/ frames[i].kind = "prompt") => frames[i].queue.depth = 0

\* Every result stream the shell was given, all the storage of parameters and
\* every output file is either in use or has been released; when the shell ends,
\* nothing is left.
NothingKept ==
  crashed = "no" =>
    /\ open = UNION {StreamOf(Waiting[k]) : k \in DOMAIN Waiting}
    /\ stored = {exports[i].storage : i \in DOMAIN exports}
    /\ files = {output} \ {None}
    /\ At("ended") => open = {} /\ stored = {} /\ files = {} /\ connection = None

\* (Not so: see the crashes.)
NeverCrashes == crashed = "no"

\* (Not so: removing a parameter leaves the others out of order.)
ExportedOnce ==
  \A i, j \in DOMAIN exports : exports[i].key = exports[j].key => i = j

\* (Not so: a disconnected shell keeps its transaction.)
TransactionOfConnection == tx.tx.live => tx.conn = connection
=============================================================================
