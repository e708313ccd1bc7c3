----------------------------- MODULE ShellProofs -----------------------------
(* Proofs about the shell, for every depth of pipelining and of nested inputs, *)
(* however much is read, connected and interrupted: statements are rendered in *)
(* turn, and nothing is kept.                                                   *)
EXTENDS Shell, SequenceLemmas, FiniteSetTheorems

(***************************************************************************)
(* Types: only what the two invariants depend on.                          *)
(***************************************************************************)
Indices == 0 .. PipelineMax - 1
Continuations ==
  [id : Nat, complete : {"not connected", "render", "failure"}, conn : Nat]
Queues ==
  [next : Indices, depth : 0 .. PipelineMax, slots : [Indices -> Continuations \cup {None}]]
Frames == [kind : {"prompt", "batch", "eval"}, queue : Queues]
Steps ==
  {"read", "room", "prepare", "last", "abort", "main", "leave", "ended", "drain", "run",
   "closing", "connecting"}
Doings == [at : Steps, then : Commands \cup {"none"}, attempt : Nat]
Entries == [key : Names, storage : Nat]

FramesOK == frames \in Seq(Frames)
DoingOK == doing \in Doings
ConnectionOK == connection \in Nat /\ IsFiniteSet(closed)
StatementsOK == prepared \in Nat /\ done \in Seq(Nat)
ExportsOK == used \in Nat /\ exports \in Seq(Entries)

(***************************************************************************)
(* Control: which inputs may have statements that wait, and where.         *)
(***************************************************************************)
TopDepth(stack) == IF stack = <<>> THEN 0 ELSE Top(stack).queue.depth

Nested(stack) ==
  \A i \in DOMAIN stack :
    (i # Len(stack) \/ stack[i].kind = "prompt") => stack[i].queue.depth = 0

InBatchSteps == {"room", "prepare", "drain", "last", "abort"}
IdleSteps == {"run", "closing", "connecting", "main", "leave", "ended"}
ReadingSteps == {"read", "run", "closing", "connecting"}

Control(stack, at) ==
  /\ at \in InBatchSteps => stack # <<>> /\ Top(stack).kind # "prompt"
  /\ at \in IdleSteps => TopDepth(stack) = 0
  /\ at \in ReadingSteps => stack # <<>>
  /\ at = "prepare" => TopDepth(stack) < PipelineMax

ControlOK == FramesOK /\ DoingOK /\ Nested(frames) /\ Control(frames, doing.at)

(***************************************************************************)
(* What is done and what waits are the statements prepared, in order, and  *)
(* the streams that are open are those of the statements that wait.        *)
(***************************************************************************)
Entry(queue, k) == Contents(queue)[k]

Turn(stack, completed, count, streams, conn) ==
  /\ Len(completed) + TopDepth(stack) = count
  /\ \A k \in 1 .. Len(completed) : completed[k] = k
  /\ \A k \in 1 .. TopDepth(stack) :
       /\ Entry(Top(stack).queue, k) \in Continuations
       /\ Entry(Top(stack).queue, k).id = Len(completed) + k
       /\ Entry(Top(stack).queue, k).conn = conn
  /\ \A n : n \in streams <=>
       \E k \in 1 .. TopDepth(stack) :
         n = Len(completed) + k /\ Entry(Top(stack).queue, k).complete = "render"

TurnOK == ConnectionOK /\ StatementsOK /\ Turn(frames, done, prepared, open, connection)

(***************************************************************************)
(* Each parameter has storage of its own, older than the command that runs. *)
(***************************************************************************)
Storages(list) == {list[i].storage : i \in DOMAIN list}
OwnStorage(list) == \A i, j \in DOMAIN list : list[i].storage = list[j].storage => i = j
KeptOK ==
  /\ ExportsOK
  /\ OwnStorage(exports)
  /\ \A i \in DOMAIN exports :
       /\ exports[i].storage <= used
       /\ doing.at \in {"drain", "run"} => exports[i].storage < used
  /\ stored = Storages(exports)
  /\ files = {output} \ {None}
  /\ doing.at = "ended" => exports = <<>> /\ output = None /\ connection = None
-----------------------------------------------------------------------------
(* Lemmas about the queue of a batch.                                       *)

LEMMA PipelineMaxType == PipelineMax \in Nat /\ PipelineMax > 0
  BY ShellAssumption

\* Positions counted from the first are slots, found by wrapping once.
LEMMA WrapsOnce ==
  ASSUME NEW m \in Nat, m > 0, NEW i \in 0 .. m - 1, NEW k \in 0 .. m - 1
  PROVE  /\ (i + k) % m = IF i + k < m THEN i + k ELSE i + k - m
         /\ (i + k) % m \in 0 .. m - 1
<1>1. CASE i + k < m
  BY <1>1
<1>2. CASE ~(i + k < m)
  BY <1>2
<1>. QED BY <1>1, <1>2

LEMMA EntryIsSlot ==
  ASSUME NEW queue \in Queues, NEW k \in 1 .. queue.depth
  PROVE  /\ Entry(queue, k) = queue.slots[(queue.next + (k - 1)) % PipelineMax]
         /\ (queue.next + (k - 1)) % PipelineMax \in Indices
         /\ (queue.next + (k - 1)) % PipelineMax =
              IF queue.next + (k - 1) < PipelineMax
              THEN queue.next + (k - 1) ELSE queue.next + (k - 1) - PipelineMax
<1>1. /\ queue.next \in 0 .. PipelineMax - 1 /\ k - 1 \in 0 .. PipelineMax - 1
      /\ queue.next + k - 1 = queue.next + (k - 1)
  BY PipelineMaxType DEF Queues, Indices
<1>2. Entry(queue, k) = queue.slots[(queue.next + k - 1) % PipelineMax]
  BY DEF Entry, Contents
<1>. QED BY <1>1, <1>2, WrapsOnce, PipelineMaxType DEF Indices

\* A continuation goes behind those that wait, and leaves them as they are.
LEMMA PushEffect ==
  ASSUME NEW queue \in Queues, queue.depth < PipelineMax, NEW c \in Continuations
  PROVE  /\ Push(queue, c) \in Queues
         /\ Push(queue, c).depth = queue.depth + 1
         /\ Entry(Push(queue, c), queue.depth + 1) = c
         /\ \A k \in 1 .. queue.depth : Entry(Push(queue, c), k) = Entry(queue, k)
<1>. DEFINE q == Push(queue, c)
            slot == Slot(queue)
<1>1. /\ queue.next \in Indices /\ queue.depth \in 0 .. PipelineMax - 1
      /\ queue.slots \in [Indices -> Continuations \cup {None}]
  BY PipelineMaxType DEF Queues
<1>2. slot \in Indices
  BY <1>1, PipelineMaxType DEF Slot, Indices
<1>3. q = [queue EXCEPT !.slots = [queue.slots EXCEPT ![slot] = c], !.depth = queue.depth + 1]
  BY DEF Push
<1>4. /\ q \in Queues /\ q.next = queue.next /\ q.depth = queue.depth + 1
      /\ q.slots = [queue.slots EXCEPT ![slot] = c]
  <2>1. [queue.slots EXCEPT ![slot] = c] \in [Indices -> Continuations \cup {None}]
    BY <1>1, <1>2
  <2>2. queue.depth + 1 \in 0 .. PipelineMax
    BY <1>1, PipelineMaxType
  <2>. QED BY <1>3, <2>1, <2>2 DEF Queues
<1>. HIDE DEF q, slot
<1>5. Entry(q, queue.depth + 1) = c
  <2>1. queue.depth + 1 \in 1 .. q.depth /\ (queue.depth + 1) - 1 = queue.depth
    BY <1>1, <1>4, PipelineMaxType
  <2>. DEFINE i == (q.next + ((queue.depth + 1) - 1)) % PipelineMax
  <2>2. /\ Entry(q, queue.depth + 1) = q.slots[i]
        /\ i = IF q.next + ((queue.depth + 1) - 1) < PipelineMax
               THEN q.next + ((queue.depth + 1) - 1)
               ELSE q.next + ((queue.depth + 1) - 1) - PipelineMax
    BY <1>4, <2>1, EntryIsSlot
  <2>. HIDE DEF i
  <2>3. i = slot
    BY <1>1, <1>4, <2>2, PipelineMaxType DEF slot, Slot, Indices
  <2>. QED BY <1>1, <1>2, <1>4, <2>2, <2>3
<1>6. ASSUME NEW k \in 1 .. queue.depth PROVE Entry(q, k) = Entry(queue, k)
  <2>. DEFINE i == (queue.next + (k - 1)) % PipelineMax
  <2>1. k \in 1 .. q.depth
    BY <1>1, <1>4, PipelineMaxType
  <2>2. Entry(q, k) = q.slots[i] /\ Entry(queue, k) = queue.slots[i] /\ i \in Indices
    BY <1>4, <2>1, EntryIsSlot
  <2>3. i = IF queue.next + (k - 1) < PipelineMax
            THEN queue.next + (k - 1) ELSE queue.next + (k - 1) - PipelineMax
    BY EntryIsSlot
  <2>. HIDE DEF i
  <2>4. i # slot
    BY <1>1, <2>3, PipelineMaxType DEF slot, Slot, Indices
  <2>. QED BY <1>1, <1>4, <2>2, <2>4
<1>. QED BY <1>4, <1>5, <1>6 DEF q

\* The first leaves; the others move up by one.
LEMMA PopEffect ==
  ASSUME NEW queue \in Queues, queue.depth > 0
  PROVE  /\ First(queue) = Entry(queue, 1)
         /\ Pop(queue) \in Queues
         /\ Pop(queue).depth = queue.depth - 1
         /\ \A k \in 1 .. queue.depth - 1 : Entry(Pop(queue), k) = Entry(queue, k + 1)
<1>. DEFINE q == Pop(queue)
            next == IF queue.next + 1 >= PipelineMax THEN 0 ELSE queue.next + 1
<1>1. queue.next \in Indices /\ queue.depth \in 1 .. PipelineMax
  BY PipelineMaxType DEF Queues
<1>2. First(queue) = Entry(queue, 1)
  <2>1. 1 \in 1 .. queue.depth /\ queue.next + (1 - 1) = queue.next /\ queue.next < PipelineMax
    BY <1>1, PipelineMaxType DEF Indices
  <2>. QED BY <2>1, EntryIsSlot DEF First
<1>3. q = [queue EXCEPT !.next = next, !.depth = queue.depth - 1]
  BY DEF Pop
<1>4. next \in Indices /\ queue.depth - 1 \in 0 .. PipelineMax
  BY <1>1, PipelineMaxType DEF Indices
<1>. HIDE DEF next
<1>5. q \in Queues /\ q.next = next /\ q.depth = queue.depth - 1 /\ q.slots = queue.slots
  BY <1>3, <1>4 DEF Queues
<1>. HIDE DEF q
<1>6. ASSUME NEW k \in 1 .. queue.depth - 1 PROVE Entry(q, k) = Entry(queue, k + 1)
  <2>. DEFINE i == (q.next + (k - 1)) % PipelineMax
              j == (queue.next + ((k + 1) - 1)) % PipelineMax
  <2>1. k \in 1 .. q.depth /\ k + 1 \in 1 .. queue.depth
    BY <1>1, <1>5
  <2>2. Entry(q, k) = q.slots[i] /\ Entry(queue, k + 1) = queue.slots[j]
    BY <1>5, <2>1, EntryIsSlot
  <2>3. /\ i = IF q.next + (k - 1) < PipelineMax
               THEN q.next + (k - 1) ELSE q.next + (k - 1) - PipelineMax
        /\ j = IF queue.next + ((k + 1) - 1) < PipelineMax
               THEN queue.next + ((k + 1) - 1) ELSE queue.next + ((k + 1) - 1) - PipelineMax
    BY <1>5, <2>1, EntryIsSlot
  <2>. HIDE DEF i, j
  <2>4. i = j
    BY <1>1, <1>5, <2>3, PipelineMaxType DEF next, Indices
  <2>. QED BY <1>5, <2>2, <2>4
<1>. QED BY <1>2, <1>5, <1>6 DEF q

LEMMA FrameType ==
  ASSUME NEW kind \in {"prompt", "batch", "eval"}
  PROVE  Frame(kind) \in Frames /\ Frame(kind).kind = kind /\ Frame(kind).queue.depth = 0
<1>1. EmptyQueue \in Queues /\ EmptyQueue.depth = 0
  BY PipelineMaxType DEF EmptyQueue, Queues, Indices
<1>. QED BY <1>1 DEF Frame, Frames
-----------------------------------------------------------------------------
(* Lemmas about the stack of inputs.                                        *)

LEMMA TopType ==
  ASSUME NEW stack \in Seq(Frames), stack # <<>>
  PROVE  /\ Len(stack) \in 1 .. Len(stack) /\ Len(stack) \in Nat
         /\ DOMAIN stack = 1 .. Len(stack)
         /\ Top(stack) \in Frames /\ Top(stack).queue \in Queues
         /\ TopDepth(stack) = Top(stack).queue.depth
         /\ TopDepth(stack) \in 0 .. PipelineMax
<1>1. Len(stack) \in 1 .. Len(stack) /\ Len(stack) \in Nat /\ DOMAIN stack = 1 .. Len(stack)
  BY EmptySeq
<1>2. Top(stack) \in Frames
  BY <1>1, ElementOfSeq DEF Top
<1>. QED BY <1>1, <1>2 DEF TopDepth, Frames, Queues

\* Changing the queue of the innermost input, a batch.
LEMMA WithQueueEffect ==
  ASSUME frames \in Seq(Frames), frames # <<>>, Nested(frames), Top(frames).kind # "prompt",
         NEW queue \in Queues
  PROVE  /\ WithQueue(queue) \in Seq(Frames) /\ WithQueue(queue) # <<>>
         /\ Nested(WithQueue(queue))
         /\ Top(WithQueue(queue)).kind # "prompt" /\ Top(WithQueue(queue)).queue = queue
         /\ TopDepth(WithQueue(queue)) = queue.depth
<1>. DEFINE changed == WithQueue(queue)
            new == [Top(frames) EXCEPT !.queue = queue]
<1>1. /\ Len(frames) \in 1 .. Len(frames) /\ Top(frames) \in Frames
      /\ DOMAIN frames = 1 .. Len(frames) /\ Len(frames) \in Nat
  BY TopType
<1>2. new \in Frames /\ new.kind = Top(frames).kind /\ new.queue = queue
  BY <1>1 DEF Frames
<1>3. changed = [frames EXCEPT ![Len(frames)] = new]
  BY DEF Top, WithQueue
<1>. HIDE DEF new, changed
<1>4. /\ changed \in Seq(Frames) /\ Len(changed) = Len(frames)
      /\ \A i \in 1 .. Len(frames) : changed[i] = IF i = Len(frames) THEN new ELSE frames[i]
  BY <1>1, <1>2, <1>3, ExceptSeq
<1>5. changed # <<>> /\ DOMAIN changed = 1 .. Len(frames) /\ Top(changed) = new
  <2>1. Len(frames) > 0 /\ Len(<<>>) = 0
    BY <1>1
  <2>2. changed # <<>>
    BY <1>4, <2>1
  <2>3. Top(changed) = new
    BY <1>1, <1>4 DEF Top
  <2>. QED BY <1>4, <2>2, <2>3, LenProperties
<1>6. Nested(changed)
  BY <1>1, <1>2, <1>4, <1>5 DEF Nested, Top
<1>. QED BY <1>2, <1>4, <1>5, <1>6 DEF TopDepth, changed

\* An input that is done is taken away.
LEMMA FrontEffect ==
  ASSUME NEW stack \in Seq(Frames), stack # <<>>, Nested(stack)
  PROVE  /\ Front(stack) \in Seq(Frames)
         /\ Nested(Front(stack)) /\ TopDepth(Front(stack)) = 0
<1>. DEFINE front == Front(stack)
<1>1. Len(stack) \in Nat \ {0} /\ DOMAIN stack = 1 .. Len(stack)
  BY EmptySeq
<1>2. /\ front \in Seq(Frames) /\ Len(front) = Len(stack) - 1
      /\ \A i \in 1 .. Len(stack) - 1 : front[i] = stack[i]
  <2>1. \A i \in 1 .. Len(stack) - 1 : stack[i] \in Frames
    BY <1>1, ElementOfSeq
  <2>2. front = SubSeq(stack, 1, Len(stack) - 1)
    BY DEF Front
  <2>. HIDE DEF front
  <2>. QED BY <1>1, <2>1, <2>2, SubSeqProperties
<1>. HIDE DEF front
<1>3. DOMAIN front = 1 .. Len(stack) - 1
  BY <1>2, LenProperties
<1>4. \A i \in DOMAIN front : front[i].queue.depth = 0
  BY <1>1, <1>2, <1>3 DEF Nested
<1>5. Nested(front)
  BY <1>4 DEF Nested
<1>6. TopDepth(front) = 0
  <2>1. CASE front = <<>>
    BY <2>1 DEF TopDepth
  <2>2. CASE front # <<>>
    BY <1>2, <1>4, <2>2, TopType DEF Top
  <2>. QED BY <2>1, <2>2
<1>. QED BY <1>2, <1>5, <1>6 DEF front

\* An input is sourced when none waits for its results.
LEMMA NestEffect ==
  ASSUME NEW stack \in Seq(Frames), Nested(stack), TopDepth(stack) = 0,
         NEW frame \in Frames, frame.queue.depth = 0
  PROVE  /\ Append(stack, frame) \in Seq(Frames) /\ Append(stack, frame) # <<>>
         /\ Nested(Append(stack, frame)) /\ TopDepth(Append(stack, frame)) = 0
<1>. DEFINE longer == Append(stack, frame)
<1>1. /\ longer \in Seq(Frames) /\ longer # <<>> /\ Len(longer) = Len(stack) + 1
      /\ \A i \in 1 .. Len(stack) : longer[i] = stack[i]
      /\ longer[Len(stack) + 1] = frame
  BY AppendProperties
<1>. HIDE DEF longer
<1>2. /\ Len(stack) \in Nat /\ DOMAIN stack = 1 .. Len(stack)
      /\ DOMAIN longer = 1 .. Len(stack) + 1
  BY <1>1, LenProperties
<1>3. ASSUME NEW i \in DOMAIN longer PROVE longer[i].queue.depth = 0
  <2>0. i \in Int /\ i >= 1
    BY <1>2
  <2>1. CASE i = Len(stack) + 1
    BY <1>1, <2>1
  <2>2. CASE i = Len(stack)
    <3>1. Len(stack) >= 1 /\ Len(stack) \in 1 .. Len(stack)
      BY <1>2, <2>0, <2>2
    <3>2. Len(<<>>) = 0
      OBVIOUS
    <3>3. stack # <<>>
      BY <3>1, <3>2
    <3>4. stack[i].queue.depth = 0
      BY <2>2, <3>3 DEF TopDepth, Top
    <3>5. longer[i] = stack[i]
      BY <1>1, <2>2, <3>1
    <3>. QED BY <3>4, <3>5
  <2>3. CASE i # Len(stack) + 1 /\ i # Len(stack)
    BY <1>1, <1>2, <2>3 DEF Nested
  <2>. QED BY <2>1, <2>2, <2>3
<1>4. Nested(longer)
  BY <1>3 DEF Nested
<1>5. TopDepth(longer) = 0
  BY <1>1, <1>3, TopType DEF Top
<1>. QED BY <1>1, <1>4, <1>5 DEF longer

LEMMA NoFrames ==
  /\ <<>> \in Seq(Frames) /\ Nested(<<>>) /\ TopDepth(<<>>) = 0
<1>1. DOMAIN <<>> = {}
  OBVIOUS
<1>. QED BY <1>1 DEF Nested, TopDepth

LEMMA SingleFrame ==
  ASSUME NEW kind \in {"prompt", "batch", "eval"}
  PROVE  /\ <<Frame(kind)>> \in Seq(Frames) /\ <<Frame(kind)>> # <<>>
         /\ Nested(<<Frame(kind)>>) /\ TopDepth(<<Frame(kind)>>) = 0
<1>1. Frame(kind) \in Frames /\ Frame(kind).queue.depth = 0
  BY FrameType
<1>2. Append(<<>>, Frame(kind)) = <<Frame(kind)>>
  OBVIOUS
<1>. QED BY <1>1, <1>2, NoFrames, NestEffect

LEMMA DoEffect ==
  ASSUME NEW at \in Steps
  PROVE  Do(at) \in Doings /\ Do(at).at = at
  BY DEF Do, Doings

\* Wherever control goes when a command, a statement or an input has returned.
LEMMA AfterEffect ==
  ASSUME NEW stack \in Seq(Frames), Nested(stack), NEW r
  PROVE  /\ After(stack, r) \in Doings
         /\ After(stack, r).at \in {"main", "leave", "read", "abort"}
         /\ Control(stack, After(stack, r).at)
<1>1. CASE stack = <<>>
  <2>1. After(stack, r) \in {Do("main"), Do("leave")}
    BY <1>1 DEF After
  <2>2. "main" \in Steps /\ "leave" \in Steps
    BY DEF Steps
  <2>. QED
    BY <1>1, <2>1, <2>2, DoEffect, NoFrames
       DEF Control, InBatchSteps, IdleSteps, ReadingSteps
<1>2. CASE stack # <<>> /\ Top(stack).kind # "prompt"
  <2>1. After(stack, r) \in {Do("read"), Do("abort")}
    BY <1>2 DEF After
  <2>2. "read" \in Steps /\ "abort" \in Steps
    BY DEF Steps
  <2>. QED
    BY <1>2, <2>1, <2>2, DoEffect DEF Control, InBatchSteps, IdleSteps, ReadingSteps
<1>3. CASE stack # <<>> /\ Top(stack).kind = "prompt"
  <2>1. After(stack, r) \in {Do("read"), Do("leave")}
    BY <1>3 DEF After
  <2>2. "read" \in Steps /\ "leave" \in Steps
    BY DEF Steps
  <2>3. TopDepth(stack) = 0
    BY <1>3, TopType DEF Nested, Top
  <2>. QED
    BY <1>3, <2>1, <2>2, <2>3, DoEffect DEF Control, InBatchSteps, IdleSteps, ReadingSteps
<1>. QED BY <1>1, <1>2, <1>3
-----------------------------------------------------------------------------
(* What a step does to the statements, and to the parameters and the output. *)

Untouched == UNCHANGED <<frames, connection, prepared, done, open>>
Moves ==
  TopDepth(frames) = 0 /\ TopDepth(frames') = 0 /\ UNCHANGED <<prepared, done, open>>
Pushes ==
  \E c \in Continuations :
    /\ c.id = prepared + 1 /\ c.conn = connection
    /\ InBatch /\ Queue.depth < PipelineMax
    /\ frames' = WithQueue(Push(Queue, c)) /\ open' = open \cup StreamOf(c)
    /\ prepared' = prepared + 1 /\ UNCHANGED <<connection, done>>
Pops ==
  /\ InBatch /\ Queue.depth > 0
  /\ frames' = WithQueue(Pop(Queue)) /\ open' = open \ StreamOf(First(Queue))
  /\ done' = Append(done, First(Queue).id)
  /\ UNCHANGED <<connection, prepared>>
Renders ==
  /\ TopDepth(frames) = 0 /\ done' = Append(done, prepared + 1) /\ prepared' = prepared + 1
  /\ UNCHANGED <<frames, connection, open>>
OnStatements == Untouched \/ Moves \/ Pushes \/ Pops \/ Renders

Pending == {"drain", "run"}
KeepsSettings ==
  /\ UNCHANGED settings /\ used' \in {used, used + 1} /\ doing'.at # "ended"
  /\ doing'.at \in Pending => used' = used + 1 \/ doing.at \in Pending
OnSettings == KeepsSettings \/ Leave \/ Export \/ Unexport \/ RedirectOutput

Effect == ControlOK' /\ ConnectionOK' /\ OnStatements /\ OnSettings

Elsewhere == {"main", "leave", "read", "abort"}

LEMMA ReturnsEffect ==
  ASSUME ControlOK, NEW r, Returns(r)
  PROVE  ControlOK' /\ frames' = frames /\ doing'.at \in Elsewhere
<1>1. /\ doing' \in Doings /\ doing'.at \in Elsewhere /\ Control(frames, doing'.at)
  BY AfterEffect DEF Returns, ControlOK, FramesOK, Elsewhere
<1>. QED BY <1>1 DEF Returns, ControlOK, FramesOK, DoingOK

LEMMA GoesEffect ==
  ASSUME ControlOK, frames' = frames, NEW at \in Steps, doing' \in Doings, doing'.at = at,
         Control(frames, at)
  PROVE  ControlOK'
  BY DEF ControlOK, FramesOK, DoingOK

LEMMA StayEffect ==
  ASSUME ControlOK, frames' = frames, doing' = doing
  PROVE  ControlOK'
  BY DEF ControlOK, FramesOK, DoingOK

\* A command runs when no statement waits, in an input.
LEMMA AtRun ==
  ASSUME ControlOK, doing.at \in {"run", "closing", "connecting"}
  PROVE  frames # <<>> /\ TopDepth(frames) = 0
  BY DEF ControlOK, Control, IdleSteps, ReadingSteps

\* The commands that leave the statements, the connection and the settings alone.
LEMMA CommandEffect ==
  ASSUME ControlOK, ConnectionOK, NEW r, Returns(r),
         UNCHANGED <<connection, prepared, done, open, settings>>, IsFiniteSet(closed'), used' = used
  PROVE  Effect
<1>1. ControlOK' /\ frames' = frames /\ doing'.at \in Elsewhere
  BY ReturnsEffect
<1>2. doing'.at # "ended" /\ doing'.at \notin Pending
  BY <1>1 DEF Elsewhere, Pending
<1>3. Untouched
  BY <1>1 DEF Untouched, statements
<1>. QED
  BY <1>1, <1>2, <1>3 DEF Effect, OnStatements, OnSettings, KeepsSettings, ConnectionOK

LEMMA CrashEffect ==
  ASSUME ControlOK, ConnectionOK, NEW why, Crashes(why), doing.at # "ended"
  PROVE  Effect
<1>1. /\ UNCHANGED <<connection, closed, frames, doing, prepared, done, open>>
      /\ UNCHANGED settings /\ used' = used
  BY DEF Crashes, library, statements
<1>. QED
  BY <1>1, StayEffect
     DEF Effect, OnStatements, OnSettings, KeepsSettings, ConnectionOK, Untouched

\* Steps of control alone.
LEMMA ControlEffect ==
  ASSUME ControlOK, ConnectionOK, used \in Nat, UNCHANGED <<connection, statements, settings>>,
         frames' = frames, IsFiniteSet(closed'), used' = used,
         NEW at \in Steps \ {"ended"}, doing' \in Doings, doing'.at = at,
         at \in Pending => doing.at \in Pending,
         Control(frames, at)
  PROVE  Effect
<1>1. ControlOK'
  BY GoesEffect
<1>2. Untouched
  BY DEF Untouched, statements
<1>. QED
  BY <1>1, <1>2 DEF Effect, OnStatements, OnSettings, KeepsSettings, ConnectionOK

LEMMA AtEffect ==
  ASSUME DoingOK, NEW at \in Steps
  PROVE  [doing EXCEPT !.at = at] \in Doings /\ [doing EXCEPT !.at = at].at = at
  BY DEF DoingOK, Doings

LEMMA StatementEffect ==
  ASSUME ControlOK, ConnectionOK, used \in Nat, Statement
  PROVE  Effect
<1>. DEFINE at == IF Queue.depth >= PipelineMax THEN "room" ELSE "prepare"
<1>1. at \in Steps /\ doing' = [doing EXCEPT !.at = at]
  BY DEF Statement, Steps
<1>2. /\ InBatch /\ used' = used + 1 /\ frames' = frames
      /\ UNCHANGED <<connection, closed, statements, settings>>
  BY DEF Statement, Reads, library
<1>3. frames # <<>> /\ Top(frames).kind # "prompt" /\ TopDepth(frames) = Queue.depth
      /\ Queue.depth \in Nat
  BY <1>2, TopType DEF InBatch, Queue, ControlOK, FramesOK
<1>4. Control(frames, at)
  BY <1>3, PipelineMaxType DEF Control, InBatchSteps, IdleSteps, ReadingSteps
<1>5. doing' \in Doings /\ doing'.at = at /\ at \notin Pending /\ at # "ended"
  BY <1>1, AtEffect DEF ControlOK, Pending
<1>. HIDE DEF at
<1>6. ControlOK'
  BY <1>1, <1>2, <1>4, <1>5, GoesEffect
<1>7. Untouched /\ KeepsSettings
  BY <1>2, <1>5 DEF Untouched, statements, KeepsSettings
<1>. QED
  BY <1>2, <1>6, <1>7 DEF Effect, OnStatements, OnSettings, ConnectionOK

\* The continuations that prepare_statement may give a statement.
LEMMA PreparedType ==
  ASSUME connection \in Nat, prepared \in Nat, NEW p \in Prepared
  PROVE  /\ p.continuation \in Continuations
         /\ p.continuation.id = prepared + 1 /\ p.continuation.conn = connection
<1>0. prepared + 1 \in Nat
  OBVIOUS
<1>. DEFINE Completes == {"not connected", "render", "failure"}
<1>1. ASSUME NEW complete \in Completes
      PROVE  /\ Continuation(complete) \in Continuations
             /\ Continuation(complete).id = prepared + 1
             /\ Continuation(complete).conn = connection
  BY <1>0 DEF Continuation, Continuations
<1>2. \E complete \in Completes : p.continuation = Continuation(complete)
  <2>. DEFINE after(complete, run) == [continuation |-> Continuation(complete), run |-> run]
  <2>1. ASSUME NEW complete \in Completes, NEW run, p = after(complete, run)
        PROVE  \E other \in Completes : p.continuation = Continuation(other)
    <3>1. p.continuation = Continuation(complete)
      BY <2>1
    <3>. QED BY <3>1
  <2>2. CASE connection = None
    <3>1. p = after("not connected", Ran(FALSE, tx.tx, 0))
      BY <2>2 DEF Prepared
    <3>. HIDE DEF after
    <3>. QED BY <2>1, <3>1
  <2>3. CASE connection # None
    <3>1. PICK run \in StatementRuns(tx.tx) :
            p = after(IF run.given THEN "render" ELSE "failure", run)
      BY <2>3 DEF Prepared
    <3>. HIDE DEF after
    <3>. QED BY <2>1, <3>1
  <2>. QED BY <2>2, <2>3
<1>. HIDE DEF Completes
<1>. QED BY <1>1, <1>2

LEMMA PrepareEffect ==
  ASSUME ControlOK, ConnectionOK, prepared \in Nat, used \in Nat, Prepare
  PROVE  Effect
<1>0. doing.at = "prepare"
  BY DEF Prepare, At
<1>1. CASE RunDangles
  <2>1. Crashes("transaction without connection")
    BY <1>1 DEF Prepare
  <2>. QED BY <1>0, <2>1, CrashEffect
<1>2. CASE ~RunDangles
  <2>1. PICK p \in Prepared :
          /\ Prepares(p)
          /\ open' = open \cup StreamOf(p.continuation)
          /\ frames' = WithQueue(Push(Queue, p.continuation))
          /\ doing' = Do("read") /\ Goes
          /\ UNCHANGED <<connection, closed, poisoned, done, settings>>
    BY <1>2 DEF Prepare
  <2>. DEFINE c == p.continuation
  <2>2. c \in Continuations /\ c.id = prepared + 1 /\ c.conn = connection
    BY PreparedType DEF ConnectionOK
  <2>3. frames # <<>> /\ Top(frames).kind # "prompt" /\ TopDepth(frames) < PipelineMax
    BY <1>0 DEF ControlOK, Control, InBatchSteps
  <2>4. /\ Queue \in Queues /\ TopDepth(frames) = Queue.depth
        /\ Queue.depth \in Nat /\ Queue.depth < PipelineMax /\ InBatch
    BY <2>3, TopType DEF Queue, InBatch, ControlOK, FramesOK
  <2>. HIDE DEF c
  <2>5. Push(Queue, c) \in Queues
    BY <2>2, <2>4, PushEffect
  <2>6. frames' \in Seq(Frames) /\ frames' # <<>> /\ Nested(frames')
        /\ Top(frames').kind # "prompt"
    <3>1. frames' = WithQueue(Push(Queue, c))
      BY <2>1 DEF c
    <3>. QED BY <2>3, <2>5, <3>1, WithQueueEffect DEF ControlOK, FramesOK
  <2>7. doing' \in Doings /\ doing'.at = "read"
    BY <2>1, DoEffect DEF Steps
  <2>8. Control(frames', "read")
    BY <2>6 DEF Control, InBatchSteps, IdleSteps, ReadingSteps
  <2>9. ControlOK'
    BY <2>6, <2>7, <2>8 DEF ControlOK, FramesOK, DoingOK
  <2>10. Pushes
    BY <2>1, <2>2, <2>4 DEF Pushes, Prepares, c
  <2>11. KeepsSettings
    BY <2>1, <2>7 DEF KeepsSettings, Goes, Pending
  <2>. QED
    BY <2>1, <2>9, <2>10, <2>11 DEF Effect, OnStatements, OnSettings, ConnectionOK
<1>. QED BY <1>1, <1>2

LEMMA EvaluateStatementEffect ==
  ASSUME ControlOK, ConnectionOK, prepared \in Nat, used \in Nat, EvaluateStatement
  PROVE  Effect
<1>0. /\ doing.at = "read" /\ used' = used + 1 /\ UNCHANGED settings
      /\ ~InBatch /\ frames # <<>>
  BY DEF EvaluateStatement, Reads, At, ControlOK, Control, ReadingSteps
<1>1. CASE RunDangles
  <2>1. UNCHANGED <<connection, closed, frames, doing, prepared, done, open>>
    BY <1>1 DEF EvaluateStatement, library, statements
  <2>2. ControlOK'
    BY <2>1, StayEffect
  <2>3. Untouched /\ KeepsSettings
    BY <1>0, <2>1 DEF Untouched, KeepsSettings
  <2>. QED
    BY <2>1, <2>2, <2>3 DEF Effect, OnStatements, OnSettings, ConnectionOK
<1>2. CASE ~RunDangles
  <2>0. PICK p \in Prepared : \E r \in Completions(p.continuation) :
          /\ Prepares(p)
          /\ done' = Append(done, p.continuation.id)
          /\ Returns(r) /\ crashed' = "no"
          /\ UNCHANGED <<connection, closed, poisoned, open>>
    BY <1>2 DEF EvaluateStatement
  <2>1. PICK r \in Completions(p.continuation) :
          /\ Prepares(p)
          /\ done' = Append(done, p.continuation.id)
          /\ Returns(r) /\ crashed' = "no"
          /\ UNCHANGED <<connection, closed, poisoned, open>>
    BY <2>0
  <2>2. p.continuation.id = prepared + 1
    BY PreparedType DEF ConnectionOK
  <2>3. TopDepth(frames) = 0
    <3>1. Top(frames).kind = "prompt"
      BY <1>0 DEF InBatch
    <3>. QED BY <1>0, <3>1, TopType DEF ControlOK, FramesOK, Nested, Top
  <2>4. ControlOK' /\ frames' = frames /\ doing'.at \in Elsewhere
    BY <2>1, ReturnsEffect
  <2>5. Renders
    BY <2>1, <2>2, <2>3, <2>4 DEF Renders, Prepares
  <2>6. KeepsSettings
    BY <1>0, <2>4 DEF KeepsSettings, Elsewhere, Pending
  <2>. QED
    BY <2>1, <2>4, <2>5, <2>6 DEF Effect, OnStatements, OnSettings, ConnectionOK
<1>. QED BY <1>1, <1>2

\* The first of the statements that wait is taken from the queue.
LEMMA PopsEffect ==
  ASSUME ControlOK, InBatch, Queue.depth > 0, frames' = WithQueue(Pop(Queue))
  PROVE  /\ frames' \in Seq(Frames) /\ frames' # <<>> /\ Nested(frames')
         /\ Top(frames').kind # "prompt"
         /\ TopDepth(frames') = Queue.depth - 1 /\ Queue.depth \in 1 .. PipelineMax
<1>1. frames \in Seq(Frames) /\ Nested(frames) /\ frames # <<>> /\ Top(frames).kind # "prompt"
  BY DEF ControlOK, FramesOK, InBatch
<1>2. Queue \in Queues /\ Queue.depth \in 1 .. PipelineMax
  BY <1>1, TopType DEF Queue, Queues
<1>3. Pop(Queue) \in Queues /\ Pop(Queue).depth = Queue.depth - 1
  BY <1>2, PopEffect
<1>. QED BY <1>1, <1>2, <1>3, WithQueueEffect

LEMMA FinalizeEffect ==
  ASSUME ControlOK, ConnectionOK, used \in Nat, Finalize
  PROVE  Effect
<1>1. /\ doing.at \in {"room", "drain", "last"} /\ Queue.depth > 0
      /\ frames' = WithQueue(Pop(Queue)) /\ open' = open \ StreamOf(First(Queue))
      /\ done' = Append(done, First(Queue).id)
      /\ UNCHANGED <<connection, closed, prepared, settings>> /\ used' = used
  BY DEF Finalize, Goes, library
<1>2. InBatch
  BY <1>1 DEF InBatch, ControlOK, Control, InBatchSteps
<1>3. /\ frames' \in Seq(Frames) /\ frames' # <<>> /\ Nested(frames')
      /\ Top(frames').kind # "prompt"
      /\ TopDepth(frames') = Queue.depth - 1 /\ Queue.depth \in 1 .. PipelineMax
  BY <1>1, <1>2, PopsEffect
<1>4. \/ doing' = Do("abort")
      \/ doing.at = "room" /\ doing' = Do("prepare")
      \/ doing.at # "room" /\ doing' = doing
  BY DEF Finalize
<1>5. doing' \in Doings /\ doing'.at \in {"abort", "prepare", "drain", "last"}
  <2>1. "abort" \in Steps /\ "prepare" \in Steps
    BY DEF Steps
  <2>. QED BY <1>1, <1>4, <2>1, DoEffect DEF ControlOK, DoingOK
<1>6. TopDepth(frames') < PipelineMax
  BY <1>3, PipelineMaxType
<1>7. Control(frames', doing'.at)
  BY <1>3, <1>5, <1>6 DEF Control, InBatchSteps, IdleSteps, ReadingSteps
<1>8. ControlOK'
  BY <1>3, <1>5, <1>7 DEF ControlOK, FramesOK, DoingOK
<1>9. doing'.at \in Pending => doing.at \in Pending
  <2>1. doing'.at = "drain" => doing.at = "drain"
    <3>1. Do("abort").at = "abort" /\ Do("prepare").at = "prepare"
      BY DEF Do
    <3>. QED BY <1>4, <3>1
  <2>. QED BY <1>5, <2>1 DEF Pending
<1>10. Pops /\ KeepsSettings
  BY <1>1, <1>2, <1>5, <1>9 DEF Pops, KeepsSettings
<1>. QED BY <1>1, <1>8, <1>10 DEF Effect, OnStatements, OnSettings, ConnectionOK

LEMMA AbortEffect ==
  ASSUME ControlOK, ConnectionOK, used \in Nat, Abort
  PROVE  Effect
<1>1. /\ doing.at = "abort" /\ Queue.depth > 0
      /\ frames' = WithQueue(Pop(Queue)) /\ open' = open \ StreamOf(First(Queue))
      /\ done' = Append(done, First(Queue).id)
      /\ UNCHANGED <<connection, closed, doing, prepared, settings>> /\ used' = used
  BY DEF Abort, Goes, library, At
<1>2. InBatch
  BY <1>1 DEF InBatch, ControlOK, Control, InBatchSteps
<1>3. /\ frames' \in Seq(Frames) /\ frames' # <<>> /\ Nested(frames')
      /\ Top(frames').kind # "prompt"
  BY <1>1, <1>2, PopsEffect
<1>4. Control(frames', doing'.at)
  BY <1>1, <1>3 DEF Control, InBatchSteps, IdleSteps, ReadingSteps
<1>5. ControlOK'
  BY <1>1, <1>3, <1>4 DEF ControlOK, FramesOK, DoingOK
<1>6. Pops /\ KeepsSettings
  BY <1>1, <1>2 DEF Pops, KeepsSettings, Pending
<1>. QED BY <1>1, <1>5, <1>6 DEF Effect, OnStatements, OnSettings, ConnectionOK

LEMMA EndOfInputEffect ==
  ASSUME ControlOK, ConnectionOK, used \in Nat, EndOfInput
  PROVE  Effect
<1>1. /\ doing.at = "read" /\ frames' = frames /\ used' = used
      /\ UNCHANGED <<connection, closed, statements, settings>>
  BY DEF EndOfInput, At, Goes, library
<1>2. frames # <<>>
  BY <1>1 DEF ControlOK, Control, ReadingSteps
<1>3. CASE InBatch
  <2>1. PICK at \in {"last", "abort"} : doing' = Do(at)
    BY <1>3 DEF EndOfInput
  <2>2. at \in Steps \ {"ended"} /\ at \notin Pending
    BY DEF Steps, Pending
  <2>3. doing' \in Doings /\ doing'.at = at
    BY <2>1, <2>2, DoEffect
  <2>4. Control(frames, at)
    BY <1>2, <1>3 DEF Control, InBatch, InBatchSteps, IdleSteps, ReadingSteps
  <2>. QED BY <1>1, <2>2, <2>3, <2>4, ControlEffect DEF ConnectionOK
<1>4. CASE ~InBatch
  <2>1. doing' = Do("leave")
    BY <1>4 DEF EndOfInput
  <2>2. "leave" \in Steps \ {"ended"} /\ "leave" \notin Pending
    BY DEF Steps, Pending
  <2>3. TopDepth(frames) = 0
    BY <1>2, <1>4, TopType DEF ControlOK, FramesOK, Nested, Top, InBatch
  <2>4. Control(frames, "leave")
    BY <2>3 DEF Control, InBatchSteps, IdleSteps, ReadingSteps
  <2>. QED BY <1>1, <2>1, <2>2, <2>4, DoEffect, ControlEffect DEF ConnectionOK
<1>. QED BY <1>3, <1>4

LEMMA ReturnEffect ==
  ASSUME ControlOK, ConnectionOK, used \in Nat, Return
  PROVE  Effect
<1>1. /\ doing.at \in {"last", "abort"} /\ Queue.depth = 0 /\ frames' = Front(frames)
      /\ UNCHANGED <<connection, closed, statements, settings>> /\ used' = used
  BY DEF Return, Goes, library
<1>2. PICK r : doing' = After(Front(frames), r)
  BY DEF Return
<1>3. frames # <<>> /\ TopDepth(frames) = 0
  BY <1>1 DEF ControlOK, Control, InBatchSteps, TopDepth, Queue
<1>4. frames' \in Seq(Frames) /\ Nested(frames') /\ TopDepth(frames') = 0
  BY <1>1, <1>3, FrontEffect DEF ControlOK, FramesOK
<1>5. /\ doing' \in Doings /\ doing'.at \in Elsewhere
      /\ Control(frames', doing'.at)
  BY <1>1, <1>2, <1>4, AfterEffect DEF Elsewhere
<1>6. ControlOK'
  BY <1>4, <1>5 DEF ControlOK, FramesOK, DoingOK
<1>7. Moves
  BY <1>1, <1>3, <1>4 DEF Moves, statements
<1>8. KeepsSettings
  BY <1>1, <1>5 DEF KeepsSettings, Elsewhere, Pending
<1>. QED BY <1>1, <1>6, <1>7, <1>8 DEF Effect, OnStatements, OnSettings, ConnectionOK

LEMMA HandleEffect ==
  ASSUME ControlOK, ConnectionOK, used \in Nat, Handle
  PROVE  Effect
<1>1. /\ doing.at = "main" /\ doing' = Do("read") /\ used' = used + 1
      /\ UNCHANGED <<connection, closed, statements, settings>>
  BY DEF Handle, At, library
<1>2. PICK kind \in {"batch", "eval"} : frames' = <<Frame(kind)>>
  BY DEF Handle
<1>3. TopDepth(frames) = 0
  BY <1>1 DEF ControlOK, Control, IdleSteps
<1>4. frames' \in Seq(Frames) /\ frames' # <<>> /\ Nested(frames') /\ TopDepth(frames') = 0
  BY <1>2, SingleFrame
<1>5. doing' \in Doings /\ doing'.at = "read"
  BY <1>1, DoEffect DEF Steps
<1>6. Control(frames', "read")
  BY <1>4 DEF Control, InBatchSteps, IdleSteps, ReadingSteps
<1>7. ControlOK'
  BY <1>4, <1>5, <1>6 DEF ControlOK, FramesOK, DoingOK
<1>8. Moves /\ KeepsSettings
  BY <1>1, <1>3, <1>4, <1>5 DEF Moves, statements, KeepsSettings, Pending
<1>. QED BY <1>1, <1>7, <1>8 DEF Effect, OnStatements, OnSettings, ConnectionOK

LEMMA FinishEffect ==
  ASSUME ControlOK, ConnectionOK, used \in Nat, Finish
  PROVE  Effect
<1>1. /\ doing.at = "main" /\ doing' = Do("leave") /\ frames' = frames /\ used' = used
      /\ UNCHANGED <<connection, closed, statements, settings>>
  BY DEF Finish, At, Goes, library
<1>2. TopDepth(frames) = 0
  BY <1>1 DEF ControlOK, Control, IdleSteps
<1>3. Control(frames, "leave")
  BY <1>2 DEF Control, InBatchSteps, IdleSteps, ReadingSteps
<1>4. "leave" \in Steps \ {"ended"} /\ "leave" \notin Pending
  BY DEF Steps, Pending
<1>. QED BY <1>1, <1>3, <1>4, DoEffect, ControlEffect DEF ConnectionOK

LEMMA LeaveEffect ==
  ASSUME ControlOK, ConnectionOK, Leave
  PROVE  Effect
<1>1. /\ doing.at = "leave" /\ doing' = Do("ended") /\ frames' = <<>>
      /\ closed' = closed \cup ({connection} \ {None}) /\ connection' = None
      /\ UNCHANGED statements
  BY DEF Leave, At
<1>2. TopDepth(frames) = 0
  BY <1>1 DEF ControlOK, Control, IdleSteps
<1>3. doing' \in Doings /\ doing'.at = "ended"
  BY <1>1, DoEffect DEF Steps
<1>4. frames' \in Seq(Frames) /\ Nested(frames') /\ TopDepth(frames') = 0
  BY <1>1, NoFrames
<1>5. Control(frames', "ended")
  BY <1>4 DEF Control, InBatchSteps, IdleSteps, ReadingSteps
<1>6. ControlOK'
  BY <1>3, <1>4, <1>5 DEF ControlOK, FramesOK, DoingOK
<1>7. ConnectionOK'
  <2>1. closed' \in {closed, closed \cup {connection}}
    BY <1>1
  <2>2. IsFiniteSet(closed')
    BY <2>1, FS_AddElement DEF ConnectionOK
  <2>. QED BY <1>1, <2>2 DEF ConnectionOK, None
<1>8. Moves
  BY <1>1, <1>2, <1>4 DEF Moves, statements
<1>. QED BY <1>6, <1>7, <1>8 DEF Effect, OnStatements, OnSettings

LEMMA IssueEffect ==
  ASSUME ControlOK, ConnectionOK, used \in Nat, NEW command \in Commands, Command(command)
  PROVE  Effect
<1>. DEFINE at == BeforeCommand(InBatch)
<1>1. /\ doing.at = "read" /\ frames' = frames /\ used' = used + 1
      /\ doing' = [Do(at) EXCEPT !.then = command]
      /\ UNCHANGED <<connection, closed, statements, settings>>
  BY DEF Command, Reads, At, library
<1>2. frames # <<>>
  BY <1>1 DEF ControlOK, Control, ReadingSteps
<1>3. at = IF InBatch THEN "drain" ELSE "run"
  BY DEF BeforeCommand
<1>. HIDE DEF at
<1>4. Control(frames, at)
  <2>1. CASE InBatch
    BY <1>2, <1>3, <2>1 DEF Control, InBatch, InBatchSteps, IdleSteps, ReadingSteps
  <2>2. CASE ~InBatch
    <3>1. TopDepth(frames) = 0
      BY <1>2, <2>2, TopType DEF ControlOK, FramesOK, Nested, Top, InBatch
    <3>. QED BY <1>2, <1>3, <2>2, <3>1 DEF Control, InBatchSteps, IdleSteps, ReadingSteps
  <2>. QED BY <2>1, <2>2
<1>5. at \in Steps /\ at # "ended"
  BY <1>3 DEF Steps
<1>6. doing' \in Doings /\ doing'.at = at
  BY <1>1, <1>5, DoEffect DEF Doings
<1>7. ControlOK'
  BY <1>1, <1>4, <1>5, <1>6, GoesEffect
<1>8. Untouched /\ KeepsSettings
  BY <1>1, <1>5, <1>6 DEF Untouched, statements, KeepsSettings
<1>. QED BY <1>1, <1>7, <1>8 DEF Effect, OnStatements, OnSettings, ConnectionOK

LEMMA DrainedEffect ==
  ASSUME ControlOK, ConnectionOK, used \in Nat, Drained
  PROVE  Effect
<1>1. /\ doing.at = "drain" /\ Queue.depth = 0 /\ doing' = [doing EXCEPT !.at = "run"]
      /\ frames' = frames /\ used' = used
      /\ UNCHANGED <<connection, closed, statements, settings>>
  BY DEF Drained, At, Goes, library
<1>2. frames # <<>> /\ TopDepth(frames) = 0
  BY <1>1 DEF ControlOK, Control, InBatchSteps, TopDepth, Queue
<1>3. Control(frames, "run")
  BY <1>2 DEF Control, InBatchSteps, IdleSteps, ReadingSteps
<1>4. "run" \in Steps \ {"ended"} /\ doing.at \in Pending
  BY <1>1 DEF Steps, Pending
<1>5. doing' \in Doings /\ doing'.at = "run"
  BY <1>1, <1>4, AtEffect DEF ControlOK
<1>. QED BY <1>1, <1>3, <1>4, <1>5, ControlEffect DEF ConnectionOK

LEMMA SourceEffect ==
  ASSUME ControlOK, ConnectionOK, used \in Nat, Source
  PROVE  Effect
<1>1. /\ doing.at = "run" /\ used' = used
      /\ UNCHANGED <<connection, closed, statements, settings>>
  BY DEF Source, Runs, At, Goes, library
<1>2. CASE frames' = Append(frames, Frame("batch")) /\ doing' = Do("read")
  <2>1. TopDepth(frames) = 0
    BY <1>1, AtRun
  <2>2. /\ frames' \in Seq(Frames) /\ frames' # <<>> /\ Nested(frames')
        /\ TopDepth(frames') = 0
    BY <1>2, <2>1, FrameType, NestEffect DEF ControlOK, FramesOK
  <2>3. doing' \in Doings /\ doing'.at = "read"
    BY <1>2, DoEffect DEF Steps
  <2>4. Control(frames', "read")
    BY <2>2 DEF Control, InBatchSteps, IdleSteps, ReadingSteps
  <2>5. ControlOK'
    BY <2>2, <2>3, <2>4 DEF ControlOK, FramesOK, DoingOK
  <2>6. Moves /\ KeepsSettings
    BY <1>1, <2>1, <2>2, <2>3 DEF Moves, statements, KeepsSettings, Pending
  <2>. QED BY <1>1, <2>5, <2>6 DEF Effect, OnStatements, OnSettings, ConnectionOK
<1>3. CASE Returns(-1)
  BY <1>1, <1>3, CommandEffect DEF ConnectionOK, statements
<1>. QED BY <1>2, <1>3 DEF Source

LEMMA QuitEffect ==
  ASSUME ControlOK, ConnectionOK, Quit \/ OtherCommand \/ Refuse
  PROVE  Effect
<1>1. /\ used' = used /\ UNCHANGED <<connection, closed, statements, settings>>
      /\ \E r \in {0, -1, 1} : Returns(r)
  BY DEF Quit, OtherCommand, Refuse, Goes, library
<1>. QED BY <1>1, CommandEffect DEF ConnectionOK, statements

LEMMA SchemaEffect ==
  ASSUME ControlOK, ConnectionOK, Schema
  PROVE  Effect
<1>1. doing.at = "run"
  BY DEF Schema, Runs, At
<1>2. CASE \E why : Crashes(why)
  BY <1>1, <1>2, CrashEffect
<1>3. CASE ~\E why : Crashes(why)
  <2>1. /\ used' = used /\ UNCHANGED <<connection, closed, prepared, done, open, settings>>
        /\ \E r \in {0, -1} : Returns(r)
    BY <1>3 DEF Schema, Goes, library, statements
  <2>. QED BY <2>1, CommandEffect DEF ConnectionOK, statements
<1>. QED BY <1>2, <1>3

LEMMA CloseConnectionEffect ==
  ASSUME ControlOK, ConnectionOK, used \in Nat, doing.at = "run",
         NEW then \in Commands, CloseConnection(then), used' = used,
         UNCHANGED <<statements, settings>>
  PROVE  Effect
<1>1. /\ closed' = closed \cup {connection} /\ doing' = [Do("closing") EXCEPT !.then = then]
      /\ UNCHANGED <<connection, frames>>
  BY DEF CloseConnection
<1>2. IsFiniteSet(closed')
  BY <1>1, FS_AddElement DEF ConnectionOK
<1>3. "closing" \in Steps \ {"ended"} /\ "closing" \notin Pending
  BY DEF Steps, Pending
<1>4. doing' \in Doings /\ doing'.at = "closing"
  BY <1>1, <1>3, DoEffect DEF Doings
<1>5. Control(frames, "closing")
  BY AtRun DEF Control, InBatchSteps, IdleSteps, ReadingSteps
<1>. QED BY <1>1, <1>2, <1>3, <1>4, <1>5, ControlEffect

LEMMA ConnectingEffect ==
  ASSUME ControlOK, ConnectionOK, used \in Nat, doing.at \in {"run", "closing", "connecting"},
         frames' = frames, doing' \in Doings, doing'.at = "connecting", used' = used,
         connection' \in Nat, IsFiniteSet(closed'), UNCHANGED <<statements, settings>>
  PROVE  Effect
<1>1. TopDepth(frames) = 0 /\ frames # <<>>
  BY AtRun
<1>2. "connecting" \in Steps
  BY DEF Steps
<1>3. Control(frames, "connecting")
  BY <1>1 DEF Control, InBatchSteps, IdleSteps, ReadingSteps
<1>4. ControlOK'
  BY <1>2, <1>3, GoesEffect
<1>5. Moves /\ KeepsSettings
  BY <1>1 DEF Moves, statements, KeepsSettings, Pending
<1>. QED BY <1>4, <1>5 DEF Effect, OnStatements, OnSettings, ConnectionOK

LEMMA DisconnectEffect ==
  ASSUME ControlOK, ConnectionOK, used \in Nat, Disconnect
  PROVE  Effect
<1>1. /\ doing.at = "run" /\ used' = used /\ UNCHANGED <<statements, settings>>
      /\ \/ Returns(-1) /\ UNCHANGED library
         \/ CloseConnection("disconnect")
  BY DEF Disconnect, Runs, At, Goes
<1>2. CASE Returns(-1) /\ UNCHANGED library
  BY <1>1, <1>2, CommandEffect DEF library, ConnectionOK, statements
<1>3. CASE CloseConnection("disconnect")
  <2>1. "disconnect" \in Commands
    BY DEF Commands
  <2>. QED BY <1>1, <1>3, <2>1, CloseConnectionEffect
<1>. QED BY <1>1, <1>2, <1>3

\* A return from a command that leaves the shell with another connection.
LEMMA ReconnectedEffect ==
  ASSUME ControlOK, ConnectionOK, doing.at \in {"run", "closing", "connecting"},
         NEW r, Returns(r), used' = used, connection' \in Nat, closed' = closed,
         UNCHANGED <<statements, settings>>
  PROVE  Effect
<1>1. ControlOK' /\ frames' = frames /\ doing'.at \in Elsewhere
  BY ReturnsEffect
<1>2. Moves
  BY <1>1, AtRun DEF Moves, statements
<1>3. KeepsSettings
  BY <1>1 DEF KeepsSettings, Elsewhere, Pending
<1>. QED BY <1>1, <1>2, <1>3 DEF Effect, OnStatements, OnSettings, ConnectionOK

LEMMA DisconnectedEffect ==
  ASSUME ControlOK, ConnectionOK, used \in Nat, Disconnected
  PROVE  Effect
<1>1. /\ doing.at = "closing" /\ connection' = None /\ closed' = closed /\ used' = used
      /\ UNCHANGED <<statements, settings>>
      /\ \/ Returns(0)
         \/ doing' = [Do("connecting") EXCEPT !.attempt = 1] /\ frames' = frames
  BY DEF Disconnected, At, Goes
<1>2. None \in Nat
  BY DEF None
<1>3. CASE Returns(0)
  BY <1>1, <1>2, <1>3, ReconnectedEffect
<1>4. CASE doing' = [Do("connecting") EXCEPT !.attempt = 1] /\ frames' = frames
  <2>1. doing' \in Doings /\ doing'.at = "connecting"
    BY <1>4, DoEffect DEF Doings, Steps
  <2>. QED BY <1>1, <1>2, <1>4, <2>1, ConnectingEffect DEF ConnectionOK
<1>. QED BY <1>1, <1>3, <1>4

LEMMA ConnectEffect ==
  ASSUME ControlOK, ConnectionOK, used \in Nat, Connect
  PROVE  Effect
<1>1. /\ doing.at = "run" /\ used' = used /\ UNCHANGED <<statements, settings>>
      /\ \/ Returns(-1) /\ UNCHANGED library
         \/ CloseConnection("connect")
         \/ /\ doing' = [Do("connecting") EXCEPT !.attempt = 1]
            /\ UNCHANGED <<library, frames>>
  BY DEF Connect, Runs, At, Goes
<1>2. CASE Returns(-1) /\ UNCHANGED library
  BY <1>1, <1>2, CommandEffect DEF library, ConnectionOK, statements
<1>3. CASE CloseConnection("connect")
  <2>1. "connect" \in Commands
    BY DEF Commands
  <2>. QED BY <1>1, <1>3, <2>1, CloseConnectionEffect
<1>4. CASE /\ doing' = [Do("connecting") EXCEPT !.attempt = 1]
           /\ UNCHANGED <<library, frames>>
  <2>1. doing' \in Doings /\ doing'.at = "connecting"
    BY <1>4, DoEffect DEF Doings, Steps
  <2>. QED BY <1>1, <1>4, <2>1, ConnectingEffect DEF ConnectionOK, library
<1>. QED BY <1>1, <1>2, <1>3, <1>4

LEMMA AttemptEffect ==
  ASSUME ControlOK, ConnectionOK, used \in Nat, Attempt
  PROVE  Effect
<1>1. /\ doing.at = "connecting" /\ closed' = closed /\ used' = used
      /\ UNCHANGED <<statements, settings>>
  BY DEF Attempt, At, Goes
<1>2. Cardinality(closed) + 1 \in Nat
  BY FS_CardinalityType DEF ConnectionOK
<1>3. CASE /\ connection' \in {connection, Cardinality(closed) + 1}
           /\ Returns(0) \/ Returns(-1)
  BY <1>1, <1>2, <1>3, ReconnectedEffect DEF ConnectionOK
<1>4. CASE doing' = [doing EXCEPT !.attempt = @ + 1] /\ UNCHANGED <<connection, frames>>
  <2>1. doing' \in Doings /\ doing'.at = "connecting"
    BY <1>1, <1>4 DEF ControlOK, DoingOK, Doings
  <2>. QED BY <1>1, <1>4, <2>1, ConnectingEffect DEF ConnectionOK
<1>. QED BY <1>3, <1>4 DEF Attempt

LEMMA ResetSessionEffect ==
  ASSUME ControlOK, ConnectionOK, ResetSession
  PROVE  Effect
<1>1. /\ used' = used /\ UNCHANGED <<connection, closed, statements, settings>>
      /\ \E r \in {0, -1} : Returns(r)
  BY DEF ResetSession, Goes, library
<1>. QED BY <1>1, CommandEffect DEF ConnectionOK, statements

LEMMA InterruptEffect ==
  ASSUME ControlOK, ConnectionOK, Interrupt
  PROVE  Effect
<1>1. /\ doing.at # "ended" /\ used' = used
      /\ UNCHANGED <<connection, closed, frames, doing, statements, settings>>
  BY DEF Interrupt, library
<1>2. ControlOK'
  BY <1>1, StayEffect
<1>3. Untouched /\ KeepsSettings
  BY <1>1 DEF Untouched, statements, KeepsSettings
<1>. QED BY <1>1, <1>2, <1>3 DEF Effect, OnStatements, OnSettings, ConnectionOK

LEMMA TransactionEffect ==
  ASSUME ControlOK, ConnectionOK, Begin \/ Commit \/ Rollback
  PROVE  Effect
<1>1. doing.at = "run"
  BY DEF Begin, Commit, Rollback, Runs, At
<1>2. CASE \E why : Crashes(why)
  BY <1>1, <1>2, CrashEffect
<1>3. CASE ~\E why : Crashes(why)
  <2>1. ASSUME Begin
        PROVE  /\ used' = used /\ UNCHANGED <<connection, closed, statements, settings>>
               /\ \E r \in {0, -1} : Returns(r)
    BY <1>3, <2>1 DEF Begin, Goes
  <2>2. ASSUME NEW request, \E r \in Ends(request) : Returns(r)
        PROVE  \E r \in {0, -1} : Returns(r)
    <3>1. Ends(request) \subseteq {0, -1}
      BY DEF Ends
    <3>. QED BY <2>2, <3>1
  <2>3. ASSUME Commit \/ Rollback
        PROVE  /\ used' = used /\ UNCHANGED <<connection, closed, statements, settings>>
               /\ \E r \in {0, -1} : Returns(r)
    BY <1>3, <2>2, <2>3 DEF Commit, Rollback, Goes, library
  <2>. QED BY <2>1, <2>3, CommandEffect DEF ConnectionOK, statements
<1>. QED BY <1>2, <1>3

\* The commands that change the parameters or the output return, too.
LEMMA SettingsEffect ==
  ASSUME ControlOK, ConnectionOK, Export \/ Unexport \/ RedirectOutput
  PROVE  Effect /\ doing'.at \in Elsewhere /\ used' = used /\ connection' = connection
<1>1. /\ used' = used /\ UNCHANGED <<connection, closed, statements>>
      /\ \E r \in {0, -1} : Returns(r)
  BY DEF Export, Unexport, RedirectOutput, Goes, library
<1>2. ControlOK' /\ frames' = frames /\ doing'.at \in Elsewhere
  BY <1>1, ReturnsEffect
<1>3. Untouched
  BY <1>1, <1>2 DEF Untouched, statements
<1>. QED BY <1>1, <1>2, <1>3 DEF Effect, OnStatements, OnSettings, ConnectionOK

\* What every step does.
LEMMA NextEffect ==
  ASSUME ControlOK, ConnectionOK, prepared \in Nat, used \in Nat, Next
  PROVE  Effect
<1>1. CASE Statement \/ Prepare \/ EvaluateStatement \/ Finalize \/ Abort
  BY <1>1, StatementEffect, PrepareEffect, EvaluateStatementEffect, FinalizeEffect, AbortEffect
<1>2. CASE EndOfInput \/ Return \/ Handle \/ Finish \/ Leave
  BY <1>2, EndOfInputEffect, ReturnEffect, HandleEffect, FinishEffect, LeaveEffect
<1>3. CASE \E command \in Commands : Command(command)
  BY <1>3, IssueEffect
<1>4. CASE Drained \/ Source \/ Quit \/ OtherCommand \/ Refuse \/ Schema
  BY <1>4, DrainedEffect, SourceEffect, QuitEffect, SchemaEffect
<1>5. CASE Disconnect \/ Disconnected \/ Connect \/ Attempt \/ ResetSession \/ Interrupt
  BY <1>5, DisconnectEffect, DisconnectedEffect, ConnectEffect, AttemptEffect,
     ResetSessionEffect, InterruptEffect
<1>6. CASE Begin \/ Commit \/ Rollback
  BY <1>6, TransactionEffect
<1>7. CASE Export \/ Unexport \/ RedirectOutput
  BY <1>7, SettingsEffect
<1>. QED BY <1>1, <1>2, <1>3, <1>4, <1>5, <1>6, <1>7 DEF Next
-----------------------------------------------------------------------------
(* Statements in turn.                                                      *)

\* The stream of a statement that waits, if it has one.
LEMMA StreamOfEntry ==
  ASSUME NEW c \in Continuations, NEW n
  PROVE  n \in StreamOf(c) <=> n = c.id /\ c.complete = "render"
  BY DEF StreamOf

LEMMA PushesTurn ==
  ASSUME ControlOK, TurnOK, Pushes
  PROVE  StatementsOK' /\ Turn(frames, done, prepared, open, connection)'
<1>1. PICK c \in Continuations :
        /\ c.id = prepared + 1 /\ c.conn = connection
        /\ InBatch /\ Queue.depth < PipelineMax
        /\ frames' = WithQueue(Push(Queue, c)) /\ open' = open \cup StreamOf(c)
        /\ prepared' = prepared + 1 /\ UNCHANGED <<connection, done>>
  BY DEF Pushes
<1>. DEFINE q == Push(Queue, c)
            d == Queue.depth
            m == Len(done)
<1>2. frames # <<>> /\ Top(frames).kind # "prompt" /\ frames \in Seq(Frames) /\ Nested(frames)
  BY <1>1 DEF InBatch, ControlOK, FramesOK
<1>3. Queue \in Queues /\ TopDepth(frames) = d /\ d \in Nat /\ Queue = Top(frames).queue
  BY <1>2, TopType DEF Queue
<1>4. q \in Queues /\ q.depth = d + 1 /\ Entry(q, d + 1) = c
      /\ \A k \in 1 .. d : Entry(q, k) = Entry(Queue, k)
  BY <1>1, <1>3, PushEffect
<1>5. TopDepth(frames') = d + 1 /\ Top(frames').queue = q
  BY <1>1, <1>2, <1>4, WithQueueEffect
<1>6. m \in Nat /\ done' = done /\ prepared \in Nat /\ m + d = prepared
  BY <1>1, <1>3 DEF TurnOK, StatementsOK, Turn
<1>. HIDE DEF q, d, m
<1>7. ASSUME NEW k \in 1 .. d + 1
      PROVE  /\ Entry(q, k) \in Continuations /\ Entry(q, k).id = m + k
             /\ Entry(q, k).conn = connection
  <2>1. CASE k = d + 1
    BY <1>1, <1>3, <1>4, <1>6, <2>1
  <2>2. CASE k \in 1 .. d
    BY <1>3, <1>4, <2>2 DEF TurnOK, Turn, m
  <2>. QED BY <1>3, <2>1, <2>2
<1>8. ASSUME NEW n
      PROVE  n \in open' <=> \E k \in 1 .. d + 1 : n = m + k /\ Entry(q, k).complete = "render"
  <2>1. n \in open' <=> n \in open \/ (n = prepared + 1 /\ c.complete = "render")
    BY <1>1, StreamOfEntry
  <2>2. n \in open <=> \E k \in 1 .. d : n = m + k /\ Entry(q, k).complete = "render"
    BY <1>3, <1>4 DEF TurnOK, Turn, m
  <2>3. m + (d + 1) = prepared + 1 /\ d + 1 \in 1 .. d + 1
        /\ \A k : k \in 1 .. d + 1 <=> k \in 1 .. d \/ k = d + 1
    BY <1>3, <1>6
  <2>. QED BY <1>4, <2>1, <2>2, <2>3
<1>9. /\ prepared' = prepared + 1 /\ connection' = connection
      /\ m + (d + 1) = prepared + 1
      /\ \A k \in 1 .. m : done[k] = k
  BY <1>1, <1>3, <1>6 DEF TurnOK, Turn, m
<1>10. StatementsOK'
  BY <1>1, <1>6 DEF TurnOK, StatementsOK
<1>11. Turn(frames', done', prepared', open', connection')
  BY <1>5, <1>6, <1>7, <1>8, <1>9 DEF Turn, m
<1>. QED BY <1>10, <1>11

LEMMA PopsTurn ==
  ASSUME ControlOK, TurnOK, Pops
  PROVE  StatementsOK' /\ Turn(frames, done, prepared, open, connection)'
<1>. DEFINE q == Pop(Queue)
            d == Queue.depth
            m == Len(done)
            c == First(Queue)
<1>1. /\ InBatch /\ Queue.depth > 0
      /\ frames' = WithQueue(Pop(Queue)) /\ open' = open \ StreamOf(c)
      /\ done' = Append(done, c.id) /\ connection' = connection /\ prepared' = prepared
  BY DEF Pops
<1>2. frames # <<>> /\ Top(frames).kind # "prompt" /\ frames \in Seq(Frames) /\ Nested(frames)
  BY <1>1 DEF InBatch, ControlOK, FramesOK
<1>3. /\ Queue \in Queues /\ TopDepth(frames) = d /\ d \in Nat /\ d > 0
      /\ Queue = Top(frames).queue
  BY <1>1, <1>2, TopType DEF Queue
<1>4. q \in Queues /\ q.depth = d - 1 /\ c = Entry(Queue, 1)
      /\ \A k \in 1 .. d - 1 : Entry(q, k) = Entry(Queue, k + 1)
  BY <1>3, PopEffect
<1>5. TopDepth(frames') = d - 1 /\ Top(frames').queue = q
  BY <1>1, <1>2, <1>4, WithQueueEffect
<1>6. m \in Nat /\ done \in Seq(Nat) /\ prepared \in Nat /\ m + d = prepared
  BY <1>3 DEF TurnOK, StatementsOK, Turn
<1>7. \A k \in 1 .. d : /\ Entry(Queue, k) \in Continuations
                       /\ Entry(Queue, k).id = m + k /\ Entry(Queue, k).conn = connection
  BY <1>3 DEF TurnOK, Turn
<1>. HIDE DEF q, d, m, c
<1>8. c \in Continuations /\ c.id = m + 1 /\ c.id \in Nat
  BY <1>3, <1>4, <1>6, <1>7
<1>9. /\ done' \in Seq(Nat) /\ Len(done') = m + 1
      /\ \A k \in 1 .. m : done'[k] = done[k]
      /\ done'[m + 1] = m + 1
  BY <1>1, <1>6, <1>8, AppendProperties DEF m
<1>10. \A k \in 1 .. m + 1 : done'[k] = k
  <2>1. \A k \in 1 .. m : done[k] = k
    BY DEF TurnOK, Turn, m
  <2>. QED BY <1>6, <1>9, <2>1
<1>11. ASSUME NEW k \in 1 .. d - 1
       PROVE  /\ Entry(q, k) \in Continuations /\ Entry(q, k).id = (m + 1) + k
              /\ Entry(q, k).conn = connection
  <2>1. k + 1 \in 1 .. d /\ m + (k + 1) = (m + 1) + k
    BY <1>3, <1>6
  <2>. QED BY <1>4, <1>7, <2>1
<1>12. ASSUME NEW n
       PROVE  n \in open' <=>
                \E k \in 1 .. d - 1 : n = (m + 1) + k /\ Entry(q, k).complete = "render"
  <2>1. n \in open' <=> n \in open /\ ~(n = m + 1 /\ c.complete = "render")
    BY <1>1, <1>8, StreamOfEntry
  <2>2. n \in open <=> \E k \in 1 .. d : n = m + k /\ Entry(Queue, k).complete = "render"
    BY <1>3 DEF TurnOK, Turn, m
  <2>3. ASSUME NEW k \in 1 .. d, n = m + k, Entry(Queue, k).complete = "render",
               ~(n = m + 1 /\ c.complete = "render")
        PROVE  \E j \in 1 .. d - 1 : n = (m + 1) + j /\ Entry(q, j).complete = "render"
    <3>1. k # 1
      BY <1>4, <2>3
    <3>2. k - 1 \in 1 .. d - 1 /\ n = (m + 1) + (k - 1) /\ (k - 1) + 1 = k
      BY <1>3, <1>6, <2>3, <3>1
    <3>3. Entry(q, k - 1).complete = "render"
      BY <1>4, <2>3, <3>2
    <3>. QED BY <3>2, <3>3
  <2>4. ASSUME NEW j \in 1 .. d - 1, n = (m + 1) + j, Entry(q, j).complete = "render"
        PROVE  n # m + 1 /\ \E k \in 1 .. d : n = m + k /\ Entry(Queue, k).complete = "render"
    <3>1. j + 1 \in 1 .. d /\ n = m + (j + 1) /\ n # m + 1
      BY <1>3, <1>6, <2>4
    <3>2. Entry(Queue, j + 1).complete = "render"
      BY <1>4, <2>4
    <3>. QED BY <3>1, <3>2
  <2>. QED BY <2>1, <2>2, <2>3, <2>4
<1>13. (m + 1) + (d - 1) = prepared
  BY <1>3, <1>6
<1>14. StatementsOK'
  BY <1>1, <1>6, <1>9 DEF StatementsOK
<1>15. Turn(frames', done', prepared', open', connection')
  BY <1>1, <1>5, <1>9, <1>10, <1>11, <1>12, <1>13 DEF Turn
<1>. QED BY <1>14, <1>15

LEMMA RendersTurn ==
  ASSUME ControlOK, TurnOK, Renders
  PROVE  StatementsOK' /\ Turn(frames, done, prepared, open, connection)'
<1>. DEFINE m == Len(done)
<1>1. /\ TopDepth(frames) = 0 /\ done' = Append(done, prepared + 1) /\ prepared' = prepared + 1
      /\ UNCHANGED <<frames, connection, open>>
  BY DEF Renders
<1>2. m \in Nat /\ done \in Seq(Nat) /\ prepared \in Nat /\ m = prepared
  BY <1>1 DEF TurnOK, StatementsOK, Turn
<1>3. \A k \in 1 .. m : done[k] = k
  BY DEF TurnOK, Turn
<1>4. \A n : n \notin open
  BY <1>1 DEF TurnOK, Turn
<1>. HIDE DEF m
<1>5. /\ done' \in Seq(Nat) /\ Len(done') = m + 1
      /\ \A k \in 1 .. m : done'[k] = done[k]
      /\ done'[m + 1] = m + 1
  BY <1>1, <1>2, AppendProperties DEF m
<1>6. \A k \in 1 .. m + 1 : done'[k] = k
  BY <1>2, <1>3, <1>5
<1>7. StatementsOK'
  BY <1>1, <1>2, <1>5 DEF StatementsOK
<1>8. Turn(frames', done', prepared', open', connection')
  BY <1>1, <1>2, <1>4, <1>5, <1>6 DEF Turn
<1>. QED BY <1>7, <1>8

LEMMA StatementsTurn ==
  ASSUME ControlOK, TurnOK, OnStatements, ConnectionOK'
  PROVE  TurnOK'
<1>1. CASE Untouched
  BY <1>1 DEF Untouched, TurnOK, StatementsOK
<1>2. CASE Moves
  <2>1. TopDepth(frames) = 0 /\ TopDepth(frames') = 0 /\ UNCHANGED <<prepared, done, open>>
    BY <1>2 DEF Moves
  <2>2. /\ Len(done) + 0 = prepared /\ (\A k \in 1 .. Len(done) : done[k] = k)
        /\ \A n : n \notin open
    BY <2>1 DEF TurnOK, Turn
  <2>3. Turn(frames', done', prepared', open', connection')
    BY <2>1, <2>2 DEF Turn
  <2>. QED BY <2>1, <2>3 DEF TurnOK, StatementsOK
<1>3. CASE Pushes
  BY <1>3, PushesTurn DEF TurnOK
<1>4. CASE Pops
  BY <1>4, PopsTurn DEF TurnOK
<1>5. CASE Renders
  BY <1>5, RendersTurn DEF TurnOK
<1>. QED BY <1>1, <1>2, <1>3, <1>4, <1>5 DEF OnStatements
-----------------------------------------------------------------------------
(* Parameters and output.                                                   *)

LEMMA StoragesType ==
  ASSUME NEW list \in Seq(Entries)
  PROVE  /\ DOMAIN list = 1 .. Len(list) /\ Len(list) \in Nat
         /\ \A i \in 1 .. Len(list) : list[i] \in Entries /\ list[i].storage \in Nat
         /\ \A n : n \in Storages(list) <=> \E i \in 1 .. Len(list) : n = list[i].storage
<1>1. DOMAIN list = 1 .. Len(list) /\ Len(list) \in Nat
  BY LenProperties
<1>2. \A i \in 1 .. Len(list) : list[i] \in Entries
  BY ElementOfSeq
<1>. QED BY <1>1, <1>2 DEF Storages, Entries

LEMMA KeepsKept ==
  ASSUME KeptOK, KeepsSettings
  PROVE  KeptOK'
<1>1. /\ UNCHANGED <<exports, stored, output, files>> /\ used' \in {used, used + 1}
      /\ doing'.at # "ended"
      /\ doing'.at \in Pending => used' = used + 1 \/ doing.at \in Pending
  BY DEF KeepsSettings, settings
<1>2. used \in Nat /\ exports \in Seq(Entries)
  BY DEF KeptOK, ExportsOK
<1>3. ExportsOK' /\ OwnStorage(exports') /\ stored' = Storages(exports') /\ files' = {output'} \ {None}
  BY <1>1, <1>2 DEF KeptOK, ExportsOK
<1>4. ASSUME NEW i \in DOMAIN exports'
      PROVE  /\ exports'[i].storage <= used'
             /\ doing'.at \in {"drain", "run"} => exports'[i].storage < used'
  <2>1. i \in DOMAIN exports /\ exports'[i] = exports[i] /\ exports[i].storage \in Nat
    BY <1>1, <1>2, StoragesType
  <2>2. exports[i].storage <= used /\ (doing.at \in Pending => exports[i].storage < used)
    BY <2>1 DEF KeptOK, Pending
  <2>. QED BY <1>1, <1>2, <2>1, <2>2 DEF Pending
<1>. QED BY <1>1, <1>3, <1>4 DEF KeptOK

LEMMA LeaveKept ==
  ASSUME KeptOK, Leave
  PROVE  KeptOK'
<1>1. /\ exports' = <<>> /\ stored' = stored \ Storages(exports) /\ connection' = None
      /\ files' = files \ {output} /\ output' = None /\ used' = used
  BY DEF Leave, Goes, Storages
<1>2. DOMAIN <<>> = {} /\ <<>> \in Seq(Entries)
  OBVIOUS
<1>3. stored' = {} /\ files' = {}
  BY <1>1 DEF KeptOK
<1>4. Storages(<<>>) = {} /\ OwnStorage(<<>>)
  BY <1>2 DEF Storages, OwnStorage
<1>. QED BY <1>1, <1>2, <1>3, <1>4 DEF KeptOK, ExportsOK

LEMMA PlaceType ==
  ASSUME ExportsOK, NEW name
  PROVE  Place(name) \in 1 .. Len(exports) + 1
<1>1. DOMAIN exports = 1 .. Len(exports) /\ Len(exports) \in Nat
  BY LenProperties DEF ExportsOK
<1>2. CASE NotLess(name) = {}
  BY <1>1, <1>2 DEF Place
<1>3. CASE NotLess(name) # {}
  <2>1. NotLess(name) \in SUBSET Nat /\ NotLess(name) \subseteq 1 .. Len(exports)
    BY <1>1 DEF NotLess
  <2>2. \E i \in NotLess(name) : \A j \in NotLess(name) : i <= j
    BY <1>3, <2>1, LeastOfSet
  <2>3. Place(name) \in NotLess(name)
    BY <1>3, <2>2 DEF Place
  <2>. QED BY <1>1, <2>1, <2>3
<1>. QED BY <1>2, <1>3

\* An entry goes where Place says, the ones from there on after it.
LEMMA InsertEffect ==
  ASSUME NEW list \in Seq(Entries), NEW i \in 1 .. Len(list) + 1, NEW entry \in Entries
  PROVE  /\ InsertAt(list, i, entry) \in Seq(Entries)
         /\ Len(InsertAt(list, i, entry)) = Len(list) + 1
         /\ \A k \in 1 .. Len(list) + 1 :
              InsertAt(list, i, entry)[k] =
                IF k < i THEN list[k] ELSE IF k = i THEN entry ELSE list[k - 1]
<1>. DEFINE before == SubSeq(list, 1, i - 1)
            after == SubSeq(list, i, Len(list))
            n == Len(list)
<1>0. n \in Nat /\ i \in Nat /\ i >= 1 /\ i <= n + 1 /\ \A k \in 1 .. n : list[k] \in Entries
  BY StoragesType
<1>1. /\ before \in Seq(Entries) /\ Len(before) = i - 1
      /\ \A k \in 1 .. i - 1 : before[k] = list[k]
  <2>1. \A k \in 1 .. i - 1 : list[k] \in Entries
    BY <1>0
  <2>2. /\ before \in Seq(Entries)
        /\ Len(before) = IF 1 <= i - 1 THEN (i - 1) - 1 + 1 ELSE 0
        /\ \A k \in 1 .. (i - 1) - 1 + 1 : before[k] = list[1 + k - 1]
    BY <1>0, <2>1, SubSeqProperties
  <2>. HIDE DEF before
  <2>. QED BY <1>0, <2>2
<1>2. /\ after \in Seq(Entries) /\ Len(after) = n + 1 - i
      /\ \A k \in 1 .. n + 1 - i : after[k] = list[i + k - 1]
  <2>1. \A k \in i .. n : list[k] \in Entries
    BY <1>0
  <2>2. /\ after \in Seq(Entries)
        /\ Len(after) = IF i <= n THEN n - i + 1 ELSE 0
        /\ \A k \in 1 .. n - i + 1 : after[k] = list[i + k - 1]
    BY <1>0, <2>1, SubSeqProperties
  <2>. HIDE DEF after
  <2>. QED BY <1>0, <2>2
<1>3. InsertAt(list, i, entry) = (before \o <<entry>>) \o after
  BY DEF InsertAt
<1>. HIDE DEF before, after, n
<1>. DEFINE left == before \o <<entry>>
<1>4. /\ left \in Seq(Entries) /\ Len(left) = i
      /\ \A k \in 1 .. i : left[k] = IF k < i THEN list[k] ELSE entry
  <2>1. <<entry>> \in Seq(Entries) /\ Len(<<entry>>) = 1 /\ <<entry>>[1] = entry
    OBVIOUS
  <2>2. /\ left \in Seq(Entries) /\ Len(left) = Len(before) + 1
        /\ \A k \in 1 .. Len(before) + 1 : left[k] =
             IF k <= Len(before) THEN before[k] ELSE <<entry>>[k - Len(before)]
    BY <1>1, <2>1, ConcatProperties
  <2>. HIDE DEF left
  <2>3. ASSUME NEW k \in 1 .. i PROVE left[k] = IF k < i THEN list[k] ELSE entry
    <3>1. CASE k < i
      BY <1>0, <1>1, <2>2, <3>1
    <3>2. CASE k = i
      BY <1>0, <1>1, <2>1, <2>2, <3>2
    <3>. QED BY <1>0, <3>1, <3>2
  <2>. QED BY <1>0, <1>1, <2>2, <2>3
<1>. HIDE DEF left
<1>. DEFINE whole == left \o after
<1>5. /\ whole \in Seq(Entries) /\ Len(whole) = i + (n + 1 - i)
      /\ \A k \in 1 .. i + (n + 1 - i) : whole[k] = IF k <= i THEN left[k] ELSE after[k - i]
  BY <1>2, <1>4, ConcatProperties
<1>. HIDE DEF whole
<1>6. i + (n + 1 - i) = n + 1
  BY <1>0
<1>7. ASSUME NEW k \in 1 .. n + 1
      PROVE  whole[k] = IF k < i THEN list[k] ELSE IF k = i THEN entry ELSE list[k - 1]
  <2>1. CASE k <= i
    BY <1>0, <1>4, <1>5, <1>6, <2>1
  <2>2. CASE k > i
    <3>1. k - i \in 1 .. n + 1 - i /\ i + (k - i) - 1 = k - 1
      BY <1>0, <2>2
    <3>2. after[k - i] = list[k - 1]
      BY <1>2, <3>1
    <3>. QED BY <1>0, <1>5, <1>6, <2>2, <3>2
  <2>. QED BY <1>0, <2>1, <2>2
<1>8. InsertAt(list, i, entry) = whole
  BY <1>3 DEF left, whole
<1>. QED BY <1>5, <1>6, <1>7, <1>8 DEF n

\* What is left to show when a command that changes the settings returns.
LEMMA ReturnedKept ==
  ASSUME KeptOK, doing'.at \in Elsewhere, used' = used,
         exports' \in Seq(Entries), OwnStorage(exports'),
         \A i \in 1 .. Len(exports') : exports'[i].storage <= used,
         stored' = Storages(exports'), files' = {output'} \ {None}
  PROVE  KeptOK'
<1>1. doing'.at \notin {"drain", "run"} /\ doing'.at # "ended"
  BY DEF Elsewhere
<1>2. DOMAIN exports' = 1 .. Len(exports')
  BY LenProperties
<1>. QED BY <1>1, <1>2 DEF KeptOK, ExportsOK

LEMMA ReplacedKept ==
  ASSUME KeptOK, doing.at = "run", doing'.at \in Elsewhere, used' = used,
         UNCHANGED <<output, files>>,
         NEW i \in 1 .. Len(exports), NEW name \in Names,
         stored' = (stored \ {exports[i].storage}) \cup {used},
         exports' = [exports EXCEPT ![i] = [key |-> name, storage |-> used]]
  PROVE  KeptOK'
<1>. DEFINE entry == [key |-> name, storage |-> used]
            n == Len(exports)
<1>1. used \in Nat /\ exports \in Seq(Entries)
  BY DEF KeptOK, ExportsOK
<1>2. entry \in Entries /\ entry.storage = used
  BY <1>1 DEF Entries
<1>3. /\ DOMAIN exports = 1 .. n /\ n \in Nat
      /\ \A k \in 1 .. n : exports[k].storage \in Nat
  BY <1>1, StoragesType
<1>4. \A k \in 1 .. n : exports[k].storage < used
  BY <1>3 DEF KeptOK
<1>. HIDE DEF entry, n
<1>5. /\ exports' \in Seq(Entries) /\ Len(exports') = n
      /\ \A k \in 1 .. n : exports'[k] = IF k = i THEN entry ELSE exports[k]
  BY <1>1, <1>2, ExceptSeq DEF entry, n
<1>6. /\ DOMAIN exports' = 1 .. n
      /\ \A s : s \in Storages(exports') <=> \E k \in 1 .. n : s = exports'[k].storage
      /\ \A s : s \in Storages(exports) <=> \E k \in 1 .. n : s = exports[k].storage
  BY <1>1, <1>5, StoragesType DEF n
<1>7. \A k \in 1 .. n : exports'[k].storage = IF k = i THEN used ELSE exports[k].storage
  BY <1>2, <1>5
<1>8. \A k, l \in 1 .. n : exports[k].storage = exports[l].storage => k = l
  BY <1>3 DEF KeptOK, OwnStorage
<1>9. OwnStorage(exports')
  <2>1. \A k, l \in 1 .. n : exports'[k].storage = exports'[l].storage => k = l
    BY <1>1, <1>3, <1>4, <1>7, <1>8
  <2>. QED BY <1>6, <2>1 DEF OwnStorage
<1>10. \A k \in 1 .. Len(exports') : exports'[k].storage <= used
  BY <1>1, <1>3, <1>4, <1>5, <1>7
<1>11. ASSUME NEW s PROVE s \in stored' <=> s \in Storages(exports')
  <2>1. s \in stored' <=>
          s = used \/ (s # exports[i].storage /\ \E k \in 1 .. n : s = exports[k].storage)
    BY <1>6 DEF KeptOK
  <2>2. i \in 1 .. n
    BY DEF n
  <2>3. s # exports[i].storage /\ (\E k \in 1 .. n : s = exports[k].storage) <=>
          \E k \in 1 .. n : k # i /\ s = exports[k].storage
    BY <1>8, <2>2
  <2>4. s \in Storages(exports') <=> s = used \/ \E k \in 1 .. n : k # i /\ s = exports[k].storage
    BY <1>6, <1>7, <2>2
  <2>. QED BY <2>1, <2>3, <2>4
<1>12. stored' = Storages(exports')
  BY <1>11
<1>13. files' = {output'} \ {None}
  BY DEF KeptOK
<1>. QED BY <1>5, <1>9, <1>10, <1>12, <1>13, ReturnedKept

LEMMA InsertedKept ==
  ASSUME KeptOK, doing.at = "run", doing'.at \in Elsewhere, used' = used,
         UNCHANGED <<output, files>>,
         NEW i \in 1 .. Len(exports) + 1, NEW name \in Names,
         stored' = stored \cup {used},
         exports' = InsertAt(exports, i, [key |-> name, storage |-> used])
  PROVE  KeptOK'
<1>. DEFINE entry == [key |-> name, storage |-> used]
            n == Len(exports)
<1>1. used \in Nat /\ exports \in Seq(Entries)
  BY DEF KeptOK, ExportsOK
<1>2. entry \in Entries /\ entry.storage = used
  BY <1>1 DEF Entries
<1>3. /\ DOMAIN exports = 1 .. n /\ n \in Nat
      /\ \A k \in 1 .. n : exports[k].storage \in Nat
  BY <1>1, StoragesType
<1>4. \A k \in 1 .. n : exports[k].storage < used
  BY <1>3 DEF KeptOK
<1>5. i \in Nat /\ i >= 1 /\ i <= n + 1
  BY <1>3
<1>6. /\ exports' \in Seq(Entries) /\ Len(exports') = n + 1
      /\ \A k \in 1 .. n + 1 :
           exports'[k] = IF k < i THEN exports[k] ELSE IF k = i THEN entry ELSE exports[k - 1]
  BY <1>1, <1>2, InsertEffect
<1>. HIDE DEF entry, n
<1>. DEFINE from(k) == IF k < i THEN k ELSE k - 1
<1>7. /\ DOMAIN exports' = 1 .. n + 1
      /\ \A s : s \in Storages(exports') <=> \E k \in 1 .. n + 1 : s = exports'[k].storage
      /\ \A s : s \in Storages(exports) <=> \E k \in 1 .. n : s = exports[k].storage
  BY <1>1, <1>6, StoragesType DEF n
<1>8. ASSUME NEW k \in 1 .. n + 1
      PROVE  /\ k = i => exports'[k].storage = used
             /\ k # i => from(k) \in 1 .. n /\ exports'[k].storage = exports[from(k)].storage
  <2>1. k # i => from(k) \in 1 .. n
    BY <1>3, <1>5
  <2>. QED BY <1>2, <1>3, <1>5, <1>6, <2>1
<1>9. \A k, l \in 1 .. n : exports[k].storage = exports[l].storage => k = l
  BY <1>3 DEF KeptOK, OwnStorage
<1>10. ASSUME NEW k \in 1 .. n + 1, NEW l \in 1 .. n + 1,
              exports'[k].storage = exports'[l].storage
       PROVE  k = l
  <2>1. CASE k = i /\ l = i
    BY <2>1
  <2>2. CASE k = i /\ l # i
    <3>1. exports[from(l)].storage = used /\ from(l) \in 1 .. n
      BY <1>8, <1>10, <2>2
    <3>. QED BY <1>1, <1>3, <1>4, <3>1
  <2>3. CASE k # i /\ l = i
    <3>1. exports[from(k)].storage = used /\ from(k) \in 1 .. n
      BY <1>8, <1>10, <2>3
    <3>. QED BY <1>1, <1>3, <1>4, <3>1
  <2>4. CASE k # i /\ l # i
    <3>1. from(k) = from(l)
      BY <1>8, <1>9, <1>10, <2>4
    <3>. QED BY <1>3, <1>5, <2>4, <3>1
  <2>. QED BY <2>1, <2>2, <2>3, <2>4
<1>11. OwnStorage(exports')
  BY <1>7, <1>10 DEF OwnStorage
<1>12. \A k \in 1 .. Len(exports') : exports'[k].storage <= used
  <2>1. ASSUME NEW k \in 1 .. n + 1 PROVE exports'[k].storage <= used
    BY <1>1, <1>3, <1>4, <1>8
  <2>. QED BY <1>6, <2>1
<1>13. ASSUME NEW s PROVE s \in stored' <=> s \in Storages(exports')
  <2>1. s \in stored' <=> s = used \/ \E k \in 1 .. n : s = exports[k].storage
    BY <1>7 DEF KeptOK
  <2>2. ASSUME s \in Storages(exports') PROVE s \in stored'
    <3>1. PICK k \in 1 .. n + 1 : s = exports'[k].storage
      BY <1>7, <2>2
    <3>. QED BY <1>8, <2>1, <3>1
  <2>3. ASSUME s = used PROVE s \in Storages(exports')
    <3>1. i \in 1 .. n + 1 /\ exports'[i].storage = used
      BY <1>3, <1>5, <1>8
    <3>. QED BY <1>7, <2>3, <3>1
  <2>4. ASSUME NEW k \in 1 .. n, s = exports[k].storage PROVE s \in Storages(exports')
    <3>. DEFINE l == IF k < i THEN k ELSE k + 1
    <3>1. l \in 1 .. n + 1 /\ l # i /\ from(l) = k
      BY <1>3, <1>5
    <3>. HIDE DEF l
    <3>2. exports'[l].storage = s
      BY <1>8, <2>4, <3>1
    <3>. QED BY <1>7, <3>1, <3>2
  <2>. QED BY <2>1, <2>2, <2>3, <2>4
<1>14. stored' = Storages(exports')
  BY <1>13
<1>15. files' = {output'} \ {None}
  BY DEF KeptOK
<1>. QED BY <1>6, <1>11, <1>12, <1>14, <1>15, ReturnedKept

LEMMA SameKept ==
  ASSUME KeptOK, doing'.at \in Elsewhere, used' = used,
         UNCHANGED <<exports, stored>>, files' = {output'} \ {None}
  PROVE  KeptOK'
<1>1. exports \in Seq(Entries)
  BY DEF KeptOK, ExportsOK
<1>2. \A i \in 1 .. Len(exports) : exports[i].storage <= used
  BY <1>1, StoragesType DEF KeptOK
<1>3. OwnStorage(exports') /\ stored' = Storages(exports')
  BY DEF KeptOK
<1>. QED BY <1>1, <1>2, <1>3, ReturnedKept

LEMMA ExportKept ==
  ASSUME KeptOK, doing'.at \in Elsewhere, used' = used, Export
  PROVE  KeptOK'
<1>1. doing.at = "run" /\ UNCHANGED <<output, files>>
  BY DEF Export, Runs, At
<1>2. PICK name \in Names :
        LET i == Place(name)
            entry == [key |-> name, storage |-> used]
            same == IF i <= Len(exports) THEN exports[i].key = name ELSE FALSE
        IN  \/ /\ same /\ Returns(0)
               /\ stored' = (stored \ {exports[i].storage}) \cup {used}
               /\ exports' = [exports EXCEPT ![i] = entry]
            \/ /\ ~same /\ Returns(0)
               /\ stored' = stored \cup {used}
               /\ exports' = InsertAt(exports, i, entry)
            \/ Returns(-1) /\ UNCHANGED <<exports, stored>>
  BY DEF Export
<1>. DEFINE i == Place(name)
<1>3. i \in 1 .. Len(exports) + 1 /\ Len(exports) \in Nat
  BY PlaceType, LenProperties DEF KeptOK, ExportsOK
<1>. HIDE DEF i
<1>4. CASE /\ i <= Len(exports)
           /\ stored' = (stored \ {exports[i].storage}) \cup {used}
           /\ exports' = [exports EXCEPT ![i] = [key |-> name, storage |-> used]]
  <2>1. i \in 1 .. Len(exports)
    BY <1>3, <1>4
  <2>. QED BY <1>1, <1>4, <2>1, ReplacedKept
<1>5. CASE /\ stored' = stored \cup {used}
           /\ exports' = InsertAt(exports, i, [key |-> name, storage |-> used])
  BY <1>1, <1>3, <1>5, InsertedKept
<1>6. CASE UNCHANGED <<exports, stored>>
  <2>1. files' = {output'} \ {None}
    BY <1>1 DEF KeptOK
  <2>. QED BY <1>6, <2>1, SameKept
<1>. QED BY <1>2, <1>4, <1>5, <1>6 DEF i

LEMMA UnexportKept ==
  ASSUME KeptOK, doing'.at \in Elsewhere, used' = used, Unexport
  PROVE  KeptOK'
<1>1. UNCHANGED <<output, files>>
  BY DEF Unexport
<1>2. files' = {output'} \ {None}
  BY <1>1 DEF KeptOK
<1>. DEFINE n == Len(exports)
            found(name) == {i \in DOMAIN exports : exports[i].key = name}
            least(name) == CHOOSE i \in found(name) : \A j \in found(name) : i <= j
<1>3. /\ exports \in Seq(Entries) /\ used \in Nat
      /\ DOMAIN exports = 1 .. n /\ n \in Nat
      /\ \A i \in 1 .. n : exports[i] \in Entries /\ exports[i].storage \in Nat
      /\ \A i \in 1 .. n : exports[i].storage <= used
  BY StoragesType DEF KeptOK, ExportsOK
<1>4. PICK name \in Names :
        IF found(name) = {} THEN UNCHANGED <<exports, stored>>
        ELSE /\ exports' = Front([exports EXCEPT ![least(name)] = Last(exports)])
             /\ stored' = stored \ {exports[least(name)].storage}
  BY DEF Unexport, Unexported
<1>5. CASE found(name) = {}
  <2>1. UNCHANGED <<exports, stored>>
    BY <1>4, <1>5
  <2>. QED BY <1>2, <2>1, SameKept
<1>6. CASE found(name) # {}
  <2>. DEFINE i == least(name)
  <2>1. i \in 1 .. n
    <3>1. found(name) \in SUBSET Nat /\ found(name) \subseteq 1 .. n
      BY <1>3
    <3>. HIDE DEF found
    <3>2. \E k \in found(name) : \A j \in found(name) : k <= j
      BY <1>6, <3>1, LeastOfSet
    <3>3. i \in found(name)
      BY <3>2
    <3>. QED BY <3>1, <3>3
  <2>2. /\ exports' = Front([exports EXCEPT ![i] = Last(exports)])
        /\ stored' = stored \ {exports[i].storage}
    BY <1>4, <1>6
  <2>. HIDE DEF i, found, least
  <2>3. n \in 1 .. n /\ n >= 1 /\ n - 1 \in Nat /\ exports[n] \in Entries /\ Last(exports) = exports[n]
    BY <1>3, <2>1 DEF Last
  <2>. HIDE DEF n
  <2>. DEFINE moved == [exports EXCEPT ![i] = exports[n]]
  <2>4. /\ moved \in Seq(Entries) /\ Len(moved) = n
        /\ \A k \in 1 .. n : moved[k] = IF k = i THEN exports[n] ELSE exports[k]
    BY <1>3, <2>1, <2>3, ExceptSeq DEF n
  <2>5. exports' = SubSeq(moved, 1, Len(moved) - 1)
    BY <2>2, <2>3 DEF Front
  <2>. HIDE DEF moved
  <2>6. /\ exports' \in Seq(Entries) /\ Len(exports') = n - 1
        /\ \A k \in 1 .. n - 1 : exports'[k] = moved[k]
    <3>1. \A k \in 1 .. n - 1 : moved[k] \in Entries
      BY <1>3, <2>3, <2>4
    <3>2. exports' = SubSeq(moved, 1, n - 1)
      BY <2>4, <2>5
    <3>3. /\ exports' \in Seq(Entries)
          /\ Len(exports') = IF 1 <= n - 1 THEN (n - 1) - 1 + 1 ELSE 0
          /\ \A k \in 1 .. (n - 1) - 1 + 1 : exports'[k] = moved[1 + k - 1]
      BY <2>3, <3>1, <3>2, SubSeqProperties
    <3>. QED BY <2>3, <3>3
  <2>7. \A k \in 1 .. n - 1 : exports'[k] = IF k = i THEN exports[n] ELSE exports[k]
    BY <2>3, <2>4, <2>6
  <2>8. \A k, l \in 1 .. n : exports[k].storage = exports[l].storage => k = l
    BY <1>3 DEF KeptOK, OwnStorage
  <2>9. /\ DOMAIN exports' = 1 .. n - 1
        /\ \A s : s \in Storages(exports') <=> \E k \in 1 .. n - 1 : s = exports'[k].storage
        /\ \A s : s \in Storages(exports) <=> \E k \in 1 .. n : s = exports[k].storage
    BY <1>3, <2>6, StoragesType DEF n
  <2>. DEFINE from(k) == IF k = i THEN n ELSE k
  <2>10. ASSUME NEW k \in 1 .. n - 1
         PROVE  /\ from(k) \in 1 .. n /\ from(k) # i
                /\ exports'[k].storage = exports[from(k)].storage
    BY <2>1, <2>3, <2>7
  <2>11. ASSUME NEW k \in 1 .. n - 1, NEW l \in 1 .. n - 1,
                exports'[k].storage = exports'[l].storage
         PROVE  k = l
    <3>1. from(k) = from(l)
      BY <2>8, <2>10, <2>11
    <3>. QED BY <2>3, <3>1
  <2>12. OwnStorage(exports')
    BY <2>9, <2>11 DEF OwnStorage
  <2>13. \A k \in 1 .. Len(exports') : exports'[k].storage <= used
    BY <1>3, <2>6, <2>10
  <2>14. ASSUME NEW s PROVE s \in stored' <=> s \in Storages(exports')
    <3>1. s \in stored' <=> s # exports[i].storage /\ \E k \in 1 .. n : s = exports[k].storage
      BY <2>2, <2>9 DEF KeptOK
    <3>2. ASSUME s \in Storages(exports') PROVE s \in stored'
      <4>1. PICK k \in 1 .. n - 1 : s = exports'[k].storage
        BY <2>9, <3>2
      <4>2. s = exports[from(k)].storage /\ from(k) \in 1 .. n /\ from(k) # i
        BY <2>10, <4>1
      <4>. QED BY <2>1, <2>8, <3>1, <4>2
    <3>3. ASSUME NEW k \in 1 .. n, k # i, s = exports[k].storage
          PROVE  s \in Storages(exports')
      <4>. DEFINE l == IF k = n THEN i ELSE k
      <4>1. l \in 1 .. n - 1 /\ from(l) = k
        BY <2>1, <2>3, <3>3
      <4>. HIDE DEF l
      <4>2. exports'[l].storage = s
        BY <2>10, <3>3, <4>1
      <4>. QED BY <2>9, <4>1, <4>2
    <3>. QED BY <3>1, <3>2, <3>3
  <2>15. stored' = Storages(exports')
    BY <2>14
  <2>. QED BY <1>2, <2>6, <2>12, <2>13, <2>15, ReturnedKept
<1>. QED BY <1>5, <1>6

LEMMA RedirectKept ==
  ASSUME KeptOK, doing'.at \in Elsewhere, used' = used, RedirectOutput
  PROVE  KeptOK'
<1>1. UNCHANGED <<exports, stored>>
  BY DEF RedirectOutput
<1>2. files' = {output'} \ {None}
  <2>1. CASE UNCHANGED <<output, files>>
    BY <2>1 DEF KeptOK
  <2>2. CASE files' = (files \ {output}) \cup ({output'} \ {None})
    BY <2>2 DEF KeptOK
  <2>. QED BY <2>1, <2>2 DEF RedirectOutput
<1>. QED BY <1>1, <1>2, SameKept

LEMMA SettingsKept ==
  ASSUME ControlOK, ConnectionOK, KeptOK, OnSettings
  PROVE  KeptOK'
<1>1. CASE Export \/ Unexport \/ RedirectOutput
  <2>1. doing'.at \in Elsewhere /\ used' = used
    BY <1>1, SettingsEffect
  <2>. QED BY <1>1, <2>1, ExportKept, UnexportKept, RedirectKept
<1>. QED BY <1>1, KeepsKept, LeaveKept DEF OnSettings
-----------------------------------------------------------------------------
(* The inductive invariant, and what it is for.                             *)

IInv == ControlOK /\ TurnOK /\ KeptOK

LEMMA InitInv == Init => IInv
<1>. SUFFICES ASSUME Init PROVE IInv
  OBVIOUS
<1>1. \/ frames = <<Frame("prompt")>> /\ doing = Do("read")
      \/ frames = <<>> /\ doing = Do("main")
  BY DEF Init
<1>2. /\ doing \in Doings /\ frames \in Seq(Frames) /\ Nested(frames) /\ TopDepth(frames) = 0
      /\ \/ doing.at = "read" /\ frames # <<>>
         \/ doing.at = "main" /\ frames = <<>>
  <2>1. "read" \in Steps /\ "main" \in Steps
    BY DEF Steps
  <2>. QED BY <1>1, <2>1, DoEffect, SingleFrame, NoFrames
<1>3. ControlOK
  BY <1>2 DEF ControlOK, FramesOK, DoingOK, Control, InBatchSteps, IdleSteps, ReadingSteps
<1>4. /\ connection = 0 /\ closed = {} /\ prepared = 0 /\ done = <<>> /\ open = {}
      /\ exports = <<>> /\ stored = {} /\ output = 0 /\ files = {} /\ used = 0
  BY DEF Init, None
<1>5. <<>> \in Seq(Nat) /\ <<>> \in Seq(Entries) /\ Len(<<>>) = 0 /\ DOMAIN <<>> = {}
  OBVIOUS
<1>6. ConnectionOK /\ StatementsOK
  BY <1>4, <1>5, FS_EmptySet DEF ConnectionOK, StatementsOK
<1>7. Turn(frames, <<>>, 0, {}, 0)
  BY <1>2, <1>5 DEF Turn
<1>8. Storages(<<>>) = {} /\ OwnStorage(<<>>)
  BY <1>5 DEF Storages, OwnStorage
<1>9. KeptOK
  BY <1>2, <1>4, <1>5, <1>8 DEF KeptOK, ExportsOK, None
<1>. QED BY <1>3, <1>4, <1>6, <1>7, <1>9 DEF IInv, TurnOK

LEMMA NextInv == IInv /\ [Next]_vars => IInv'
<1>. SUFFICES ASSUME IInv, [Next]_vars PROVE IInv'
  OBVIOUS
<1>1. CASE Next
  <2>1. Effect
    BY <1>1, NextEffect DEF IInv, TurnOK, StatementsOK, KeptOK, ExportsOK
  <2>2. TurnOK'
    BY <2>1, StatementsTurn DEF Effect, IInv
  <2>3. KeptOK'
    BY <2>1, SettingsKept DEF Effect, IInv, TurnOK
  <2>. QED BY <2>1, <2>2, <2>3 DEF Effect, IInv
<1>2. CASE UNCHANGED vars
  <2>1. UNCHANGED <<connection, closed, frames, doing, prepared, done, open, exports, stored,
                    output, files, used>>
    BY <1>2 DEF vars, library, statements, settings
  <2>2. ControlOK'
    BY <2>1, StayEffect DEF IInv
  <2>3. TurnOK'
    BY <2>1 DEF IInv, TurnOK, ConnectionOK, StatementsOK
  <2>4. KeptOK'
    BY <2>1 DEF IInv, KeptOK, ExportsOK
  <2>. QED BY <2>2, <2>3, <2>4 DEF IInv
<1>. QED BY <1>1, <1>2

LEMMA ShellInvariant == Spec => []IInv
  BY InitInv, NextInv, PTL DEF Spec

\* The continuations that wait, as the invariant speaks of them.
LEMMA WaitingEntries ==
  ASSUME IInv
  PROVE  /\ DOMAIN Waiting = 1 .. TopDepth(frames) /\ TopDepth(frames) \in Nat
         /\ \A k \in 1 .. TopDepth(frames) : Waiting[k] = Entry(Top(frames).queue, k)
<1>1. CASE frames = <<>>
  BY <1>1 DEF Waiting, TopDepth
<1>2. CASE frames # <<>>
  <2>1. TopDepth(frames) = Queue.depth /\ Queue.depth \in Nat /\ Queue = Top(frames).queue
    BY <1>2, TopType DEF IInv, ControlOK, FramesOK, Queue
  <2>2. Waiting = Contents(Queue)
    BY <1>2 DEF Waiting
  <2>3. DOMAIN Contents(Queue) = 1 .. Queue.depth
    BY DEF Contents
  <2>. QED BY <2>1, <2>2, <2>3 DEF Entry
<1>. QED BY <1>1, <1>2

(* Whatever sources what, at whatever depth, and whichever statement, command  *)
(* or connection fails: results are rendered or given up in the order in which *)
(* statements came, each once, and only the innermost input has any that wait. *)
THEOREM InTurnTheorem == Spec => []InTurn
<1>1. IInv => InTurn
  <2>. SUFFICES ASSUME IInv PROVE InTurn
    OBVIOUS
  <2>. DEFINE d == TopDepth(frames)
              m == Len(done)
              ids == [k \in DOMAIN Waiting |-> Waiting[k].id]
              all == [k \in 1 .. prepared |-> k]
  <2>1. /\ DOMAIN Waiting = 1 .. d /\ d \in Nat
        /\ \A k \in 1 .. d : Waiting[k] = Entry(Top(frames).queue, k)
    BY WaitingEntries
  <2>2. /\ m \in Nat /\ done \in Seq(Nat) /\ prepared \in Nat /\ m + d = prepared
        /\ \A k \in 1 .. m : done[k] = k
        /\ \A k \in 1 .. d : /\ Entry(Top(frames).queue, k).id = m + k
                             /\ Entry(Top(frames).queue, k).conn = connection
    BY DEF IInv, TurnOK, StatementsOK, Turn
  <2>. HIDE DEF d, m
  <2>3. ids = [k \in 1 .. d |-> m + k]
    BY <2>1, <2>2
  <2>. HIDE DEF ids
  <2>4. ids \in Seq(Nat) /\ Len(ids) = d
    BY <2>1, <2>2, <2>3
  <2>5. /\ done \o ids \in Seq(Nat) /\ Len(done \o ids) = m + d
        /\ \A k \in 1 .. m + d : (done \o ids)[k] = IF k <= m THEN done[k] ELSE ids[k - m]
    BY <2>2, <2>4, ConcatProperties DEF m
  <2>6. all \in Seq(Nat) /\ Len(all) = prepared /\ \A k \in 1 .. prepared : all[k] = k
    BY <2>2
  <2>. HIDE DEF all
  <2>7. ASSUME NEW k \in 1 .. prepared PROVE (done \o ids)[k] = all[k]
    <3>1. m \in Nat /\ d \in Nat /\ m + d = prepared /\ k \in Nat /\ k <= prepared
      BY <2>1, <2>2
    <3>2. CASE k <= m
      BY <2>2, <2>5, <2>6, <3>2
    <3>3. CASE k > m
      <4>1. k - m \in 1 .. d /\ m + (k - m) = k /\ k \in 1 .. m + d
        BY <3>1, <3>3
      <4>2. ids[k - m] = m + (k - m)
        BY <2>3, <4>1
      <4>3. (done \o ids)[k] = ids[k - m]
        BY <2>5, <3>1, <3>3, <4>1
      <4>. QED BY <2>6, <4>1, <4>2, <4>3
    <3>4. k <= m \/ k > m
      BY <3>1
    <3>. QED BY <3>2, <3>3, <3>4, Zenon
  <2>8. done \o ids = all
    BY <2>2, <2>5, <2>6, <2>7, SeqEqual
  <2>9. \A k \in DOMAIN Waiting : Waiting[k].conn = connection
    BY <2>1, <2>2
  <2>10. Nested(frames)
    BY DEF IInv, ControlOK
  <2>. QED BY <2>8, <2>9, <2>10 DEF InTurn, Nested, ids, all
<1>. QED BY <1>1, ShellInvariant, PTL

(* No result stream, no storage of a parameter and no output file is lost: it  *)
(* is in use or has been released, and when the shell ends nothing is left.    *)
THEOREM NothingKeptTheorem == Spec => []NothingKept
<1>1. IInv => NothingKept
  <2>. SUFFICES ASSUME IInv PROVE NothingKept
    OBVIOUS
  <2>. DEFINE d == TopDepth(frames)
              m == Len(done)
              streams == UNION {StreamOf(Waiting[k]) : k \in DOMAIN Waiting}
  <2>1. /\ DOMAIN Waiting = 1 .. d /\ d \in Nat
        /\ \A k \in 1 .. d : Waiting[k] = Entry(Top(frames).queue, k)
    BY WaitingEntries
  <2>2. /\ \A k \in 1 .. d : /\ Waiting[k] \in Continuations /\ Waiting[k].id = m + k
        /\ \A n : n \in open <=> \E k \in 1 .. d : n = m + k /\ Waiting[k].complete = "render"
    BY <2>1 DEF IInv, TurnOK, Turn
  <2>. HIDE DEF d, m
  <2>3. ASSUME NEW n PROVE n \in open <=> n \in streams
    <3>1. n \in streams <=> \E k \in 1 .. d : n \in StreamOf(Waiting[k])
      BY <2>1
    <3>2. \A k \in 1 .. d : n \in StreamOf(Waiting[k]) <=> n = m + k /\ Waiting[k].complete = "render"
      BY <2>2, StreamOfEntry
    <3>. QED BY <2>2, <3>1, <3>2
  <2>4. open = streams
    BY <2>3
  <2>5. stored = Storages(exports) /\ files = {output} \ {None}
    BY DEF IInv, KeptOK
  <2>6. ASSUME doing.at = "ended"
        PROVE  open = {} /\ stored = {} /\ files = {} /\ connection = None
    <3>1. d = 0
      BY <2>6 DEF IInv, ControlOK, Control, IdleSteps, d
    <3>2. exports = <<>> /\ output = None /\ connection = None
      BY <2>6 DEF IInv, KeptOK
    <3>3. Storages(<<>>) = {}
      BY DEF Storages
    <3>4. open = {}
      BY <2>2, <3>1
    <3>. QED BY <2>5, <3>2, <3>3, <3>4
  <2>. QED BY <2>4, <2>5, <2>6 DEF NothingKept, Storages, At
<1>. QED BY <1>1, ShellInvariant, PTL
=============================================================================
