---------------------------- MODULE StreamProofs ----------------------------
(***************************************************************************)
(* The result streams of a connection: their records, their types, who is  *)
(* waited for, what they are left with, and that the client does not crash;*)
(* on top of the queue, the references and the wire.                       *)
(***************************************************************************)
EXTENDS SessionProofs

(* The records of the result streams: a stream holds the last records it    *)
(* received, in order and with none missing, and has received all of them   *)
(* when the server reports the end of its result.                           *)

(* What a stream keeps of its records.                                      *)
Kind(r) ==
  /\ {"open", "refcount", "streaming", "records", "nrecords"} \subseteq DOMAIN r
  /\ r.streaming \in BOOLEAN /\ r.records \in Seq(Nat) /\ r.nrecords \in Nat
Shaped(st) == DOMAIN st = Streams /\ \A s \in Streams : Kind(st[s])

Orderly(r) == \A i \in DOMAIN r.records : r.records[i] = r.nrecords - Len(r.records) + i
Ordered(st) == \A s \in Streams : st[s].streaming => Orderly(st[s])

(* The records that have been received for the statement at the head of the *)
(* queue, and those that precede each of the messages on the wire.          *)
Received0(q, st) ==
  IF q # <<>> /\ Head(q).type \in Statements THEN st[Head(q).of].nrecords ELSE 0
Before(c, h, i) == IF i = 1 THEN h ELSE IF c[i - 1].type = "RECORD" THEN c[i - 1].n ELSE 0

(* Records are numbered from there on, and so is the end of a result.       *)
Numbered(c, h, v) ==
  /\ \A i \in DOMAIN c :
       /\ c[i].type = "RECORD" => c[i].n = Before(c, h, i) + 1
       /\ c[i].type = "SUCCESS" /\ c[i].to.type \in Statements => c[i].n = Before(c, h, i)
  /\ v.mode = "STREAMING" => v.n = Before(c, h, Len(c) + 1)
Numbers == Numbered(toClient, Received0(request_queue, streams), server)

(* Of the statements in the queue, only one that has been sent and is next  *)
(* to be answered has received records, ...                                 *)
FreshIn(q, n, st) ==
  \A j \in DOMAIN q :
    q[j].type \in Statements /\ (j > 1 \/ n = 0) => st[q[j].of].nrecords = 0

(* ... and the stream that is being opened has received none.               *)
Untouched(q, n, r, s) ==
  /\ r.nrecords = 0 /\ r.records = <<>>
  /\ \A i \in DOMAIN q : q[i].of = s => i > n
OpeningIn(q, n, st) ==
  pc["app"] \in Opening => Untouched(q, n, st[call.rs], call.rs)

(* A connection that has been closed has nobody waiting for a reply.        *)
Afterwards == {"idle", "enter", "lock", "loop", "exit", "rfinal", "unlock", "done", "free",
               "crashed"}
AtRest ==
  /\ closed => request_queue = <<>> /\ pc["sig"] = "idle" /\ pc["app"] \in Afterwards
  /\ pc["app"] = "crecv" => ~failed

StreamInv ==
  /\ Shaped(streams) /\ Ordered(streams) /\ AtRest
  /\ InUse => Numbers
  /\ Alive => /\ FreshIn(request_queue, inflight_requests, streams)
              /\ OpeningIn(request_queue, inflight_requests, streams)
-----------------------------------------------------------------------------
(* What is done to a stream mostly leaves its records alone.                *)
Steady(r, t) ==
  /\ Kind(t) /\ t.nrecords = r.nrecords /\ t.records = r.records
  /\ t.streaming => r.streaming

LEMMA SteadyKept ==
  ASSUME NEW r, Kind(r)
  PROVE  /\ Steady(r, r)
         /\ \A e : Steady(r, set_failure(r, e))
         /\ \A type : Steady(r, set_eval_failure(r, type))
         /\ \A e : Steady(r, abort_job(r, e))
         /\ \A n : Steady(r, Await(r, n))
         /\ Steady(r, Lost(r))
         /\ Steady(r, Awaited(r))
         /\ Steady(r, Referenced(r))
<1>. USE DEF Steady, Kind
<1>1. Steady(r, r)
  OBVIOUS
<1>2. \A e : Steady(r, set_failure(r, e))
  BY DEF set_failure
<1>3. \A type : Steady(r, set_eval_failure(r, type))
  BY <1>1, <1>2 DEF set_eval_failure
<1>4. \A e : Steady(r, abort_job(r, e))
  BY DEF abort_job, set_failure
<1>5. \A n : Steady(r, Await(r, n))
  BY DEF Await
<1>6. Steady(r, Lost(r))
  BY DEF Lost
<1>7. Steady(r, Awaited(r))
  BY <1>1, <1>2 DEF Awaited
<1>8. Steady(r, Referenced(r))
  BY DEF Referenced
<1>. QED BY <1>1, <1>2, <1>3, <1>4, <1>5, <1>6, <1>7, <1>8

LEMMA SteadyFields ==
  ASSUME NEW r, Kind(r)
  PROVE  /\ Steady(r, [r EXCEPT !.streaming = FALSE, !.refcount = @ - 1])
         /\ Steady(r, [r EXCEPT !.refcount = @ - 1, !.streaming = FALSE])
         /\ Steady(r, [r EXCEPT !.starting = FALSE, !.refcount = @ - 1])
         /\ Steady(r, [r EXCEPT !.statement_type = TRUE])
  BY DEF Steady, Kind

LEMMA SteadyTwice ==
  ASSUME NEW r, NEW t, NEW u, Steady(r, t), Steady(t, u)
  PROVE  Steady(r, u)
  BY DEF Steady

LEMMA RunSteady ==
  ASSUME NEW r, Kind(r), NEW type \in ReplyTypes
  PROVE  Steady(r, run_callback(r, type).stream)
<1>. DEFINE t == [r EXCEPT !.starting = FALSE, !.refcount = @ - 1]
            c == run_callback(r, type)
<1>1. Steady(r, t) /\ Kind(t)
  BY SteadyFields DEF Steady
<1>. HIDE DEF t
<1>2. \E u, rc : c = Result(u, rc) /\ Steady(t, u)
  <2>1. CASE type = "NULL" \/ ~t.connection
    <3>1. c = Result(t, 0)
      BY <2>1 DEF run_callback, t, IsFailure
    <3>. QED BY <1>1, <3>1, SteadyKept
  <2>2. CASE type # "NULL" /\ t.connection
    <3>1. CASE type \in {"FAILURE", "TIMEOUT"}
      <4>1. c = Result(set_eval_failure(t, type), 0)
        BY <2>2, <3>1 DEF run_callback, t, IsFailure
      <4>. QED BY <1>1, <4>1, SteadyKept
    <3>2. CASE type = "IGNORED"
      <4>1. c = Result(IF t.failure = "none" THEN set_failure(t, "PREVIOUS_FAILURE")
                       ELSE t, 0)
        BY <2>2, <3>2 DEF run_callback, t, IsFailure
      <4>. QED BY <1>1, <4>1, SteadyKept
    <3>3. CASE type = "SUCCESS"
      <4>1. c = Result(t, 0)
        BY <2>2, <3>3 DEF run_callback, t, IsFailure
      <4>. QED BY <1>1, <4>1, SteadyKept
    <3>4. CASE type \in {"RECORD", "BADRECORD", "INVALID"}
      <4>1. c = Result(set_failure(t, "EPROTO"), -1)
        BY <2>2, <3>4 DEF run_callback, t, IsFailure
      <4>. QED BY <1>1, <4>1, SteadyKept
    <3>. QED BY <2>2, <3>1, <3>2, <3>3, <3>4 DEF ReplyTypes
  <2>. QED BY <2>1, <2>2
<1>. HIDE DEF c
<1>3. PICK u, rc : c = Result(u, rc) /\ Steady(t, u)
  BY <1>2
<1>4. c.stream = u
  BY <1>3 DEF Result
<1>. QED BY <1>1, <1>3, <1>4, SteadyTwice DEF c

LEMMA EndSteady ==
  ASSUME NEW t, Kind(t), NEW type \in ReplyTypes \ {"RECORD", "BADRECORD"}
  PROVE  Steady(t, stream_end(t, type).stream)
<1>. DEFINE c == stream_end(t, type)
<1>1. CASE type = "NULL" \/ ~t.connection
  <2>1. c = Result(t, 0)
    BY <1>1 DEF stream_end, IsFailure
  <2>. QED BY <2>1, SteadyKept DEF Result
<1>2. CASE type # "NULL" /\ t.connection
  <2>1. CASE type = "IGNORED"
    <3>1. c = IF t.failure = "none" THEN Result(set_failure(t, "EPROTO"), -1)
              ELSE Result(t, 0)
      BY <1>2, <2>1 DEF stream_end, IsFailure
    <3>. QED BY <3>1, SteadyKept DEF Result
  <2>2. CASE type \in {"FAILURE", "TIMEOUT"}
    <3>1. c = [Result(set_eval_failure(t, type), 0) EXCEPT !.assert = t.failure = "none"]
      BY <1>2, <2>2 DEF stream_end, IsFailure
    <3>2. c.stream = set_eval_failure(t, type)
      BY <3>1 DEF Result
    <3>. QED BY <3>2, SteadyKept
  <2>3. CASE type = "SUCCESS"
    <3>1. c = [Result([t EXCEPT !.statement_type = TRUE], 0)
                 EXCEPT !.assert = t.failure = "none"]
      BY <1>2, <2>3 DEF stream_end, IsFailure
    <3>2. c.stream = [t EXCEPT !.statement_type = TRUE]
      BY <3>1 DEF Result
    <3>. QED BY <3>2, SteadyFields
  <2>4. CASE type = "INVALID"
    <3>1. c = [Result(set_failure(t, "EPROTO"), -1) EXCEPT !.assert = t.failure = "none"]
      BY <1>2, <2>4 DEF stream_end, IsFailure
    <3>2. c.stream = set_failure(t, "EPROTO")
      BY <3>1 DEF Result
    <3>. QED BY <3>2, SteadyKept
  <2>. QED BY <1>2, <2>1, <2>2, <2>3, <2>4 DEF ReplyTypes
<1>. QED BY <1>1, <1>2

LEMMA PullSteady ==
  ASSUME NEW r, Kind(r), NEW type \in ReplyTypes, NEW n
  PROVE  LET t == pull_all_callback(r, type, n).stream
         IN  IF type = "RECORD" THEN t = append_result(r, n) ELSE Steady(r, t)
<1>. DEFINE u == [r EXCEPT !.refcount = @ - 1, !.streaming = FALSE]
            c == pull_all_callback(r, type, n)
<1>1. Steady(r, u) /\ Kind(u)
  BY SteadyFields DEF Steady
<1>2. CASE type = "RECORD"
  BY <1>2 DEF pull_all_callback, Result
<1>3. CASE type = "BADRECORD"
  <2>1. c = Result(set_failure(r, "EPROTO"), -1)
    BY <1>3 DEF pull_all_callback
  <2>. QED BY <1>3, <2>1, SteadyKept DEF Result
<1>4. CASE type \notin {"RECORD", "BADRECORD"}
  <2>1. c = stream_end(u, type)
    BY <1>4 DEF pull_all_callback
  <2>. HIDE DEF u
  <2>2. Steady(u, c.stream)
    BY <1>1, <1>4, <2>1, EndSteady
  <2>. QED BY <1>1, <1>4, <2>2, SteadyTwice
<1>. QED BY <1>2, <1>3, <1>4

LEMMA DiscardSteady ==
  ASSUME NEW r, Kind(r), NEW type \in ReplyTypes
  PROVE  Steady(r, discard_all_callback(r, type).stream)
<1>. DEFINE t == [r EXCEPT !.refcount = @ - 1, !.streaming = FALSE]
            end == IF type \in {"RECORD", "BADRECORD"} THEN "INVALID" ELSE type
            c == discard_all_callback(r, type)
<1>1. Steady(r, t) /\ Kind(t)
  BY SteadyFields DEF Steady
<1>2. end \in ReplyTypes \ {"RECORD", "BADRECORD"}
  BY DEF ReplyTypes
<1>3. c = stream_end(t, end)
  BY DEF discard_all_callback
<1>. HIDE DEF t, end, c
<1>4. Steady(t, c.stream)
  BY <1>1, <1>2, <1>3, EndSteady
<1>. QED BY <1>1, <1>4, SteadyTwice DEF c

(* Draining the queue and aborting the jobs do too.                         *)
LEMMA DrainedSteady ==
  ASSUME NEW q, NEW st, Shaped(st)
  PROVE  LET d == DrainedStreams(q, st)
         IN  DOMAIN d = Streams /\ \A s \in Streams : Steady(st[s], d[s])
<1>. DEFINE d == DrainedStreams(q, st)
            After(s) == IF HasRun(q, s) THEN run_callback(st[s], "NULL").stream ELSE st[s]
<1>1. DOMAIN d = Streams
  BY DEF DrainedStreams
<1>2. ASSUME NEW s \in Streams
      PROVE  d[s] = IF HasPull(q, s)
                    THEN pull_all_callback(After(s), "NULL", 0).stream ELSE After(s)
  BY DEF DrainedStreams, HasRun, HasPull, Has
<1>. HIDE DEF d
<1>3. "NULL" \in ReplyTypes /\ "NULL" # "RECORD"
  BY DEF ReplyTypes
<1>4. ASSUME NEW s \in Streams
      PROVE  Steady(st[s], After(s)) /\ Kind(After(s))
  <2>1. Kind(st[s])
    BY DEF Shaped
  <2>2. Steady(st[s], After(s))
    BY <1>3, <2>1, RunSteady, SteadyKept
  <2>. QED BY <2>2 DEF Steady
<1>. HIDE DEF After
<1>5. ASSUME NEW s \in Streams
      PROVE  Steady(st[s], d[s])
  <2>1. Steady(After(s), d[s])
    BY <1>2, <1>3, <1>4, PullSteady, SteadyKept
  <2>. QED BY <1>4, <2>1, SteadyTwice
<1>. QED BY <1>1, <1>5 DEF d

LEMMA AbortedSteady ==
  ASSUME NEW e, Shaped(streams)
  PROVE  DOMAIN AbortedJobs(e) = Streams /\ \A s \in Streams : Steady(streams[s], AbortedJobs(e)[s])
<1>0. \A s \in Streams : Kind(streams[s])
  BY DEF Shaped
<1>1. CASE jobs = <<>>
  BY <1>0, <1>1, SteadyKept DEF AbortedJobs, Shaped
<1>2. CASE jobs # <<>>
  <2>. DEFINE j == Head(jobs)
              st2 == [streams EXCEPT ![j] = abort_job(@, e)]
  <2>1. /\ DOMAIN st2 = Streams
        /\ \A x \in Streams :
             st2[x] = IF x = j THEN abort_job(streams[x], e) ELSE streams[x]
    BY DEF Shaped
  <2>2. AbortedJobs(e) = st2
    BY <1>2 DEF AbortedJobs
  <2>. HIDE DEF st2, j
  <2>3. \A x \in Streams : Steady(streams[x], st2[x])
    BY <1>0, <2>1, SteadyKept
  <2>. QED BY <2>1, <2>2, <2>3
<1>. QED BY <1>1, <1>2
-----------------------------------------------------------------------------
(* What the program and the server do to a stream: its records are left     *)
(* alone, one is fetched from the front, or it has none, and is started,    *)
(* opened or closed while no record may come for it.                        *)
Queues(q, s) == \E i \in DOMAIN q : q[i].of = s

Fetched(r, t) ==
  /\ Kind(t) /\ t.nrecords = r.nrecords
  /\ r.records # <<>> /\ t.records = Tail(r.records)
  /\ t.streaming => r.streaming
Cleared(r, t) == Kind(t) /\ t.nrecords = 0 /\ t.records = <<>>
Tame(q, s, r, t) ==
  \/ Steady(r, t)
  \/ Fetched(r, t)
  \/ Cleared(r, t) /\ (r.nrecords = 0 \/ ~Queues(q, s))
AllTame(q, st, st2) ==
  DOMAIN st2 = Streams /\ \A s \in Streams : Tame(q, s, st[s], st2[s])

LEMMA OrderlyTame ==
  ASSUME NEW q, NEW s, NEW r, NEW t, Kind(r), Tame(q, s, r, t),
         r.streaming => Orderly(r), t.streaming
  PROVE  Orderly(t)
<1>1. CASE Steady(r, t)
  BY <1>1 DEF Steady, Orderly
<1>2. CASE Fetched(r, t)
  <2>. DEFINE f == r.records
              g == t.records
              n == r.nrecords
  <2>1. f \in Seq(Nat) /\ f # <<>> /\ g = Tail(f) /\ n \in Nat /\ t.nrecords = n
        /\ r.streaming
    BY <1>2 DEF Fetched, Kind
  <2>2. \A i \in DOMAIN f : f[i] = n - Len(f) + i
    BY <2>1 DEF Orderly
  <2>. HIDE DEF f, g, n
  <2>3. /\ g \in Seq(Nat) /\ Len(g) = Len(f) - 1 /\ Len(f) \in Nat \ {0}
        /\ \A i \in 1 .. Len(g) : g[i] = f[i + 1]
        /\ DOMAIN f = 1 .. Len(f) /\ DOMAIN g = 1 .. Len(g)
    <3>1. /\ g \in Seq(Nat) /\ Len(g) = Len(f) - 1
          /\ \A i \in 1 .. Len(g) : g[i] = f[i + 1]
      BY <2>1, HeadTailProperties
    <3>2. Len(f) \in Nat /\ Len(f) # 0
      BY <2>1, EmptySeq
    <3>. QED BY <2>1, <3>1, <3>2, LenProperties
  <2>4. ASSUME NEW i \in DOMAIN g PROVE g[i] = n - Len(g) + i
    <3>1. i + 1 \in DOMAIN f /\ i \in 1 .. Len(g)
      BY <2>3
    <3>2. f[i + 1] = n - Len(f) + (i + 1)
      BY <2>2, <3>1
    <3>. QED BY <2>1, <2>3, <3>1, <3>2
  <2>. QED BY <2>1, <2>4 DEF Orderly, g
<1>3. CASE Cleared(r, t)
  BY <1>3 DEF Cleared, Orderly
<1>. QED BY <1>1, <1>2, <1>3 DEF Tame

LEMMA TameOrdered ==
  ASSUME NEW q, NEW st, NEW st2, Shaped(st), Ordered(st), AllTame(q, st, st2)
  PROVE  Shaped(st2) /\ Ordered(st2)
<1>1. ASSUME NEW s \in Streams
      PROVE  Kind(st[s]) /\ Kind(st2[s]) /\ Tame(q, s, st[s], st2[s])
  BY DEF Shaped, AllTame, Tame, Steady, Fetched, Cleared
<1>2. Shaped(st2)
  BY <1>1 DEF Shaped, AllTame
<1>3. Ordered(st2)
  BY <1>1, OrderlyTame DEF Ordered
<1>. QED BY <1>2, <1>3

(* The requests of a stream are those that name it.                         *)
StatementsOf(q) == \A j \in DOMAIN q : q[j].type \in Statements => q[j].of \in Streams

LEMMA ProperStatements ==
  ASSUME NEW q, NEW blank, Proper(q, blank)
  PROVE  StatementsOf(q)
  BY DEF Proper, StatementsOf, OfStream, Blank, Request, Statements

LEMMA TameFresh ==
  ASSUME NEW q \in Seq(Requests), StatementsOf(q), NEW n, NEW st, NEW st2,
         AllTame(q, st, st2)
  PROVE  /\ Received0(q, st2) = Received0(q, st)
         /\ FreshIn(q, n, st) => FreshIn(q, n, st2)
<1>1. ASSUME NEW j \in DOMAIN q, q[j].type \in Statements
      PROVE  st2[q[j].of].nrecords = st[q[j].of].nrecords
  <2>. DEFINE s == q[j].of
  <2>1. s \in Streams /\ Queues(q, s)
    BY <1>1 DEF StatementsOf, Queues
  <2>. HIDE DEF s
  <2>2. Tame(q, s, st[s], st2[s])
    BY <2>1 DEF AllTame
  <2>3. st2[s].nrecords = st[s].nrecords
    BY <2>1, <2>2 DEF Tame, Steady, Fetched, Cleared
  <2>. QED BY <2>3 DEF s
<1>2. q # <<>> => 1 \in DOMAIN q /\ Head(q) = q[1]
  <2>1. q # <<>> => Len(q) \in Nat /\ Len(q) # 0 /\ DOMAIN q = 1 .. Len(q)
    BY LenProperties, EmptySeq
  <2>. QED BY <2>1
<1>. QED BY <1>1, <1>2 DEF Received0, FreshIn

LEMMA SteadyTame ==
  ASSUME NEW q, NEW st, NEW st2, DOMAIN st2 = Streams,
         \A s \in Streams : Steady(st[s], st2[s])
  PROVE  AllTame(q, st, st2)
  BY DEF AllTame, Tame

\* One stream is changed.
LEMMA TameOne ==
  ASSUME NEW q, NEW st, Shaped(st), NEW s, NEW t, s \in Streams => Tame(q, s, st[s], t)
  PROVE  AllTame(q, st, [st EXCEPT ![s] = t])
<1>. DEFINE st2 == [st EXCEPT ![s] = t]
<1>1. DOMAIN st2 = Streams /\ \A x \in Streams : st2[x] = IF x = s THEN t ELSE st[x]
  BY DEF Shaped
<1>. HIDE DEF st2
<1>2. \A x \in Streams : Steady(st[x], st[x])
  BY SteadyKept DEF Shaped
<1>3. AllTame(q, st, st2)
  BY <1>1, <1>2 DEF AllTame, Tame
<1>. QED BY <1>3 DEF st2
-----------------------------------------------------------------------------
(* The numbers on the wire.                                                 *)
LEMMA NumberedTail ==
  ASSUME NEW c \in Seq(Messages), c # <<>>, NEW h, NEW v, Numbered(c, h, v),
         NEW g, g = IF Head(c).type = "RECORD" THEN Head(c).n ELSE 0
  PROVE  Numbered(Tail(c), g, v)
<1>. DEFINE t == Tail(c)
            n == Len(c) - 1
<1>1. /\ Head(c) = c[1] /\ n \in Nat /\ Len(c) = n + 1 /\ Len(t) = n
      /\ \A i \in 1 .. n : t[i] = c[i + 1]
      /\ DOMAIN c = 1 .. n + 1 /\ DOMAIN t = 1 .. n
  BY TailOf
<1>. HIDE DEF t, n
<1>2. ASSUME NEW i \in 1 .. n + 1 PROVE Before(t, g, i) = Before(c, h, i + 1)
  <2>1. CASE i = 1
    <3>1. i + 1 # 1 /\ (i + 1) - 1 = 1
      BY <2>1
    <3>. QED BY <1>1, <2>1, <3>1 DEF Before
  <2>2. CASE i # 1
    <3>1. /\ i - 1 \in 1 .. n /\ (i - 1) + 1 = (i + 1) - 1 /\ i + 1 # 1
      BY <1>1, <2>2
    <3>2. t[i - 1] = c[(i + 1) - 1]
      BY <1>1, <3>1
    <3>. QED BY <2>2, <3>1, <3>2 DEF Before
  <2>. QED BY <2>1, <2>2
<1>3. ASSUME NEW i \in DOMAIN t
      PROVE  /\ t[i].type = "RECORD" => t[i].n = Before(t, g, i) + 1
             /\ t[i].type = "SUCCESS" /\ t[i].to.type \in Statements => t[i].n = Before(t, g, i)
  <2>1. i + 1 \in DOMAIN c /\ t[i] = c[i + 1] /\ i \in 1 .. n + 1
    BY <1>1
  <2>2. /\ c[i + 1].type = "RECORD" => c[i + 1].n = Before(c, h, i + 1) + 1
        /\ c[i + 1].type = "SUCCESS" /\ c[i + 1].to.type \in Statements =>
             c[i + 1].n = Before(c, h, i + 1)
    BY <2>1 DEF Numbered
  <2>3. Before(t, g, i) = Before(c, h, i + 1)
    BY <1>2, <2>1
  <2>. QED BY <2>1, <2>2, <2>3
<1>4. v.mode = "STREAMING" => v.n = Before(t, g, Len(t) + 1)
  <2>1. n + 1 \in 1 .. n + 1 /\ Len(t) + 1 = n + 1 /\ Len(c) + 1 = (n + 1) + 1
    BY <1>1
  <2>2. Before(t, g, n + 1) = Before(c, h, (n + 1) + 1)
    BY <1>2, <2>1
  <2>. QED BY <2>1, <2>2 DEF Numbered
<1>5. Numbered(t, g, v)
  BY <1>3, <1>4 DEF Numbered
<1>. QED BY <1>5 DEF t

LEMMA NumberedAppend ==
  ASSUME NEW c \in Seq(Messages), NEW h, NEW v, Numbered(c, h, v), NEW m \in Messages, NEW w,
         m.type = "RECORD" => v.mode = "STREAMING" /\ m.n = v.n + 1,
         m.type = "SUCCESS" /\ m.to.type \in Statements => v.mode = "STREAMING" /\ m.n = v.n,
         w.mode = "STREAMING" => w.n = IF m.type = "RECORD" THEN m.n ELSE 0
  PROVE  Numbered(Append(c, m), h, w)
<1>. DEFINE d == Append(c, m)
            n == Len(c)
<1>1. /\ n \in Nat /\ Len(d) = n + 1 /\ d[n + 1] = m /\ \A i \in 1 .. n : d[i] = c[i]
      /\ DOMAIN c = 1 .. n /\ DOMAIN d = 1 .. n + 1
  BY AppendedTo
<1>2. v.mode = "STREAMING" => v.n = Before(c, h, n + 1)
  BY DEF Numbered
<1>. HIDE DEF d, n
<1>3. ASSUME NEW i \in 1 .. n + 1 PROVE Before(d, h, i) = Before(c, h, i)
  <2>1. i # 1 => i - 1 \in 1 .. n
    BY <1>1
  <2>. QED BY <1>1, <2>1 DEF Before
<1>4. ASSUME NEW i \in DOMAIN d
      PROVE  /\ d[i].type = "RECORD" => d[i].n = Before(d, h, i) + 1
             /\ d[i].type = "SUCCESS" /\ d[i].to.type \in Statements => d[i].n = Before(d, h, i)
  <2>1. Before(d, h, i) = Before(c, h, i)
    BY <1>1, <1>3
  <2>2. CASE i \in 1 .. n
    <3>1. i \in DOMAIN c /\ d[i] = c[i]
      BY <1>1, <2>2
    <3>. QED BY <2>1, <3>1 DEF Numbered
  <2>3. CASE i = n + 1
    BY <1>1, <1>2, <2>1, <2>3
  <2>. QED BY <1>1, <2>2, <2>3
<1>5. Before(d, h, Len(d) + 1) = IF m.type = "RECORD" THEN m.n ELSE 0
  <2>1. Len(d) + 1 # 1 /\ (Len(d) + 1) - 1 = n + 1
    BY <1>1
  <2>. QED BY <1>1, <2>1 DEF Before
<1>6. Numbered(d, h, w)
  BY <1>4, <1>5 DEF Numbered
<1>. QED BY <1>6 DEF d

LEMMA ServedNumber ==
  ASSUME WireTypes, NEW h, Numbered(toClient, h, server), NEW q, NEW type \in KnownReplies,
         NEW n \in Nat, NEW mode, NEW tx, Serve(q, type, n, mode, tx),
         type = "RECORD" => server.mode = "STREAMING" /\ n = server.n + 1,
         type = "SUCCESS" /\ q.type \in Statements => server.mode = "STREAMING" /\ n = server.n,
         mode = "STREAMING" => type = "RECORD" \/ n = 0
  PROVE  Numbered(toClient', h, server')
<1>. DEFINE m == [type |-> type, to |-> q, n |-> n]
<1>1. q \in Requests /\ toClient \in Seq(Messages)
  BY HeadTailProperties DEF Serve, WireTypes
<1>2. m \in Messages /\ m.type = type /\ m.to = q /\ m.n = n
  BY <1>1 DEF Messages
<1>3. toClient' = Append(toClient, m) /\ server'.mode = mode /\ server'.n = n
  BY DEF Serve
<1>. HIDE DEF m
<1>. QED BY <1>1, <1>2, <1>3, NumberedAppend

LEMMA ServerNumbers ==
  ASSUME WireTypes, "BADRECORD" \notin Faults, NEW h, Numbered(toClient, h, server), ServerStep
  PROVE  Numbered(toClient', h, server')
<1>. DEFINE q == Head(toServer)
<1>1. /\ {"SUCCESS", "FAILURE", "TIMEOUT", "IGNORED", "RECORD"} \subseteq KnownReplies
      /\ "INVALID" \in KnownReplies /\ {"GARBLED"} \cap Faults \subseteq KnownReplies
  BY DEF KnownReplies
<1>2. server.n \in Nat /\ server.n + 1 \in Nat /\ 0 \in Nat
  BY DEF WireTypes
<1>3. CASE IsReset(q) /\ ServerReset(q)
  <2>1. Serve(q, "SUCCESS", 0, "READY", None) /\ q.type \notin Statements
    BY <1>3 DEF ServerReset, IsReset, Statements
  <2>. QED BY <1>1, <1>2, <2>1, ServedNumber
<1>4. CASE ServerRefuse(q)
  <2>1. PICK type \in {"FAILURE", "TIMEOUT"} : Serve(q, type, 0, "FAILED", None)
    BY <1>4 DEF ServerRefuse
  <2>. QED BY <1>1, <1>2, <2>1, ServedNumber
<1>5. CASE ServerIgnore(q)
  <2>1. Serve(q, "IGNORED", 0, "FAILED", None)
    BY <1>5 DEF ServerIgnore
  <2>. QED BY <1>1, <1>2, <2>1, ServedNumber
<1>6. CASE ServerRun(q)
  <2>1. PICK type \in {"SUCCESS", "INVALID"} \cup ({"GARBLED"} \cap Faults) :
               Serve(q, type, 0, "STREAMING", server.tx) /\ q.type \notin Statements
    BY <1>6 DEF ServerRun, Statements
  <2>. QED BY <1>1, <1>2, <2>1, ServedNumber
<1>7. CASE ServerPull(q)
  <2>1. \/ Serve(q, "RECORD", server.n + 1, "STREAMING", server.tx)
        \/ Serve(q, "SUCCESS", server.n, "READY", server.tx)
    BY <1>7 DEF ServerPull
  <2>2. server.mode = "STREAMING"
    BY <1>7 DEF ServerPull
  <2>. QED BY <1>1, <1>2, <2>1, <2>2, ServedNumber
<1>8. CASE ServerTx(q)
  <2>1. PICK tx : Serve(q, "SUCCESS", 0, "READY", tx) /\ q.type \notin Statements
    BY <1>8 DEF ServerTx, Statements
  <2>. QED BY <1>1, <1>2, <2>1, ServedNumber
<1>9. IF IsReset(q) THEN ServerReset(q)
      ELSE ServerRefuse(q) \/ ServerIgnore(q) \/ ServerRun(q) \/ ServerPull(q) \/ ServerTx(q)
  BY DEF ServerStep
<1>. QED BY <1>3, <1>4, <1>5, <1>6, <1>7, <1>8, <1>9
-----------------------------------------------------------------------------
(* A reply is received.  Only a record is added to a stream.                *)
LEMMA AppendedRecord ==
  ASSUME NEW r, Kind(r), NEW n \in Nat, n = r.nrecords + 1, r.streaming => Orderly(r)
  PROVE  LET t == append_result(r, n)
         IN  Kind(t) /\ t.nrecords = n /\ (t.streaming => Orderly(t))
<1>. DEFINE t == append_result(r, n)
            f == r.records
            k == r.nrecords
<1>1. f \in Seq(Nat) /\ k \in Nat /\ n = k + 1
  BY DEF Kind
<1>2. CASE ~r.streaming
  <2>1. t = [r EXCEPT !.nrecords = @ + 1]
    BY <1>2 DEF append_result
  <2>. QED BY <1>2, <2>1 DEF Kind
<1>3. CASE r.streaming
  <2>1. t = [r EXCEPT !.records = Append(f, n), !.nrecords = k + 1,
                      !.awaiting_records = IF @ > 0 THEN @ - 1 ELSE @]
    BY <1>3 DEF append_result
  <2>2. t.records = Append(f, n) /\ t.nrecords = k + 1 /\ t.streaming = r.streaming
        /\ DOMAIN t = DOMAIN r
    BY <2>1 DEF Kind
  <2>3. \A i \in DOMAIN f : f[i] = k - Len(f) + i
    BY <1>3 DEF Orderly
  <2>. HIDE DEF t, f, k
  <2>. DEFINE g == Append(f, n)
  <2>4. /\ g \in Seq(Nat) /\ Len(g) = Len(f) + 1 /\ g[Len(f) + 1] = n
        /\ \A i \in 1 .. Len(f) : g[i] = f[i]
        /\ Len(f) \in Nat /\ DOMAIN f = 1 .. Len(f) /\ DOMAIN g = 1 .. Len(g)
    <3>1. /\ g \in Seq(Nat) /\ Len(g) = Len(f) + 1 /\ g[Len(f) + 1] = n
          /\ \A i \in 1 .. Len(f) : g[i] = f[i]
      BY <1>1, AppendProperties
    <3>. QED BY <1>1, <3>1, LenProperties
  <2>. HIDE DEF g
  <2>5. ASSUME NEW i \in DOMAIN g PROVE g[i] = (k + 1) - Len(g) + i
    <3>1. CASE i \in 1 .. Len(f)
      <4>1. g[i] = k - Len(f) + i
        BY <2>3, <2>4, <3>1
      <4>. QED BY <1>1, <2>4, <3>1, <4>1
    <3>2. CASE i = Len(f) + 1
      BY <1>1, <2>4, <3>2
    <3>. QED BY <2>4, <3>1, <3>2
  <2>6. t.records = g
    BY <2>2 DEF g
  <2>. QED BY <1>1, <2>2, <2>4, <2>5, <2>6 DEF Kind, Orderly, t, f, k
<1>. QED BY <1>2, <1>3 DEF Kind

Records0(h, m, s) == h.type = "PULL_ALL" /\ m.type = "RECORD" /\ s = h.of

LEMMA CallbackStreams ==
  ASSUME NEW h \in Requests, Fits(h), Shaped(streams), NEW m \in Messages, m.type # "GARBLED"
  PROVE  LET st2 == Callback(h, m, streams, txs).streams
         IN  /\ DOMAIN st2 = Streams
             /\ \A s \in Streams :
                  IF Records0(h, m, s) THEN st2[s] = append_result(streams[s], m.n)
                  ELSE Steady(streams[s], st2[s])
<1>. DEFINE st2 == Callback(h, m, streams, txs).streams
<1>1. m.type \in ReplyTypes
  <2>1. m.type \in KnownReplies
    BY DEF Messages
  <2>. QED BY <2>1 DEF KnownReplies, ReplyTypes
<1>2. DOMAIN streams = Streams /\ \A s \in Streams : Kind(streams[s]) /\ Steady(streams[s], streams[s])
  BY SteadyKept DEF Shaped
<1>3. CASE OfStream(h)
  <2>1. h.of \in Streams
    BY <1>3 DEF Fits
  <2>2. \E t : /\ st2 = [streams EXCEPT ![h.of] = t]
               /\ IF h.type = "PULL_ALL" /\ m.type = "RECORD"
                  THEN t = append_result(streams[h.of], m.n) ELSE Steady(streams[h.of], t)
    <3>1. CASE h.type = "RUN"
      <4>. DEFINE t == run_callback(streams[h.of], m.type).stream
      <4>1. st2 = [streams EXCEPT ![h.of] = t]
        BY <3>1 DEF Callback, Statements, TxRequests
      <4>2. Steady(streams[h.of], t)
        BY <1>1, <1>2, <2>1, RunSteady
      <4>. HIDE DEF t, st2
      <4>. QED BY <3>1, <4>1, <4>2
    <3>2. CASE h.type = "PULL_ALL"
      <4>. DEFINE t == pull_all_callback(streams[h.of], m.type, m.n).stream
      <4>1. st2 = [streams EXCEPT ![h.of] = t]
        BY <3>2 DEF Callback, Statements, TxRequests
      <4>2. IF m.type = "RECORD" THEN t = append_result(streams[h.of], m.n)
            ELSE Steady(streams[h.of], t)
        BY <1>1, <1>2, <2>1, PullSteady
      <4>. HIDE DEF t, st2
      <4>. QED BY <3>2, <4>1, <4>2
    <3>3. CASE h.type = "DISCARD_ALL"
      <4>. DEFINE t == discard_all_callback(streams[h.of], m.type).stream
      <4>1. st2 = [streams EXCEPT ![h.of] = t]
        BY <3>3 DEF Callback, Statements, TxRequests
      <4>2. Steady(streams[h.of], t)
        BY <1>1, <1>2, <2>1, DiscardSteady
      <4>. HIDE DEF t, st2
      <4>. QED BY <3>3, <4>1, <4>2
    <3>. QED BY <1>3, <3>1, <3>2, <3>3 DEF OfStream, Statements
  <2>3. PICK t : /\ st2 = [streams EXCEPT ![h.of] = t]
                 /\ IF h.type = "PULL_ALL" /\ m.type = "RECORD"
                    THEN t = append_result(streams[h.of], m.n) ELSE Steady(streams[h.of], t)
    BY <2>2
  <2>. HIDE DEF st2
  <2>4. DOMAIN st2 = Streams /\ \A s \in Streams : st2[s] = IF s = h.of THEN t ELSE streams[s]
    BY <1>2, <2>3
  <2>5. \A s \in Streams : IF Records0(h, m, s) THEN st2[s] = append_result(streams[s], m.n)
                           ELSE Steady(streams[s], st2[s])
    BY <1>2, <2>3, <2>4 DEF Records0
  <2>. QED BY <2>4, <2>5 DEF st2
<1>4. CASE ~OfStream(h)
  <2>1. st2 = streams
    BY <1>4 DEF Fits, Callback, OfStream, Answerable, Statements, TxRequests
  <2>2. h.type # "PULL_ALL"
    BY <1>4 DEF OfStream, Statements
  <2>. HIDE DEF st2
  <2>. QED BY <1>2, <2>1, <2>2 DEF Records0, st2
<1>. QED BY <1>3, <1>4

(* What holds while the client waits for replies, ...                       *)
Ready ==
  /\ Signals /\ RefInv /\ Alive /\ Wired /\ Alone
  /\ Shaped(streams) /\ Ordered(streams) /\ Numbers
  /\ FreshIn(request_queue, inflight_requests, streams)
  /\ OpeningIn(request_queue, inflight_requests, streams)

(* ... holds of what the callback makes of the next one.                    *)
Taken(r) ==
  /\ Shaped(r.streams) /\ Ordered(r.streams)
  /\ Numbered(Tail(toClient), Received0(r.queue, r.streams), server)
  /\ FreshIn(r.queue, r.inflight, r.streams)
  /\ OpeningIn(r.queue, r.inflight, r.streams)

LEMMA QueueKnown ==
  ASSUME RefInv, Alive, inflight_requests > 0
  PROVE  LET q == request_queue IN
         /\ q \in Seq(Requests) /\ q # <<>> /\ Head(q) = q[1] /\ Len(q) \in Nat \ {0}
         /\ DOMAIN q = 1 .. Len(q) /\ inflight_requests \in 1 .. Len(q)
         /\ Tail(q) \in Seq(Requests) /\ Len(Tail(q)) = Len(q) - 1
         /\ DOMAIN Tail(q) = 1 .. Len(q) - 1
         /\ \A i \in 1 .. Len(q) - 1 : Tail(q)[i] = q[i + 1]
         /\ StatementsOf(q) /\ Distinct(q)
<1>1. /\ request_queue \in Seq(Requests) /\ Len(request_queue) \in Nat
      /\ inflight_requests \in 0 .. Len(request_queue) /\ request_queue # <<>>
      /\ Head(request_queue) = request_queue[1]
  BY WindowKnown, HeadFits
<1>2. /\ Tail(request_queue) \in Seq(Requests) /\ Len(Tail(request_queue)) = Len(request_queue) - 1
      /\ \A i \in 1 .. Len(Tail(request_queue)) : Tail(request_queue)[i] = request_queue[i + 1]
  BY <1>1, HeadTailProperties
<1>3. DOMAIN request_queue = 1 .. Len(request_queue)
      /\ DOMAIN Tail(request_queue) = 1 .. Len(Tail(request_queue))
  BY <1>1, <1>2, LenProperties
<1>4. StatementsOf(request_queue) /\ Distinct(request_queue)
  BY ProperStatements DEF RefInv, Knows, Accounts
<1>5. inflight_requests \in 1 .. Len(request_queue) /\ Len(request_queue) \in Nat \ {0}
  BY <1>1
<1>. QED BY <1>1, <1>2, <1>3, <1>4, <1>5

\* The stream being opened stays as it is when its requests move up.
LEMMA OpeningPopped ==
  ASSUME NEW q, NEW p, NEW n \in Nat, NEW st, NEW st2, OpeningIn(q, n, st),
         DOMAIN p \subseteq Nat,
         \A i \in DOMAIN p : i + 1 \in DOMAIN q /\ p[i] = q[i + 1],
         pc["app"] \in Opening => Steady(st[call.rs], st2[call.rs])
  PROVE  OpeningIn(p, n - 1, st2)
<1>. SUFFICES ASSUME pc["app"] \in Opening PROVE Untouched(p, n - 1, st2[call.rs], call.rs)
  BY DEF OpeningIn
<1>1. Untouched(q, n, st[call.rs], call.rs) /\ Steady(st[call.rs], st2[call.rs])
  BY DEF OpeningIn
<1>2. ASSUME NEW i \in DOMAIN p, p[i].of = call.rs PROVE i > n - 1
  <2>1. i + 1 > n /\ i \in Nat
    BY <1>1, <1>2 DEF Untouched
  <2>. QED BY <2>1
<1>. QED BY <1>1, <1>2 DEF Untouched, Steady

LEMMA OpeningSteady ==
  ASSUME NEW q, NEW n, NEW st, NEW st2, OpeningIn(q, n, st),
         pc["app"] \in Opening => Steady(st[call.rs], st2[call.rs])
  PROVE  OpeningIn(q, n, st2)
  BY DEF OpeningIn, Untouched, Steady

LEMMA ReceivedStreams ==
  ASSUME Ready, NEW a \in Actors, Receives(a), server' = server
  PROVE  Taken(Received(a))
<1>. DEFINE r == Received(a)
            m == Head(toClient)
            h == Head(request_queue)
            cb == Callback(h, m, streams, txs)
            q == request_queue
            n == inflight_requests
            st == r.streams
<1>0. /\ RefInv /\ Alive /\ Mirrors /\ Records /\ InOrder
      /\ inflight_requests > 0 /\ Reply /\ toClient # <<>> /\ toClient' = Tail(toClient)
  BY DEF Ready, Wired, Receives, Reply
<1>1. /\ q \in Seq(Requests) /\ q # <<>> /\ h = q[1] /\ Len(q) \in Nat \ {0}
      /\ DOMAIN q = 1 .. Len(q) /\ n \in 1 .. Len(q)
      /\ Tail(q) \in Seq(Requests) /\ Len(Tail(q)) = Len(q) - 1
      /\ DOMAIN Tail(q) = 1 .. Len(q) - 1
      /\ \A i \in 1 .. Len(q) - 1 : Tail(q)[i] = q[i + 1]
      /\ StatementsOf(q) /\ Distinct(q)
  BY <1>0, QueueKnown
<1>2. m \in Messages /\ m.to = h /\ m.type # "GARBLED" /\ m.n \in Nat
      /\ toClient \in Seq(Messages) /\ m = toClient[1] /\ 1 \in DOMAIN toClient
  <2>1. toClient \in Seq(Messages) /\ m \in Messages /\ m = toClient[1] /\ 1 \in DOMAIN toClient
    BY <1>0, WindowKnown, TailOf
  <2>2. m.n \in Nat
    BY <2>1 DEF Messages
  <2>. QED BY <1>0, <2>1, <2>2, ReplyIsForHead DEF Reply, Garbled
<1>3. h \in Requests /\ Fits(h)
  BY <1>0, HeadFits
<1>4. ~Unexpected(a)
  BY <1>0, FailureFollowed DEF Unexpected
<1>5. Accepted(m) /\ ForStatement(m)
  BY <1>0, <1>2 DEF InOrder, Records
<1>6. m.type = "RECORD" <=> m \notin FinalReplies
  BY <1>2, <1>5, FinalOrRecord DEF Accepted
<1>7. m.type = "RECORD" => h.type = "PULL_ALL"
  BY <1>2, <1>5, <1>6 DEF ForStatement
<1>8. /\ r.streams = cb.streams
      /\ r.queue = IF cb.rc <= 0 THEN Tail(q) ELSE q
      /\ r.inflight = IF cb.rc <= 0 THEN n - 1 ELSE n
  BY <1>4 DEF Received, Pops, InflightAfter, Unexpected
<1>9. StreamsOK(streams) /\ Shaped(streams) /\ Ordered(streams)
  BY <1>0, HeadFits DEF Ready
<1>10. /\ m \in FinalReplies => cb.rc \in {-1, 0}
       /\ m.type = "RECORD" => cb.rc = 1
  BY <1>2, <1>3, <1>6, <1>7, <1>9, CallbackReply
<1>11. /\ DOMAIN st = Streams
       /\ \A s \in Streams :
            IF Records0(h, m, s) THEN st[s] = append_result(streams[s], m.n)
            ELSE Steady(streams[s], st[s])
  BY <1>2, <1>3, <1>8, <1>9, CallbackStreams
<1>12. /\ Numbered(toClient, Received0(q, streams), server)
       /\ FreshIn(q, n, streams) /\ OpeningIn(q, n, streams)
  BY DEF Ready, Numbers
<1>13. pc["app"] \in Opening => call.rs \in Streams
  BY <1>0 DEF RefInv, Knows, Phases
<1>. HIDE DEF r, m, h, cb, q, n, st
<1>14. CASE m \in FinalReplies
  <2>1. r.queue = Tail(q) /\ r.inflight = n - 1 /\ m.type # "RECORD"
    BY <1>6, <1>8, <1>10, <1>14
  <2>2. \A s \in Streams : Steady(streams[s], st[s])
    BY <1>11, <2>1 DEF Records0
  <2>3. AllTame(q, streams, st)
    BY <1>11, <2>2, SteadyTame
  <2>4. Shaped(st) /\ Ordered(st)
    BY <1>9, <2>3, TameOrdered
  <2>5. FreshIn(Tail(q), n - 1, st)
    <3>1. FreshIn(q, n, st)
      BY <1>1, <1>12, <2>3, TameFresh
    <3>2. ASSUME NEW j \in DOMAIN Tail(q), Tail(q)[j].type \in Statements
          PROVE  st[Tail(q)[j].of].nrecords = 0
      <4>1. j + 1 \in DOMAIN q /\ j + 1 > 1 /\ Tail(q)[j] = q[j + 1]
        BY <1>1
      <4>. QED BY <3>1, <3>2, <4>1 DEF FreshIn
    <3>. QED BY <3>2 DEF FreshIn
  <2>6. Numbered(Tail(toClient), Received0(Tail(q), st), server)
    <3>1. Received0(Tail(q), st) = 0
      <4>1. CASE Tail(q) # <<>> /\ Head(Tail(q)).type \in Statements
        <5>1. 1 \in DOMAIN Tail(q) /\ Head(Tail(q)) = Tail(q)[1]
          <6>1. Len(Tail(q)) # 0 /\ Len(Tail(q)) \in Nat
            BY <1>1, <4>1, EmptySeq, LenProperties
          <6>2. Head(Tail(q)) = Tail(q)[1]
            BY <1>1, <4>1
          <6>. QED BY <1>1, <6>1, <6>2
        <5>2. 1 + 1 \in DOMAIN q /\ 1 + 1 > 1 /\ Tail(q)[1] = q[1 + 1]
          BY <1>1, <5>1
        <5>3. FreshIn(q, n, st)
          BY <1>1, <1>12, <2>3, TameFresh
        <5>4. st[q[1 + 1].of].nrecords = 0
          BY <4>1, <5>1, <5>2, <5>3 DEF FreshIn
        <5>. QED BY <4>1, <5>1, <5>2, <5>4 DEF Received0
      <4>2. CASE ~(Tail(q) # <<>> /\ Head(Tail(q)).type \in Statements)
        BY <4>2 DEF Received0
      <4>. QED BY <4>1, <4>2
    <3>. QED BY <1>0, <1>2, <1>12, <2>1, <3>1, NumberedTail DEF m
  <2>7. OpeningIn(Tail(q), n - 1, st)
    <3>1. /\ n \in Nat /\ DOMAIN Tail(q) \subseteq Nat
          /\ \A i \in DOMAIN Tail(q) : i + 1 \in DOMAIN q /\ Tail(q)[i] = q[i + 1]
      BY <1>1
    <3>. QED BY <1>12, <1>13, <2>2, <3>1, OpeningPopped
  <2>. QED BY <2>1, <2>4, <2>5, <2>6, <2>7 DEF Taken, r, st
<1>15. CASE m \notin FinalReplies
  <2>1. /\ m.type = "RECORD" /\ h.type = "PULL_ALL" /\ cb.rc = 1 /\ ~(cb.rc <= 0)
        /\ r.queue = q /\ r.inflight = n
    BY <1>6, <1>7, <1>8, <1>10, <1>15
  <2>2. /\ h.of \in Streams /\ OfStream(h) /\ h.type \in Statements /\ 1 \in DOMAIN q
    BY <1>1, <1>3, <2>1 DEF Fits, OfStream, Statements
  <2>. DEFINE o == h.of
  <2>3. Received0(q, streams) = streams[o].nrecords
    BY <1>1, <2>2 DEF Received0, h, q
  <2>4. m.n = streams[o].nrecords + 1
    BY <1>2, <1>12, <2>1, <2>3 DEF Numbered, Before
  <2>. HIDE DEF o
  <2>5. /\ Kind(st[o]) /\ st[o].nrecords = m.n /\ (st[o].streaming => Orderly(st[o]))
        /\ o \in Streams
    <3>1. o \in Streams /\ st[o] = append_result(streams[o], m.n)
      BY <1>11, <2>1, <2>2 DEF Records0, o
    <3>2. Kind(streams[o]) /\ (streams[o].streaming => Orderly(streams[o]))
      BY <1>9, <3>1 DEF Shaped, Ordered
    <3>. QED BY <1>2, <2>4, <3>1, <3>2, AppendedRecord
  <2>6. \A s \in Streams \ {o} : Steady(streams[s], st[s])
    BY <1>11 DEF Records0, o
  <2>7. Shaped(st) /\ Ordered(st)
    <3>1. ASSUME NEW s \in Streams
          PROVE  Kind(st[s]) /\ (st[s].streaming => Orderly(st[s]))
      <4>1. CASE s = o
        BY <2>5, <4>1
      <4>2. CASE s # o
        <5>1. Steady(streams[s], st[s])
          BY <2>6, <4>2
        <5>. QED BY <1>9, <5>1 DEF Steady, Ordered, Orderly
      <4>. QED BY <4>1, <4>2
    <3>. QED BY <1>11, <3>1 DEF Shaped, Ordered
  <2>8. Numbered(Tail(toClient), Received0(q, st), server)
    <3>1. Received0(q, st) = m.n
      BY <1>1, <2>2, <2>5 DEF Received0, h, q, o
    <3>. QED BY <1>0, <1>2, <1>12, <2>1, <3>1, NumberedTail DEF m
  <2>9. FreshIn(q, n, st)
    <3>1. ASSUME NEW j \in DOMAIN q, q[j].type \in Statements, j > 1 \/ n = 0
          PROVE  st[q[j].of].nrecords = 0
      <4>1. j # 1 /\ j > 1
        BY <1>1, <3>1
      <4>2. q[j].of # o
        <5>1. OfStream(q[j]) /\ q[j].type # "RUN" /\ h.type # "RUN"
          BY <2>1, <3>1 DEF OfStream, Statements
        <5>. QED BY <1>1, <2>2, <4>1, <5>1 DEF Distinct, o
      <4>3. q[j].of \in Streams
        BY <1>1, <3>1 DEF StatementsOf
      <4>4. streams[q[j].of].nrecords = 0
        BY <1>12, <3>1 DEF FreshIn
      <4>5. Steady(streams[q[j].of], st[q[j].of])
        BY <2>6, <4>2, <4>3
      <4>. QED BY <4>4, <4>5 DEF Steady
    <3>. QED BY <3>1 DEF FreshIn
  <2>10. OpeningIn(q, n, st)
    <3>1. ASSUME pc["app"] \in Opening PROVE Steady(streams[call.rs], st[call.rs])
      <4>1. call.rs # o
        <5>1. \A i \in DOMAIN q : q[i].of = call.rs => i > n
          BY <1>12, <3>1 DEF OpeningIn, Untouched
        <5>2. ~(1 > n)
          BY <1>1
        <5>. QED BY <1>1, <2>2, <5>1, <5>2 DEF o
      <4>. QED BY <1>13, <2>6, <3>1, <4>1
    <3>. QED BY <1>12, <3>1, OpeningSteady
  <2>. QED BY <2>1, <2>7, <2>8, <2>9, <2>10 DEF Taken, r, st
<1>. QED BY <1>14, <1>15
-----------------------------------------------------------------------------
(* Where the program and the handler are once the connection is closed, and *)
(* while it is being closed.                                                *)
LEMMA RestKept ==
  ASSUME Signals, RefInv, Serving, AtRest, [Next]_vars
  PROVE  AtRest'
<1>. DEFINE Step(label) == pc' = [pc EXCEPT !["app"] = label]
            Rest == request_queue' = <<>> /\ pc'["sig"] = "idle" /\ pc'["app"] \in Afterwards
            Moved == \/ Start \/ Sync \/ Close \/ Run \/ neo4j_reset
                     \/ \E a \in Actors : ResetBy(a)
<1>0. /\ pc \in [Actors -> Labels] /\ "app" \in Actors /\ "sig" \in Actors
      /\ ~NoReply /\ ~broken
  BY WindowKnown, NoErrors DEF Serving
<1>1. /\ \A label : Step(label) => pc'["app"] = label /\ pc'["sig"] = pc["sig"]
      /\ Crash => pc'["app"] = "crashed" /\ pc'["sig"] = "idle"
  BY <1>0 DEF Crash
<1>2. Moved \/ UNCHANGED <<closed, request_queue, pc, failed>>
  BY DEF Next, Continue, Actors, ServerStep, ServerGoodbye, Drop, Terminated, vars, connVars,
         ctlVars
<1>3. Moved => Alive
  BY ProgramAlive
<1>. HIDE DEF Step
<1>4. ASSUME closed, Moved PROVE Rest
  <2>0. request_queue = <<>> /\ pc["sig"] = "idle" /\ pc["app"] \in Afterwards
        /\ inflight_requests = 0
    <3>1. request_queue = <<>> /\ pc["sig"] = "idle" /\ pc["app"] \in Afterwards
      BY <1>4 DEF AtRest
    <3>2. Len(request_queue) = 0 /\ inflight_requests \in 0 .. Len(request_queue)
      BY <3>1, WindowKnown
    <3>. QED BY <3>1, <3>2
  <2>1. \A label : Step(label) /\ label \in Afterwards /\ request_queue' = <<>> => Rest
    BY <1>1, <2>0
  <2>2. Crash /\ request_queue' = <<>> => Rest
    BY <1>1 DEF Afterwards
  <2>3. CASE Start
    <3>1. \/ pc' = pc \/ Step("enter") \/ Step("free") \/ Crash
      BY <1>4, <2>3 DEF Start, run_open, close_results, check_failure, consume, fetch_next,
                        AwaitRecords,
                  peek, begin_tx, tx_commit, tx_rollback, free_tx, close_start, Enter, Goto,
                  run_rs_close, Calls, unchangedByCall, Step
    <3>2. request_queue' = request_queue
      BY <2>3 DEF Start, run_open, close_results, check_failure, consume, fetch_next,
                  AwaitRecords,
                  peek, begin_tx, tx_commit, tx_rollback, free_tx, close_start, unchangedByCall
    <3>. QED BY <2>0, <2>1, <2>2, <3>1, <3>2 DEF Afterwards
  <2>4. CASE Sync
    <3>1. sync_enter \/ sync_lock \/ sync_loop \/ sync_exit \/ sync_unlock
      BY <2>0, <2>4 DEF Sync, sync_receive, sync_receive_error, send_requests, send_request,
                        sync_unlock_ack, new_request, populate, At, Afterwards
    <3>2. ~MoreToDo /\ ResetFrom = "rfinal"
      BY <2>0 DEF MoreToDo, ResetFrom
    <3>3. \/ Step("done") \/ Step("lock") \/ Step("loop") \/ Step("exit") \/ Step("rfinal")
          \/ Step("unlock")
      BY <3>1, <3>2 DEF sync_enter, sync_lock, sync_loop, sync_exit, sync_unlock, Return, Goto,
                        Step
    <3>4. request_queue' = request_queue
      BY <3>1 DEF sync_enter, sync_lock, sync_loop, sync_exit, sync_unlock, connVars
    <3>. QED BY <2>0, <2>1, <3>3, <3>4 DEF Afterwards
  <2>5. ~Close
    BY <2>0 DEF Close, close_receive, close_receive_error, close_end, At, Afterwards
  <2>6. CASE Run
    <3>1. free_results \/ return_to_stream \/ return_to_tx
      BY <2>0, <2>6 DEF Run, session_run, session_pull_all, session_unlock, run_start, abandon,
                        At, Afterwards
    <3>2. Crash \/ Step("idle") \/ Step("free")
      BY <3>1 DEF free_results, return_to_stream, return_to_tx, Enter, Goto, Step
    <3>3. request_queue' = request_queue
      BY <3>1 DEF free_results, return_to_stream, return_to_tx, unchangedByCall
    <3>. QED BY <2>0, <2>1, <2>2, <3>2, <3>3 DEF Afterwards
  <2>7. ~neo4j_reset
    BY <1>4 DEF neo4j_reset
  <2>8. ASSUME NEW a \in Actors, ResetBy(a) PROVE Rest
    <3>1. reset_reply(a) /\ a = "app"
      BY <1>0, <2>0, <2>8 DEF ResetBy, reset_receive, reset_error, reset_reply, Resetting,
                              Afterwards, Actors
    <3>2. (Crash \/ Step("unlock")) /\ request_queue' = <<>>
      BY <3>1 DEF reset_reply, EndReset, Step
    <3>. QED BY <2>1, <2>2, <3>2 DEF Afterwards
  <2>. QED BY <1>4, <2>3, <2>4, <2>5, <2>6, <2>7, <2>8
<1>5. ASSUME ~closed, closed', Moved PROVE Rest
  <2>1. close_end
    BY <1>0, <1>5 DEF Start, run_open, close_results, check_failure, consume, fetch_next,
                      peek, AwaitRecords,
             begin_tx, tx_commit, tx_rollback, free_tx, close_start, unchangedByCall,
             Sync, sync_enter, sync_lock, sync_loop, sync_receive, sync_receive_error,
             send_requests, send_request, sync_exit, sync_unlock, sync_unlock_ack,
             new_request, populate, connVars, Close, close_receive, close_receive_error,
             Run, session_run, session_pull_all, session_unlock, run_start, abandon,
             free_results, return_to_stream, return_to_tx, neo4j_reset,
             ResetBy, reset_receive, reset_reply, reset_error
  <2>2. pc["sig"] = "idle" /\ (Crash \/ Step("idle")) /\ request_queue' = <<>>
    BY <2>1 DEF close_end, At, Goto, Step
  <2>. QED BY <1>1, <2>2 DEF Afterwards
<1>6. ASSUME pc'["app"] = "crecv", Moved PROVE ~failed'
  <2>1. CASE Start
    <3>1. \/ pc' = pc \/ Step("run") \/ Step("enter") \/ Step("free") \/ Step("alloc")
          \/ Crash \/ close_start
      BY <2>1 DEF Start, run_open, close_results, check_failure, consume, fetch_next, peek,
                  AwaitRecords,
                  begin_tx, tx_commit, tx_rollback, free_tx, Enter, Goto, run_rs_close, Step
    <3>2. pc["app"] = "idle"
      BY <2>1 DEF Start, run_open, close_results, check_failure, consume, fetch_next, peek,
                  AwaitRecords,
                  begin_tx, tx_commit, tx_rollback, free_tx, close_start, Calls, At
    <3>3. close_start
      BY <1>1, <1>6, <3>1, <3>2
    <3>4. failed' = failed /\ (Step("cend") \/ ~failed)
      BY <3>3 DEF close_start, Goto, Step
    <3>. QED BY <1>1, <1>6, <3>4
  <2>2. ~Sync
    <3>. SUFFICES ASSUME Sync PROVE FALSE
      OBVIOUS
    <3>1. \/ Crash \/ Step("done") \/ Step("lock") \/ Step("loop") \/ Step("reply")
          \/ Step("send") \/ Step("exit") \/ Step("unlock") \/ Step("unlock_ack")
          \/ Step("xmit") \/ Step("rrecv") \/ Step("rfinal") \/ Step("alloc") \/ Step("fill")
          \/ Step("enter")
      BY DEF Sync, sync_enter, sync_lock, sync_loop, sync_receive, sync_receive_error,
             send_requests, send_request, sync_exit, sync_unlock, sync_unlock_ack,
             new_request, populate, Return, Goto, FailSync, ResetFrom, Step
    <3>. QED BY <1>1, <1>6, <3>1
  <2>3. CASE Close
    <3>1. close_receive
      <4>1. ~close_receive_error
        BY <1>0 DEF close_receive_error
      <4>2. close_end => Crash \/ Step("idle")
        BY DEF close_end, Goto, Step
      <4>. QED BY <1>1, <1>6, <2>3, <4>1, <4>2 DEF Close
    <3>2. pc["app"] = "crecv"
      BY <3>1 DEF close_receive, At
    <3>3. Crash \/ Step("cend") \/ (~failed => ~failed')
      BY <3>1 DEF close_receive, Goto, Step
    <3>. QED BY <1>1, <1>6, <3>2, <3>3 DEF AtRest
  <2>4. ~Run
    <3>. SUFFICES ASSUME Run PROVE FALSE
      OBVIOUS
    <3>1. \/ Crash
          \/ Step("abandon") \/ Step("run_unlock") \/ Step("pull_unlock") \/ Step("pull")
          \/ Step("start") \/ Step("idle") \/ Step("enter") \/ Step("free")
      BY DEF Run, session_run, session_pull_all, session_unlock, run_start, abandon,
             free_results, return_to_stream, return_to_tx, Enqueue, Enter, Goto, run_rs_close,
             Step
    <3>. QED BY <1>1, <1>6, <3>1
  <2>5. CASE neo4j_reset
    BY <1>0, <2>5 DEF neo4j_reset
  <2>6. ASSUME NEW a \in Actors, ResetBy(a) PROVE FALSE
    <3>1. CASE a = "app"
      <4>1. \/ Crash \/ Step("unlock") \/ Step("rrecv") \/ Step("rfinal")
        BY <2>6, <3>1 DEF ResetBy, reset_receive, reset_reply, reset_error, EndReset, Step
      <4>. QED BY <1>1, <1>6, <4>1
    <3>2. CASE a = "sig"
      <4>1. pc["sig"] # "idle"
        BY <2>6, <3>2 DEF ResetBy, reset_receive, reset_reply, reset_error, Resetting
      <4>2. Crash \/ \E label : pc' = [pc EXCEPT !["sig"] = label]
        BY <2>6, <3>2 DEF ResetBy, reset_receive, reset_reply, reset_error, EndReset
      <4>3. pc["app"] # "crecv"
        BY <1>3, <1>6, <4>1, OneInLock DEF Protected
      <4>. QED BY <1>0, <1>1, <1>6, <4>2, <4>3
    <3>. QED BY <3>1, <3>2 DEF Actors
  <2>. QED BY <1>6, <2>1, <2>2, <2>3, <2>4, <2>5, <2>6
<1>. HIDE DEF Moved
<1>. QED BY <1>2, <1>4, <1>5, <1>6 DEF AtRest
-----------------------------------------------------------------------------
(* Steps that leave the queue and the messages to the client alone.         *)
Calm == UNCHANGED <<request_queue, inflight_requests, toClient, server>>

LEMMA QueueTyped ==
  ASSUME RefInv, Alive
  PROVE  /\ request_queue \in Seq(Requests) /\ StatementsOf(request_queue)
         /\ pc["app"] \in Opening => call.rs \in Streams
         /\ pc["app"] # "fill" => Proper(request_queue, FALSE)
<1>1. request_queue \in Seq(Requests)
  BY WindowKnown
<1>2. Phases /\ Proper(request_queue, pc["app"] = "fill")
  BY DEF RefInv, Knows, Accounts
<1>. QED BY <1>1, <1>2, ProperStatements DEF Phases

\* Where no queued request points to a stream, none names it.
LEMMA NotPointed ==
  ASSUME NEW q, Proper(q, FALSE), NEW s \in Streams, Pointers(q, s) = 0
  PROVE  ~Queues(q, s)
<1>1. ~HasRun(q, s) /\ ~HasPull(q, s)
  BY PointersNone
<1>2. \A i \in DOMAIN q : q[i].of = s => OfStream(q[i])
  BY DEF Proper
<1>. QED BY <1>1, <1>2 DEF Queues, HasRun, HasPull, Has, OfStream

LEMMA StreamCalm ==
  ASSUME RefInv, Alive, StreamInv, AtRest', InUse' => InUse, Calm,
         AllTame(request_queue, streams, streams'),
         pc'["app"] \in Opening =>
           Untouched(request_queue, inflight_requests, streams'[call'.rs], call'.rs)
  PROVE  StreamInv'
<1>1. request_queue \in Seq(Requests) /\ StatementsOf(request_queue)
  BY QueueTyped
<1>2. Shaped(streams') /\ Ordered(streams')
  BY TameOrdered DEF StreamInv
<1>3. /\ Received0(request_queue, streams') = Received0(request_queue, streams)
      /\ FreshIn(request_queue, inflight_requests, streams')
  BY <1>1, TameFresh DEF StreamInv
<1>4. InUse' => Numbers'
  BY <1>3 DEF StreamInv, Numbers, Calm
<1>5. OpeningIn(request_queue, inflight_requests, streams)'
  BY DEF OpeningIn, Calm
<1>6. FreshIn(request_queue, inflight_requests, streams)'
  BY <1>3 DEF Calm
<1>. QED BY <1>2, <1>4, <1>5, <1>6 DEF StreamInv

\* A stream that is being opened goes on being so.
LEMMA StreamCalmOn ==
  ASSUME RefInv, Alive, StreamInv, AtRest', InUse' => InUse, Calm,
         DOMAIN streams' = Streams, \A s \in Streams : Steady(streams[s], streams'[s]),
         pc'["app"] \in Opening => pc["app"] \in Opening /\ call'.rs = call.rs
  PROVE  StreamInv'
<1>1. AllTame(request_queue, streams, streams')
  BY SteadyTame
<1>2. pc'["app"] \in Opening =>
        Untouched(request_queue, inflight_requests, streams'[call'.rs], call'.rs)
  BY QueueTyped DEF StreamInv, OpeningIn, Untouched, Steady
<1>. QED BY <1>1, <1>2, StreamCalm

LEMMA StreamSame ==
  ASSUME RefInv, Alive, StreamInv, AtRest', InUse' => InUse, Calm, streams' = streams,
         pc'["app"] \in Opening => pc["app"] \in Opening /\ call'.rs = call.rs
  PROVE  StreamInv'
<1>1. DOMAIN streams = Streams /\ \A s \in Streams : Steady(streams[s], streams[s])
  BY SteadyKept DEF StreamInv, Shaped
<1>. QED BY <1>1, StreamCalmOn

LEMMA StreamStopped ==
  ASSUME RefInv, Alive, StreamInv, AtRest', InUse' => InUse, Calm,
         NEW e, streams' = AbortedJobs(e),
         pc'["app"] \in Opening => pc["app"] \in Opening /\ call'.rs = call.rs
  PROVE  StreamInv'
<1>1. DOMAIN streams' = Streams /\ \A s \in Streams : Steady(streams[s], streams'[s])
  BY AbortedSteady DEF StreamInv
<1>. QED BY <1>1, StreamCalmOn

\* One stream is changed, and none is being opened after it.
LEMMA StreamOne ==
  ASSUME RefInv, Alive, StreamInv, AtRest', InUse' => InUse, Calm,
         NEW s \in Streams, NEW t, streams' = [streams EXCEPT ![s] = t],
         Tame(request_queue, s, streams[s], t),
         pc'["app"] \in Opening =>
           call'.rs = s /\ Untouched(request_queue, inflight_requests, t, s)
  PROVE  StreamInv'
<1>1. Shaped(streams)
  BY DEF StreamInv
<1>2. AllTame(request_queue, streams, streams')
  BY <1>1, TameOne
<1>3. streams'[s] = t
  BY <1>1 DEF Shaped
<1>. QED BY <1>2, <1>3, StreamCalm

LEMMA FetchedOne ==
  ASSUME NEW r, Kind(r), r.records # <<>>
  PROVE  Fetched(r, Pop(r))
<1>1. Tail(r.records) \in Seq(Nat)
  BY HeadTailProperties DEF Kind
<1>. QED BY <1>1 DEF Fetched, Pop, Kind

LEMMA KindOf ==
  ASSUME StreamInv, NEW s \in Streams
  PROVE  Kind(streams[s])
  BY DEF StreamInv, Shaped
-----------------------------------------------------------------------------
(* What the program starts.                                                 *)
LEMMA StreamOpened ==
  ASSUME RefInv, Alive, StreamInv, AtRest', InUse' => InUse, Calm, At("idle"),
         NEW s \in Streams, ~streams[s].open, streams' = [streams EXCEPT ![s] = run_rs_open],
         call'.rs = s
  PROVE  StreamInv'
<1>1. pc["app"] # "fill" /\ pc["app"] # "crashed"
  BY DEF At
<1>2. ~Queues(request_queue, s)
  <2>1. Balanced(request_queue, streams, Own) /\ Proper(request_queue, FALSE)
    BY <1>1, QueueTyped DEF RefInv, Alive, Knows, Accounts
  <2>2. Pointers(request_queue, s) = 0
    BY <2>1 DEF Balanced, Balance
  <2>. QED BY <2>1, <2>2, NotPointed
<1>3. /\ Kind(run_rs_open) /\ run_rs_open.nrecords = 0 /\ run_rs_open.records = <<>>
  BY DEF run_rs_open, NoStream, Kind
<1>4. Tame(request_queue, s, streams[s], run_rs_open)
  BY <1>2, <1>3 DEF Tame, Cleared
<1>5. Untouched(request_queue, inflight_requests, run_rs_open, s)
  BY <1>2, <1>3 DEF Untouched, Queues
<1>. QED BY <1>4, <1>5, StreamOne

LEMMA StreamClosing ==
  ASSUME RefInv, Alive, StreamInv, AtRest', InUse' => InUse, Calm,
         NEW s \in Streams, NEW c, run_rs_close(s, c), pc \in [Actors -> Labels]
  PROVE  StreamInv'
<1>. DEFINE t == [streams[s] EXCEPT !.streaming = FALSE, !.refcount = @ - 1]
<1>1. streams' = [streams EXCEPT ![s] = t]
  BY DEF run_rs_close
<1>2. Tame(request_queue, s, streams[s], t)
  BY KindOf, SteadyFields DEF Tame
<1>3. pc'["app"] \notin Opening
  BY DEF run_rs_close, Enter, Goto, Opening, Actors
<1>. HIDE DEF t
<1>. QED BY <1>1, <1>2, <1>3, StreamOne

LEMMA StreamStart ==
  ASSUME RefInv, Alive, StreamInv, AtRest', InUse' => InUse, Start
  PROVE  StreamInv'
<1>0. /\ pc \in [Actors -> Labels]
      /\ \A label, c : Enter(label, c) => pc'["app"] = label /\ call' = c
  BY WindowKnown DEF Enter, Goto
<1>1. /\ UNCHANGED unchangedByCall => Calm
      /\ pc' = pc /\ At("idle") => pc'["app"] \notin Opening
  BY DEF unchangedByCall, Calm, wireVars, At, Opening
<1>2. ASSUME NEW s \in Streams, NEW kind \in Statements, NEW t \in Txs \cup {None},
             run_open(s, kind, t)
      PROVE  StreamInv'
  <2>1. At("idle") /\ Calm /\ ~streams[s].open
    BY <1>1, <1>2 DEF run_open, Calls
  <2>2. CASE failed
    <3>1. streams' = streams /\ pc' = pc
      BY <1>2, <2>2 DEF run_open
    <3>. QED BY <1>1, <2>1, <3>1, StreamSame
  <2>3. CASE ~failed
    <3>. DEFINE c == [Idle EXCEPT !.op = "run", !.rs = s, !.tx = t,
                                  !.kind = kind, !.cond = "starting"]
    <3>1. streams' = [streams EXCEPT ![s] = run_rs_open] /\ Enter("run", c) /\ c.rs = s
      BY <1>2, <2>3 DEF run_open, Idle
    <3>. HIDE DEF c
    <3>. QED BY <1>0, <2>1, <3>1, StreamOpened
  <2>. QED BY <2>2, <2>3
<1>3. ASSUME NEW s \in Streams, close_results(s) PROVE StreamInv'
  <2>1. Calm /\ \E c : run_rs_close(s, c)
    BY <1>1, <1>3 DEF close_results
  <2>. QED BY <1>0, <2>1, StreamClosing
<1>4. ASSUME NEW s \in Streams, fetch_next(s) PROVE StreamInv'
  <2>1. Calm /\ At("idle")
    BY <1>1, <1>4 DEF fetch_next, AwaitRecords
  <2>2. CASE /\ streams[s].records # <<>> /\ pc' = pc
             /\ streams' = [streams EXCEPT ![s] = Pop(streams[s])]
    <3>1. Tame(request_queue, s, streams[s], Pop(streams[s]))
      BY <2>2, KindOf, FetchedOne DEF Tame
    <3>. QED BY <1>1, <2>1, <2>2, <3>1, StreamOne
  <2>3. CASE /\ streams' = [streams EXCEPT ![s] = Await(streams[s], 1)]
             /\ pc'["app"] = "enter"
    <3>1. Tame(request_queue, s, streams[s], Await(streams[s], 1))
      BY KindOf, SteadyKept DEF Tame
    <3>. QED BY <2>1, <2>3, <3>1, StreamOne DEF Opening
  <2>4. CASE Crash /\ streams' = streams
    BY <1>0, <2>1, <2>4, StreamSame DEF Crash, Opening, Actors
  <2>. QED BY <1>0, <1>4, <2>2, <2>3, <2>4 DEF fetch_next, AwaitRecords
<1>5. ASSUME NEW s \in Streams, peek(s) PROVE StreamInv'
  <2>1. CASE Crash /\ streams' = streams
    BY <1>0, <1>1, <1>5, <2>1, StreamSame DEF peek, Crash, Opening, Actors
  <2>2. CASE pc'["app"] = "enter" /\ \E n : streams' = [streams EXCEPT ![s] = Await(streams[s], n)]
    <3>1. PICK n : /\ Calm /\ pc'["app"] = "enter"
                   /\ streams' = [streams EXCEPT ![s] = Await(streams[s], n)]
      BY <1>1, <1>5, <2>2 DEF peek
    <3>2. Tame(request_queue, s, streams[s], Await(streams[s], n))
      BY KindOf, SteadyKept DEF Tame
    <3>. QED BY <3>1, <3>2, StreamOne DEF Opening
  <2>. QED BY <1>0, <1>5, <2>1, <2>2 DEF peek, AwaitRecords
<1>6. ASSUME NEW s \in Streams, check_failure(s) \/ consume(s) PROVE StreamInv'
  <2>1. Calm /\ streams' = streams /\ pc'["app"] = "enter"
    BY <1>0, <1>1, <1>6 DEF check_failure, consume
  <2>. QED BY <2>1, StreamSame DEF Opening
<1>7. ASSUME NEW t \in Txs, begin_tx(t) \/ tx_commit(t) \/ tx_rollback(t) PROVE StreamInv'
  <2>1. Calm /\ streams' = streams
    BY <1>1, <1>7 DEF begin_tx, tx_commit, tx_rollback, Calm
  <2>2. pc'["app"] = "alloc"
    BY <1>0, <1>7 DEF begin_tx, tx_commit, tx_rollback
  <2>. QED BY <2>1, <2>2, StreamSame DEF Opening
<1>8. ASSUME NEW t \in Txs, free_tx(t) PROVE StreamInv'
  <2>1. Calm /\ streams' = streams /\ pc' = pc /\ At("idle")
    BY <1>1, <1>8 DEF free_tx
  <2>. QED BY <1>1, <2>1, StreamSame
<1>9. CASE close_start
  <2>1. Calm /\ streams' = AbortedJobs("SESSION_ENDED")
    BY <1>9 DEF close_start, Calm, wireVars
  <2>2. pc'["app"] \in {"crecv", "cend"}
    BY <1>0, <1>9 DEF close_start, Goto, Actors
  <2>. QED BY <2>1, <2>2, StreamStopped DEF Opening
<1>. QED BY <1>2, <1>3, <1>4, <1>5, <1>6, <1>7, <1>8, <1>9 DEF Start
-----------------------------------------------------------------------------
(* What session_sync does between what it sends and receives.               *)
LEMMA StreamQuiet ==
  ASSUME RefInv, Alive, StreamInv, AtRest', InUse' => InUse,
         \/ sync_enter \/ sync_lock \/ sync_loop \/ send_requests
         \/ sync_exit \/ sync_unlock \/ sync_unlock_ack
  PROVE  StreamInv'
<1>1. Calm
  BY DEF sync_enter, sync_lock, sync_loop, send_requests, sync_exit, sync_unlock,
         sync_unlock_ack, Calm, connVars, wireVars
<1>2. pc'["app"] \notin Opening
  <2>1. pc \in [Actors -> Labels] /\ "app" \in Actors
    BY WindowKnown
  <2>. DEFINE Step(label) == pc' = [pc EXCEPT !["app"] = label]
  <2>2. \A label : Step(label) => pc'["app"] = label
    BY <2>1
  <2>3. \/ Step("done") \/ Step("lock") \/ Step("loop") \/ Step("reply") \/ Step("send")
        \/ Step("exit") \/ Step("unlock") \/ Step("xmit") \/ Step("rrecv") \/ Step("rfinal")
        \/ Step("alloc")
    BY DEF sync_enter, sync_lock, sync_loop, send_requests, sync_exit, sync_unlock,
           sync_unlock_ack, Return, Goto, ResetFrom
  <2>. HIDE DEF Step
  <2>. QED BY <2>2, <2>3 DEF Opening
<1>3. streams' = streams \/ streams' = AbortedJobs("SESSION_RESET")
  BY DEF sync_enter, sync_lock, sync_loop, send_requests, sync_exit, sync_unlock,
         sync_unlock_ack
<1>. QED BY <1>1, <1>2, <1>3, StreamSame, StreamStopped

(* A signal is delivered: the program stays where it is.                    *)
LEMMA StreamSignal ==
  ASSUME RefInv, Alive, StreamInv, AtRest', InUse' => InUse, neo4j_reset
  PROVE  StreamInv'
<1>1. Calm /\ call' = call
  BY DEF neo4j_reset, Calm
<1>2. pc'["app"] = pc["app"]
  BY WindowKnown DEF neo4j_reset
<1>3. streams' = streams \/ streams' = AbortedJobs("SESSION_RESET")
  BY DEF neo4j_reset
<1>. QED BY <1>1, <1>2, <1>3, StreamSame, StreamStopped
-----------------------------------------------------------------------------
(* A request is queued, or a slot populated: it is not in flight yet.       *)
LEMMA StreamAppended ==
  ASSUME RefInv, Alive, StreamInv, AtRest', InUse' => InUse,
         UNCHANGED <<streams, inflight_requests, toClient, server>>,
         NEW x \in Requests, request_queue' = Append(request_queue, x),
         x.type \in Statements => streams[x.of].nrecords = 0,
         pc'["app"] \in Opening => pc["app"] \in Opening /\ call' = call
  PROVE  StreamInv'
<1>. DEFINE q == request_queue
            n == inflight_requests
            p == Append(q, x)
            k == Len(q)
<1>1. /\ q \in Seq(Requests) /\ k \in Nat /\ n \in 0 .. k
      /\ DOMAIN q = 1 .. k /\ DOMAIN p = 1 .. k + 1 /\ p[k + 1] = x
      /\ \A i \in 1 .. k : p[i] = q[i]
      /\ p # <<>> /\ Head(p) = p[1]
  <2>1. q \in Seq(Requests) /\ k \in Nat /\ n \in 0 .. k
    BY WindowKnown
  <2>. QED BY <2>1, AppendProperties, LenProperties, EmptySeq
<1>2. q # <<>> => 1 \in 1 .. k /\ Head(q) = q[1]
  <2>1. q # <<>> => k # 0
    BY <1>1, EmptySeq
  <2>. QED BY <1>1, <2>1
<1>3. q = <<>> => k = 0
  BY <1>1, EmptySeq
<1>. HIDE DEF q, p, k, n
<1>4. Received0(p, streams) = Received0(q, streams)
  <2>1. CASE q = <<>>
    BY <1>1, <1>3, <2>1 DEF Received0
  <2>2. CASE q # <<>>
    BY <1>1, <1>2, <2>2 DEF Received0
  <2>. QED BY <2>1, <2>2
<1>5. FreshIn(q, n, streams) => FreshIn(p, n, streams)
  <2>. SUFFICES ASSUME FreshIn(q, n, streams), NEW j \in DOMAIN p,
                       p[j].type \in Statements, j > 1 \/ n = 0
                PROVE  streams[p[j].of].nrecords = 0
    BY DEF FreshIn
  <2>1. CASE j \in 1 .. k
    BY <1>1, <2>1 DEF FreshIn
  <2>2. CASE j = k + 1
    BY <1>1, <2>2
  <2>. QED BY <1>1, <2>1, <2>2
<1>6. \A r, s : Untouched(q, n, r, s) => Untouched(p, n, r, s)
  <2>. SUFFICES ASSUME NEW r, NEW s, Untouched(q, n, r, s), NEW i \in DOMAIN p, p[i].of = s
                PROVE  i > n
    BY DEF Untouched
  <2>1. CASE i \in 1 .. k
    BY <1>1, <2>1 DEF Untouched
  <2>2. CASE i = k + 1
    BY <1>1, <2>2
  <2>. QED BY <1>1, <2>1, <2>2
<1>7. request_queue' = p /\ inflight_requests' = n
  BY DEF p, q, n
<1>8. InUse' => Numbers'
  BY <1>4, <1>7 DEF StreamInv, Numbers, q
<1>9. FreshIn(request_queue, inflight_requests, streams)'
  BY <1>5, <1>7 DEF StreamInv, q, n
<1>10. OpeningIn(request_queue, inflight_requests, streams)'
  BY <1>6, <1>7 DEF StreamInv, OpeningIn, q, n
<1>. QED BY <1>8, <1>9, <1>10 DEF StreamInv

LEMMA StreamNewRequest ==
  ASSUME RefInv, Alive, StreamInv, AtRest', InUse' => InUse, new_request
  PROVE  StreamInv'
<1>1. pc'["app"] \notin Opening
  BY WindowKnown DEF new_request, Return, Goto, Opening
<1>2. CASE request_queue' = request_queue
  <2>1. Calm /\ streams' = streams
    BY <1>2 DEF new_request, Calm, wireVars
  <2>. QED BY <1>1, <2>1, StreamSame
<1>3. CASE request_queue' = Append(request_queue, Blank)
  <2>1. UNCHANGED <<streams, inflight_requests, toClient, server>>
    BY DEF new_request, wireVars
  <2>2. Blank \in Requests /\ Blank.type \notin Statements
    BY RequestsTyped DEF Blank, Request, Statements
  <2>. QED BY <1>1, <1>3, <2>1, <2>2, StreamAppended
<1>. QED BY <1>2, <1>3 DEF new_request, Queue, Blank

LEMMA StreamPopulate ==
  ASSUME RefInv, Alive, StreamInv, AtRest', InUse' => InUse, populate
  PROVE  StreamInv'
<1>. DEFINE q == request_queue
            n == inflight_requests
            k == Len(q)
            x == call.fill
            p == [q EXCEPT ![k] = x]
<1>1. /\ request_queue' = p /\ UNCHANGED <<streams, inflight_requests, toClient, server>>
      /\ pc["app"] = "fill" /\ pc'["app"] = "enter"
  BY WindowKnown DEF populate, At, Goto, wireVars
<1>2. /\ q \in Seq(Requests) /\ k \in Nat /\ n \in 0 .. k /\ DOMAIN q = 1 .. k
  BY WindowKnown, LenProperties
<1>3. Phases /\ Proper(q, TRUE)
  BY <1>1 DEF RefInv, Knows, Accounts
<1>4. n < k /\ x.type \notin Statements
  BY <1>1, <1>3 DEF Phases, TxRequests, Statements
<1>5. k \in 1 .. k /\ 1 \in 1 .. k /\ q # <<>> /\ Head(q) = q[1]
  <2>1. k > 0
    BY <1>2, <1>4
  <2>. QED BY <1>2, <2>1
<1>6. q[k].type \notin Statements
  BY <1>2, <1>3, <1>5 DEF Proper, Blank, Request, Statements
<1>7. /\ DOMAIN p = 1 .. k /\ p[k] = x /\ \A i \in 1 .. k : i # k => p[i] = q[i]
      /\ p # <<>> /\ Head(p) = p[1]
  <2>1. DOMAIN p = 1 .. k /\ p[k] = x /\ \A i \in 1 .. k : i # k => p[i] = q[i]
    BY <1>2, <1>5
  <2>2. p # <<>>
    <3>1. DOMAIN <<>> = {}
      OBVIOUS
    <3>2. DOMAIN p # {}
      BY <1>5, <2>1
    <3>. QED BY <3>1, <3>2
  <2>3. Head(p) = p[1]
    OBVIOUS
  <2>. QED BY <2>1, <2>2, <2>3
<1>. HIDE DEF q, n, k, x, p
<1>8. Received0(p, streams) = Received0(q, streams)
  <2>1. CASE k = 1
    BY <1>4, <1>5, <1>6, <1>7, <2>1 DEF Received0
  <2>2. CASE k # 1
    BY <1>5, <1>7, <2>2 DEF Received0
  <2>. QED BY <2>1, <2>2
<1>9. FreshIn(q, n, streams) => FreshIn(p, n, streams)
  BY <1>2, <1>4, <1>7 DEF FreshIn
<1>10. InUse' => Numbers'
  BY <1>1, <1>8 DEF StreamInv, Numbers, q
<1>11. FreshIn(request_queue, inflight_requests, streams)'
  BY <1>1, <1>9 DEF StreamInv, q, n
<1>12. OpeningIn(request_queue, inflight_requests, streams)'
  BY <1>1 DEF OpeningIn, Opening
<1>. QED BY <1>1, <1>10, <1>11, <1>12 DEF StreamInv

LEMMA StreamEnqueued ==
  ASSUME RefInv, Alive, StreamInv, AtRest', InUse' => InUse, session_run \/ session_pull_all
  PROVE  StreamInv'
<1>. DEFINE x == IF pc["app"] = "run" THEN Request("RUN", call.rs, call.tx)
                 ELSE Request(call.kind, call.rs, call.tx)
            Step(label) == pc' = [pc EXCEPT !["app"] = label]
<1>1. /\ pc["app"] \in {"run", "pull"} /\ pc \in [Actors -> Labels] /\ call \in Calling
      /\ UNCHANGED <<streams, inflight_requests, toClient, server, call>>
  BY DEF session_run, session_pull_all, At, wireVars, RefInv, WindowInv, LockInv, WindowTypes
<1>2. \A label : Step(label) => pc'["app"] = label
  BY <1>1 DEF Actors
<1>3. x \in Requests /\ x.of = call.rs
  <2>1. call.rs \in Streams \cup {None} /\ call.tx \in Txs \cup {None} /\ call.kind \in Statements
    BY <1>1 DEF Calling
  <2>2. Request("RUN", call.rs, call.tx) \in Requests /\ Request(call.kind, call.rs, call.tx) \in Requests
    BY <2>1, RequestsTyped
  <2>. QED BY <2>2 DEF Request
<1>4. /\ Step("abandon") \/ Step("run_unlock") \/ Step("pull_unlock")
      /\ request_queue' = request_queue \/ request_queue' = Append(request_queue, x)
  BY DEF session_run, session_pull_all, Enqueue, Goto, Queue, At
<1>. HIDE DEF x, Step
<1>5. pc["app"] \in Opening /\ pc'["app"] \in Opening
  BY <1>1, <1>2, <1>4 DEF Opening
<1>6. streams[x.of].nrecords = 0
  BY <1>3, <1>5 DEF StreamInv, OpeningIn, Untouched
<1>7. CASE request_queue' = request_queue
  BY <1>1, <1>5, <1>7, StreamSame DEF Calm
<1>8. CASE request_queue' = Append(request_queue, x)
  BY <1>1, <1>3, <1>5, <1>6, <1>8, StreamAppended
<1>. QED BY <1>4, <1>7, <1>8
-----------------------------------------------------------------------------
(* Running a statement, closing its stream, and returning to the program.   *)
LEMMA StreamUnlocked ==
  ASSUME RefInv, Alive, StreamInv, AtRest', InUse' => InUse, session_unlock
  PROVE  StreamInv'
<1>. DEFINE Step(label) == pc' = [pc EXCEPT !["app"] = label]
            s == call.rs
<1>1. /\ pc["app"] \in Opening /\ pc \in [Actors -> Labels] /\ Calm /\ call' = call
  BY WindowKnown DEF session_unlock, At, Opening, Calm, wireVars
<1>2. s \in Streams
  BY <1>1, QueueTyped
<1>3. CASE streams' = streams
  BY <1>1, <1>3, StreamSame
<1>4. CASE streams' = [streams EXCEPT ![s] = Referenced(streams[s])]
  <2>1. Steady(streams[s], Referenced(streams[s]))
    BY <1>2, KindOf, SteadyKept
  <2>2. Untouched(request_queue, inflight_requests, streams[s], s)
    BY <1>1 DEF StreamInv, OpeningIn
  <2>3. Untouched(request_queue, inflight_requests, Referenced(streams[s]), s)
    BY <2>1, <2>2 DEF Untouched, Steady
  <2>. QED BY <1>1, <1>2, <1>4, <2>1, <2>3, StreamOne DEF Tame
<1>. QED BY <1>3, <1>4 DEF session_unlock

LEMMA StreamStarted ==
  ASSUME RefInv, Alive, StreamInv, AtRest', InUse' => InUse, run_start
  PROVE  StreamInv'
<1>. DEFINE s == call.rs
<1>1. /\ pc["app"] \in Opening /\ pc'["app"] \notin Opening
      /\ streams' = [streams EXCEPT ![s] = Started(streams[s])]
  BY WindowKnown DEF run_start, At, Opening, Goto
<1>2. Calm
  BY DEF run_start, unchangedByCall, wireVars, Calm
<1>3. s \in Streams
  BY <1>1, QueueTyped
<1>4. Kind(streams[s]) /\ streams[s].nrecords = 0 /\ streams[s].records = <<>>
  BY <1>1, <1>3, KindOf DEF StreamInv, OpeningIn, Untouched
<1>5. Cleared(streams[s], Started(streams[s]))
  BY <1>4 DEF Started, Cleared, Kind
<1>. QED BY <1>1, <1>2, <1>3, <1>4, <1>5, StreamOne DEF Tame

LEMMA StreamFreed ==
  ASSUME RefInv, Alive, StreamInv, AtRest', InUse' => InUse, free_results
  PROVE  StreamInv'
<1>. DEFINE s == call.rs
<1>1. /\ pc["app"] = "free" /\ pc'["app"] \notin Opening
  BY WindowKnown DEF free_results, At, Crash, Opening, Enter, Goto
<1>2. Calm
  BY DEF free_results, unchangedByCall, wireVars, Calm
<1>3. CASE streams' = streams
  BY <1>1, <1>2, <1>3, StreamSame
<1>4. CASE streams' = [streams EXCEPT ![s] = NoStream] /\ streams[s].refcount = 0
  <2>1. s \in Streams /\ Closing(s)
    BY <1>1 DEF RefInv, Knows, Phases
  <2>2. Balance(Pointers(request_queue, s), streams[s], Own[s]) /\ StreamsOK(streams)
    BY <2>1 DEF RefInv, Knows, Accounts, Balanced
  <2>3. Own[s] = 0
    BY <1>1, <2>1 DEF Own, Bit, Taking
  <2>4. Pointers(request_queue, s) = 0
    BY <1>4, <2>1, <2>2, <2>3, PointersTyped DEF Balance, StreamsOK, Counted
  <2>5. ~Queues(request_queue, s)
    BY <1>1, <2>1, <2>4, QueueTyped, NotPointed
  <2>6. Cleared(streams[s], NoStream)
    BY DEF Cleared, NoStream, Kind
  <2>. QED BY <1>1, <1>2, <1>4, <2>1, <2>5, <2>6, StreamOne DEF Tame
<1>. QED BY <1>3, <1>4 DEF free_results

LEMMA StreamReturned ==
  ASSUME RefInv, Alive, StreamInv, AtRest', InUse' => InUse, return_to_stream
  PROVE  StreamInv'
<1>. DEFINE s == call.rs
            r == streams[s]
            u == Awaited(r)
            popping == call.op = "fetch" /\ ret.rc = 0 /\ u.records # <<>>
<1>1. s \in Streams /\ pc'["app"] \notin Opening
  BY WindowKnown DEF return_to_stream, Crash, Opening, Enter, Goto, RefInv, WindowInv,
                     WindowTypes, Calling
<1>2. Calm
  BY DEF return_to_stream, unchangedByCall, wireVars, Calm
<1>3. PICK t \in {u, Lost(u), IF popping THEN Pop(u) ELSE u} :
             streams' = [streams EXCEPT ![s] = t]
  BY DEF return_to_stream
<1>4. Kind(r) /\ Steady(r, u) /\ Kind(u)
  BY <1>1, KindOf, SteadyKept DEF Steady
<1>. HIDE DEF u
<1>5. Tame(request_queue, s, r, t)
  <2>1. CASE t \in {u, Lost(u)}
    <3>1. Steady(r, t)
      BY <1>4, <2>1, SteadyKept, SteadyTwice
    <3>. QED BY <3>1 DEF Tame
  <2>2. CASE t = Pop(u) /\ popping
    <3>1. Fetched(u, t)
      BY <1>4, <2>2, FetchedOne
    <3>2. Fetched(r, t)
      BY <1>4, <3>1 DEF Fetched, Steady
    <3>. QED BY <3>2 DEF Tame
  <2>. QED BY <1>3, <2>1, <2>2
<1>. QED BY <1>1, <1>2, <1>3, <1>5, StreamOne

LEMMA StreamRun ==
  ASSUME RefInv, Alive, StreamInv, AtRest', InUse' => InUse, Run
  PROVE  StreamInv'
<1>1. CASE session_run \/ session_pull_all
  BY <1>1, StreamEnqueued
<1>2. CASE session_unlock
  BY <1>2, StreamUnlocked
<1>3. CASE run_start
  BY <1>3, StreamStarted
<1>4. CASE abandon
  <2>1. pc["app"] = "abandon" /\ pc \in [Actors -> Labels]
    BY <1>4, WindowKnown DEF abandon, At
  <2>2. call.rs \in Streams
    BY <2>1, QueueTyped DEF Opening
  <2>3. Calm
    BY <1>4 DEF abandon, unchangedByCall, wireVars, Calm
  <2>. QED BY <1>4, <2>1, <2>2, <2>3, StreamClosing DEF abandon
<1>5. CASE free_results
  BY <1>5, StreamFreed
<1>6. CASE return_to_stream
  BY <1>6, StreamReturned
<1>7. CASE return_to_tx
  <2>1. Calm /\ streams' = streams
    BY <1>7 DEF return_to_tx, unchangedByCall, wireVars, Calm
  <2>2. pc'["app"] \notin Opening
    BY <1>7, WindowKnown DEF return_to_tx, Enter, Goto, Opening
  <2>. QED BY <2>1, <2>2, StreamSame
<1>. QED BY <1>1, <1>2, <1>3, <1>4, <1>5, <1>6, <1>7 DEF Run
-----------------------------------------------------------------------------
(* Replies are received.  Whoever waits for one waits on a connection that  *)
(* is in use.                                                               *)
LEMMA Busy ==
  ASSUME Signals, RefInv, WireInv, Serving, StreamInv, Alive, NEW a \in Actors, Receives(a)
  PROVE  Ready /\ InUse
<1>1. ~closed
  BY DEF StreamInv, AtRest, Receives, Reading, Afterwards, Actors
<1>2. ~failed
  <2>1. CASE a = "app"
    BY <1>1, <2>1 DEF StreamInv, AtRest, Serving, OutOfLoop, Looping, Receives, Reading
  <2>2. CASE a = "sig"
    BY <1>1, <2>2 DEF Serving, OutOfLoop, Receives, Reading
  <2>. QED BY <2>1, <2>2 DEF Actors
<1>3. InUse
  BY <1>1, <1>2 DEF InUse, Serving
<1>. QED BY <1>3 DEF Ready, WireInv, StreamInv

\* The process dies, and leaves everything as it is.
LEMMA StreamDied ==
  ASSUME StreamInv, AtRest', ~Alive', streams' = streams
  PROVE  StreamInv'
  BY DEF StreamInv, InUse, Shaped, Ordered

\* The reply is taken, and no more is done.
LEMMA StreamTurn ==
  ASSUME NEW r, Taken(r), AtRest', toClient' = Tail(toClient), server' = server,
         request_queue' = r.queue, inflight_requests' = r.inflight, streams' = r.streams,
         pc'["app"] \in Opening => pc["app"] \in Opening /\ call' = call
  PROVE  StreamInv'
<1>1. Shaped(streams)' /\ Ordered(streams)'
  BY DEF Taken, Shaped, Ordered
<1>2. Numbers'
  BY DEF Taken, Numbers
<1>3. FreshIn(request_queue, inflight_requests, streams)'
  BY DEF Taken
<1>4. OpeningIn(request_queue, inflight_requests, streams)'
  BY DEF Taken, OpeningIn
<1>. QED BY <1>1, <1>2, <1>3, <1>4 DEF StreamInv

\* The queue is drained.
LEMMA StreamDrained ==
  ASSUME AtRest', NEW q, NEW n, NEW st, Shaped(st), Ordered(st), OpeningIn(q, n, st),
         InUse' => Numbered(toClient', 0, server'),
         request_queue' = <<>>, inflight_requests' = 0, streams' = DrainedStreams(q, st),
         pc'["app"] \in Opening => pc["app"] \in Opening /\ call' = call /\ call.rs \in Streams
  PROVE  StreamInv'
<1>1. DOMAIN streams' = Streams /\ \A s \in Streams : Steady(st[s], streams'[s])
  BY DrainedSteady
<1>2. Shaped(streams)' /\ Ordered(streams)'
  <2>1. AllTame(<<>>, st, streams')
    BY <1>1, SteadyTame
  <2>2. Shaped(streams') /\ Ordered(streams')
    BY <2>1, TameOrdered
  <2>. QED BY <2>2
<1>3. InUse' => Numbers'
  BY DEF Numbers, Received0
<1>4. FreshIn(request_queue, inflight_requests, streams)'
  BY DEF FreshIn
<1>5. OpeningIn(request_queue, inflight_requests, streams)'
  BY <1>1 DEF OpeningIn, Untouched, Steady
<1>. QED BY <1>2, <1>3, <1>4, <1>5 DEF StreamInv

\* What was received last has nothing after it in flight.
LEMMA NoneReceived ==
  ASSUME NEW r, Taken(r), r.queue \in Seq(Requests), r.queue = <<>> \/ r.inflight = 0
  PROVE  Numbered(Tail(toClient), 0, server)
<1>1. Received0(r.queue, r.streams) = 0
  <2>1. CASE r.queue = <<>>
    BY <2>1 DEF Received0
  <2>2. CASE r.queue # <<>> /\ r.inflight = 0
    <3>1. 1 \in DOMAIN r.queue /\ Head(r.queue) = r.queue[1]
      <4>1. Len(r.queue) # 0 /\ Len(r.queue) \in Nat /\ DOMAIN r.queue = 1 .. Len(r.queue)
        BY <2>2, EmptySeq, LenProperties
      <4>. QED BY <4>1
    <3>. QED BY <2>2, <3>1 DEF Taken, FreshIn, Received0
  <2>. QED BY <2>1, <2>2
<1>. QED BY <1>1 DEF Taken

LEMMA StreamReceive ==
  ASSUME Signals, RefInv, WireInv, Serving, StreamInv, Alive, AtRest', sync_receive
  PROVE  StreamInv'
<1>. DEFINE r == Received("app")
            more == (r.failure \/ CondHolds(r.streams)) /\ r.inflight > 0
<1>0. /\ pc \in [Actors -> Labels] /\ pc["app"] = "reply" /\ pc["sig"] = "idle"
      /\ toClient' = Tail(toClient) /\ Reply /\ inflight_requests > 0 /\ "app" \in Actors
      /\ server' = server
  BY WindowKnown DEF sync_receive, At, RefInv, WindowInv, Expecting
<1>1. Receives("app")
  BY <1>0 DEF Receives, Reading
<1>2. Ready /\ Taken(r)
  BY <1>0, <1>1, Busy, ReceivedStreams
<1>3. r.queue \in Seq(Requests) /\ r.inflight \in Nat
  BY <1>0, ReceivingTyped
<1>4. r.rc < 0 /\ ~r.crash => r.queue = <<>>
  BY <1>0, <1>1, <1>2, NoReject DEF Ready, Wired
<1>5. \/ Crash /\ streams' = streams
      \/ /\ (r.rc < 0 /\ ~r.crash) \/ (~more /\ r.failure)
         /\ request_queue' = <<>> /\ inflight_requests' = 0
         /\ streams' = DrainedStreams(r.queue, r.streams)
      \/ /\ request_queue' = r.queue /\ inflight_requests' = r.inflight
         /\ streams' = r.streams
  <2>1. \/ r.crash /\ Crash /\ streams' = streams
        \/ ~r.crash /\ r.rc < 0 /\ FailSync("EPROTO", r.queue, r.streams)
        \/ /\ ~r.crash /\ r.failure /\ ~more
           /\ request_queue' = <<>> /\ inflight_requests' = 0
           /\ streams' = DrainedStreams(r.queue, r.streams)
        \/ /\ request_queue' = r.queue /\ inflight_requests' = r.inflight
           /\ streams' = r.streams
    BY DEF sync_receive
  <2>. HIDE DEF r, more
  <2>. QED BY <2>1 DEF FailSync
<1>6. pc'["app"] \notin Opening
  <2>1. \/ Crash
        \/ \E label \in {"unlock", "unlock_ack", "exit", "reply", "send"} :
             pc' = [pc EXCEPT !["app"] = label]
    BY DEF sync_receive, FailSync, Goto
  <2>. QED BY <1>0, <2>1 DEF Crash, Opening
<1>7. ~more /\ r.failure => r.inflight = 0
  BY <1>3
<1>. HIDE DEF r, more
<1>8. CASE Crash /\ streams' = streams
  BY <1>0, <1>8, StreamDied DEF Crash, Alive
<1>9. CASE /\ (r.rc < 0 /\ ~r.crash) \/ (~more /\ r.failure)
           /\ request_queue' = <<>> /\ inflight_requests' = 0
           /\ streams' = DrainedStreams(r.queue, r.streams)
  <2>1. Numbered(Tail(toClient), 0, server)
    BY <1>2, <1>3, <1>4, <1>7, <1>9, NoneReceived
  <2>2. Shaped(r.streams) /\ Ordered(r.streams) /\ OpeningIn(r.queue, r.inflight, r.streams)
    BY <1>2 DEF Taken
  <2>. QED BY <1>0, <1>6, <1>9, <2>1, <2>2, StreamDrained
<1>10. CASE /\ request_queue' = r.queue /\ inflight_requests' = r.inflight
            /\ streams' = r.streams
  BY <1>0, <1>2, <1>6, <1>10, StreamTurn
<1>. QED BY <1>5, <1>8, <1>9, <1>10

LEMMA StreamResetReceive ==
  ASSUME Signals, RefInv, WireInv, Serving, StreamInv, Alive, AtRest', NEW a \in Actors,
         reset_receive(a)
  PROVE  StreamInv'
<1>. DEFINE r == Received(a)
<1>0. /\ pc \in [Actors -> Labels] /\ pc[a] = "rrecv" /\ (a = "app" => pc["sig"] = "idle")
      /\ toClient' = Tail(toClient) /\ Reply /\ inflight_requests > 0
      /\ server' = server /\ call' = call
  BY WindowKnown DEF reset_receive, Resetting, RefInv, WindowInv, Expecting, Actors
<1>1. Receives(a)
  BY <1>0 DEF Receives, Reading
<1>2. Ready /\ Taken(r)
  BY <1>0, <1>1, Busy, ReceivedStreams
<1>3. r.queue \in Seq(Requests)
  BY <1>0, ReceivingTyped
<1>4. r.rc < 0 /\ ~r.crash => r.queue = <<>>
  BY <1>0, <1>1, <1>2, NoReject DEF Ready, Wired
<1>5. \/ Crash /\ streams' = streams
      \/ /\ r.rc < 0 /\ ~r.crash
         /\ request_queue' = <<>> /\ inflight_requests' = 0
         /\ streams' = DrainedStreams(r.queue, r.streams)
      \/ /\ request_queue' = r.queue /\ inflight_requests' = r.inflight
         /\ streams' = r.streams
  BY DEF reset_receive, EndReset
<1>6. pc'["app"] \in Opening => pc["app"] \in Opening /\ call' = call
  <2>1. \/ Crash
        \/ \E label \in {"unlock", "idle", "rrecv", "rfinal"} :
             pc' = [pc EXCEPT ![a] = label] /\ (a = "app" => label # "idle")
    BY DEF reset_receive, EndReset
  <2>2. CASE a = "app"
    BY <1>0, <2>1, <2>2 DEF Crash, Opening
  <2>3. CASE a = "sig"
    BY <1>0, <2>1, <2>3 DEF Crash, Opening, Actors
  <2>. QED BY <2>2, <2>3 DEF Actors
<1>7. pc["app"] \in Opening => call.rs \in Streams
  BY QueueTyped
<1>. HIDE DEF r
<1>8. CASE Crash /\ streams' = streams
  BY <1>0, <1>8, StreamDied DEF Crash, Alive, Actors
<1>9. CASE /\ r.rc < 0 /\ ~r.crash
           /\ request_queue' = <<>> /\ inflight_requests' = 0
           /\ streams' = DrainedStreams(r.queue, r.streams)
  <2>1. Numbered(Tail(toClient), 0, server)
    BY <1>2, <1>3, <1>4, <1>9, NoneReceived
  <2>2. Shaped(r.streams) /\ Ordered(r.streams) /\ OpeningIn(r.queue, r.inflight, r.streams)
    BY <1>2 DEF Taken
  <2>. QED BY <1>0, <1>6, <1>7, <1>9, <2>1, <2>2, StreamDrained
<1>10. CASE /\ request_queue' = r.queue /\ inflight_requests' = r.inflight
            /\ streams' = r.streams
  BY <1>0, <1>2, <1>6, <1>10, StreamTurn
<1>. QED BY <1>5, <1>8, <1>9, <1>10

\* The reply to RESET has no number.
LEMMA StreamResetReply ==
  ASSUME Signals, RefInv, WireInv, StreamInv, Alive, AtRest', InUse' => InUse,
         NEW a \in Actors, reset_reply(a)
  PROVE  StreamInv'
<1>0. /\ pc \in [Actors -> Labels] /\ pc[a] = "rfinal" /\ toClient # <<>>
      /\ toClient' = Tail(toClient) /\ server' = server /\ call' = call
      /\ toClient \in Seq(Messages)
      /\ request_queue' = <<>> /\ inflight_requests' = 0
      /\ streams' = DrainedStreams(request_queue, streams)
  BY WindowKnown DEF reset_reply, Resetting, EndReset, Reply
<1>1. ASSUME InUse' PROVE Numbered(toClient', 0, server')
  <2>1. InUse /\ Wired
    BY <1>1 DEF WireInv
  <2>2. Head(toClient) \in FinalReplies /\ Head(toClient) \in Messages
    BY <1>0, <2>1, ResetIsAnswered, TailOf DEF Wired
  <2>3. Head(toClient).type # "RECORD"
    BY <2>2, FinalOrRecord
  <2>4. Numbered(toClient, Received0(request_queue, streams), server)
    BY <2>1 DEF StreamInv, Numbers
  <2>5. Numbered(Tail(toClient), 0, server)
    BY <1>0, <2>3, <2>4, NumberedTail
  <2>. QED BY <1>0, <2>5
<1>2. pc'["app"] \in Opening => pc["app"] \in Opening /\ call' = call
  <2>1. \/ Crash
        \/ pc' = [pc EXCEPT ![a] = IF a = "app" THEN "unlock" ELSE "idle"]
    BY DEF reset_reply, EndReset
  <2>2. CASE a = "app"
    BY <1>0, <2>1, <2>2 DEF Crash, Opening
  <2>3. CASE a = "sig"
    BY <1>0, <2>1, <2>3 DEF Crash, Opening, Actors
  <2>. QED BY <2>2, <2>3 DEF Actors
<1>3. pc["app"] \in Opening => call.rs \in Streams
  BY QueueTyped
<1>4. /\ Shaped(streams) /\ Ordered(streams)
      /\ OpeningIn(request_queue, inflight_requests, streams)
  BY DEF StreamInv
<1>. QED BY <1>0, <1>1, <1>2, <1>3, <1>4, StreamDrained

LEMMA StreamClose ==
  ASSUME Signals, RefInv, WireInv, Serving, StreamInv, Alive, AtRest', Close
  PROVE  StreamInv'
<1>0. pc \in [Actors -> Labels] /\ "app" \in Actors
  BY WindowKnown
<1>1. ~close_receive_error
  BY NoErrors DEF close_receive_error, Serving
<1>2. CASE close_receive
  <2>. DEFINE r == Received("app")
  <2>1. /\ pc["app"] = "crecv" /\ pc["sig"] = "idle" /\ Reply /\ server' = server
        /\ toClient' = Tail(toClient) /\ inflight_requests > 0
        /\ request_queue' = r.queue /\ inflight_requests' = r.inflight
        /\ streams' = r.streams
    BY <1>2 DEF close_receive, At, RefInv, WindowInv, Expecting
  <2>2. Receives("app")
    BY <2>1 DEF Receives, Reading
  <2>3. Taken(r)
    BY <1>0, <2>1, <2>2, Busy, ReceivedStreams
  <2>4. pc'["app"] \notin Opening
    BY <1>0, <1>2 DEF close_receive, Crash, Goto, Opening
  <2>. HIDE DEF r
  <2>. QED BY <2>1, <2>3, <2>4, StreamTurn
<1>3. CASE close_end
  <2>1. /\ request_queue' = <<>> /\ inflight_requests' = 0 /\ closed'
        /\ streams' = DrainedStreams(request_queue, streams)
    BY <1>3 DEF close_end
  <2>2. pc'["app"] \notin Opening
    BY <1>0, <1>3 DEF close_end, Crash, Goto, Opening
  <2>3. /\ Shaped(streams) /\ Ordered(streams)
        /\ OpeningIn(request_queue, inflight_requests, streams)
    BY DEF StreamInv
  <2>4. ~InUse'
    BY <2>1 DEF InUse
  <2>. QED BY <2>1, <2>2, <2>3, <2>4, StreamDrained
<1>. QED BY <1>1, <1>2, <1>3 DEF Close
-----------------------------------------------------------------------------
(* A request is sent: only what was next to be sent may have been answered. *)
LEMMA StreamSend ==
  ASSUME RefInv, Alive, StreamInv, Serving, AtRest', InUse' => InUse, send_request
  PROVE  StreamInv'
<1>1. /\ inflight_requests' = inflight_requests + 1
      /\ UNCHANGED <<request_queue, streams, toClient, server>>
      /\ pc'["app"] \notin Opening
  BY WindowKnown DEF send_request, Serving, Goto, Opening
<1>2. inflight_requests + 1 # 0
  BY WindowKnown
<1>3. FreshIn(request_queue, inflight_requests, streams)'
  BY <1>1, <1>2 DEF StreamInv, FreshIn
<1>4. OpeningIn(request_queue, inflight_requests, streams)'
  BY <1>1 DEF OpeningIn
<1>5. InUse' => Numbers'
  BY <1>1 DEF StreamInv, Numbers
<1>. QED BY <1>1, <1>3, <1>4, <1>5 DEF StreamInv

(* The server's side.                                                       *)
LEMMA StreamServer ==
  ASSUME Signals, RefInv, StreamInv, AtRest', InUse' => InUse, ServerStep \/ ServerGoodbye
  PROVE  StreamInv'
<1>1. UNCHANGED <<request_queue, inflight_requests, streams, pc, call>>
  BY DEF ServerStep, ServerGoodbye, connVars, ctlVars
<1>2. ASSUME InUse' PROVE Numbers'
  <2>1. Numbered(toClient, Received0(request_queue, streams), server)
    BY <1>2 DEF StreamInv, Numbers
  <2>2. CASE ServerStep
    <3>1. WireTypes /\ "BADRECORD" \notin Faults
      BY DEF RefInv, Signals
    <3>2. Numbered(toClient', Received0(request_queue, streams), server')
      BY <2>1, <2>2, <3>1, ServerNumbers
    <3>. QED BY <1>1, <3>2 DEF Numbers
  <2>3. CASE ServerGoodbye
    <3>1. toClient' = toClient /\ server'.mode # "STREAMING"
      BY <2>3 DEF ServerGoodbye
    <3>2. Numbered(toClient', Received0(request_queue, streams), server')
      BY <2>1, <3>1 DEF Numbered
    <3>. QED BY <1>1, <3>2 DEF Numbers
  <2>. QED BY <2>2, <2>3
<1>. QED BY <1>1, <1>2 DEF StreamInv, Alive, OpeningIn

LEMMA StreamInit == Init => StreamInv
<1>. SUFFICES ASSUME Init PROVE StreamInv
  OBVIOUS
<1>1. Shaped(streams) /\ Ordered(streams)
  <2>1. DOMAIN streams = Streams /\ \A s \in Streams : streams[s] = NoStream
    BY DEF Init
  <2>2. Kind(NoStream) /\ ~NoStream.streaming
    BY DEF NoStream, Kind
  <2>. QED BY <2>1, <2>2 DEF Shaped, Ordered
<1>2. AtRest
  BY DEF Init, AtRest, Actors
<1>3. Numbers
  BY DEF Init, Numbers, Numbered
<1>4. /\ FreshIn(request_queue, inflight_requests, streams)
      /\ OpeningIn(request_queue, inflight_requests, streams)
  BY DEF Init, FreshIn, OpeningIn, Opening, Actors
<1>. QED BY <1>1, <1>2, <1>3, <1>4 DEF StreamInv

LEMMA StreamKept ==
  ASSUME Signals, RefInv, WireInv, Serving, StreamInv, [Next]_vars
  PROVE  StreamInv'
<1>0. AtRest' /\ (InUse' => InUse)
  BY RestKept, InUseBefore DEF StreamInv
<1>1. ~NoReply
  BY NoErrors DEF Serving
<1>2. CASE \/ Start \/ Sync \/ Close \/ Run \/ neo4j_reset
           \/ \E a \in Actors : ResetBy(a)
  <2>0. Alive
    BY <1>2, ProgramAlive
  <2>1. CASE Start
    BY <1>0, <2>0, <2>1, StreamStart
  <2>2. CASE Sync
    <3>1. CASE \/ sync_enter \/ sync_lock \/ sync_loop \/ send_requests
               \/ sync_exit \/ sync_unlock \/ sync_unlock_ack
      BY <1>0, <2>0, <3>1, StreamQuiet
    <3>2. ~sync_receive_error
      BY <1>1 DEF sync_receive_error
    <3>3. CASE sync_receive
      BY <1>0, <2>0, <3>3, StreamReceive
    <3>4. CASE send_request
      BY <1>0, <2>0, <3>4, StreamSend
    <3>5. CASE new_request
      BY <1>0, <2>0, <3>5, StreamNewRequest
    <3>6. CASE populate
      BY <1>0, <2>0, <3>6, StreamPopulate
    <3>. QED BY <2>2, <3>1, <3>2, <3>3, <3>4, <3>5, <3>6 DEF Sync
  <2>3. CASE Close
    BY <1>0, <2>0, <2>3, StreamClose
  <2>4. CASE Run
    BY <1>0, <2>0, <2>4, StreamRun
  <2>5. CASE neo4j_reset
    BY <1>0, <2>0, <2>5, StreamSignal
  <2>6. ASSUME NEW a \in Actors, ResetBy(a)
        PROVE  StreamInv'
    <3>1. ~reset_error(a)
      BY <1>1 DEF reset_error
    <3>2. CASE reset_receive(a)
      BY <1>0, <2>0, <3>2, StreamResetReceive
    <3>3. CASE reset_reply(a)
      BY <1>0, <2>0, <3>3, StreamResetReply
    <3>. QED BY <2>6, <3>1, <3>2, <3>3 DEF ResetBy
  <2>. QED BY <1>2, <2>1, <2>2, <2>3, <2>4, <2>5, <2>6
<1>3. CASE ServerStep \/ ServerGoodbye
  BY <1>0, <1>3, StreamServer
<1>4. ~Drop
  BY DEF Drop, Signals
<1>5. CASE UNCHANGED vars
  <2>1. UNCHANGED <<request_queue, inflight_requests, streams, pc, call, toClient, server>>
    BY <1>5 DEF vars, connVars, ctlVars, wireVars
  <2>2. InUse' => Numbers'
    BY <1>0, <2>1 DEF StreamInv, Numbers
  <2>. QED BY <1>0, <2>1, <2>2 DEF StreamInv, Alive, OpeningIn
<1>. QED BY <1>2, <1>3, <1>4, <1>5 DEF Next, Continue, Actors, Terminated

(* The records a stream holds are the last it received, in order and with   *)
(* none missing, and when the client comes to the end of a result, the      *)
(* stream has received all of it: append_result and receive_responses,      *)
(* whatever the program does, whatever the server refuses or ignores, and   *)
(* wherever a signal is delivered among those the assumption allows.        *)
THEOREM RecordsTheorem ==
  ASSUME Signals
  PROVE  Spec => []RecordsInOrder
<1>1. Init => Serving
  BY DEF Init, Serving
<1>2. RefInv /\ WireInv /\ [Next]_vars => WireInv'
  BY WireKept
<1>3. RefInv /\ WireInv /\ Serving /\ [Next]_vars => Serving'
  BY ServingKept
<1>4. RefInv /\ WireInv /\ Serving /\ StreamInv /\ [Next]_vars => StreamInv'
  BY StreamKept
<1>5. RefInv /\ WireInv /\ Serving /\ StreamInv => RecordsInOrder
  <2>. SUFFICES ASSUME RefInv, WireInv, Serving, StreamInv PROVE RecordsInOrder
    OBVIOUS
  <2>1. ASSUME NEW s \in Streams, streams[s].streaming
        PROVE  \A i \in DOMAIN streams[s].records :
                 streams[s].records[i] =
                   streams[s].nrecords - Len(streams[s].records) + i
    BY <2>1 DEF StreamInv, Ordered, Orderly
  <2>2. ASSUME NEW s \in Streams, toClient # <<>>, pc["app"] = "reply",
               Head(toClient).type = "SUCCESS", Head(toClient).to.of = s,
               Head(toClient).to.type \in Statements
        PROVE  streams[s].nrecords = Head(toClient).n
    <3>1. Alive /\ ~closed
      BY <2>2 DEF Alive, StreamInv, AtRest, Afterwards
    <3>2. InUse
      BY <2>2, <3>1 DEF InUse, Serving, OutOfLoop, Looping
    <3>3. inflight_requests > 0
      BY <2>2 DEF RefInv, WindowInv, Expecting, Actors
    <3>4. Head(toClient).to = Head(request_queue) /\ request_queue # <<>>
      BY <2>2, <3>1, <3>2, <3>3, ReplyIsForHead, HeadFits DEF WireInv, Wired
    <3>5. Received0(request_queue, streams) = streams[s].nrecords
      BY <2>2, <3>4 DEF Received0
    <3>6. 1 \in DOMAIN toClient /\ Head(toClient) = toClient[1]
      BY <2>2, WindowKnown, TailOf
    <3>7. Numbered(toClient, Received0(request_queue, streams), server)
      BY <3>2 DEF StreamInv, Numbers
    <3>. QED BY <2>2, <3>5, <3>6, <3>7 DEF Numbered, Before
  <2>. QED BY <2>1, <2>2 DEF RecordsInOrder
<1>. QED BY <1>1, <1>2, <1>3, <1>4, <1>5, WireInit, StreamInit, RefInvariant, PTL DEF Spec
-----------------------------------------------------------------------------
(* The types of what a connection keeps.  How many references a stream      *)
(* counts is left open here.                                                *)
Lists == Seq(1 .. MaxRecords)
Lacking == 0 .. 2
Totals == 0 .. MaxRecords
StreamRecord ==
  [open : BOOLEAN, connection : BOOLEAN, refcount : Int, starting : BOOLEAN,
   streaming : BOOLEAN, awaiting_records : Lacking, records : Lists,
   nrecords : Totals, statement_type : BOOLEAN, failure : FailureCodes, lost : BOOLEAN]

LEMMA StreamFields ==
  ASSUME NEW r \in StreamRecord
  PROVE  /\ [r EXCEPT !.streaming = FALSE] \in StreamRecord
         /\ \A e \in FailureCodes : set_failure(r, e) \in StreamRecord
         /\ \A type : set_eval_failure(r, type) \in StreamRecord
         /\ \A e \in FailureCodes : abort_job(r, e) \in StreamRecord
         /\ \A n \in 1 .. MaxRecords :
              r.nrecords < MaxRecords => append_result(r, n) \in StreamRecord
         /\ Started(r) \in StreamRecord
         /\ r.records # <<>> => Pop(r) \in StreamRecord
         /\ \A n \in 0 .. 2 : Await(r, n) \in StreamRecord
         /\ Lost(r) \in StreamRecord
         /\ ret.errno \in FailureCodes => Awaited(r) \in StreamRecord
         /\ Referenced(r) \in StreamRecord
         /\ [r EXCEPT !.refcount = @ - 1] \in StreamRecord
         /\ [r EXCEPT !.refcount = @ - 1, !.streaming = FALSE] \in StreamRecord
         /\ [r EXCEPT !.streaming = FALSE, !.refcount = @ - 1] \in StreamRecord
         /\ [r EXCEPT !.starting = FALSE, !.refcount = @ - 1] \in StreamRecord
         /\ [r EXCEPT !.statement_type = TRUE] \in StreamRecord
<1>. USE DEF StreamRecord
<1>a. [r EXCEPT !.streaming = FALSE] \in StreamRecord
  OBVIOUS
<1>b. [r EXCEPT !.refcount = @ - 1] \in StreamRecord
  OBVIOUS
<1>1. ASSUME NEW t \in StreamRecord
      PROVE  /\ t.refcount \in Int
             /\ \A n \in Int : [t EXCEPT !.refcount = n] \in StreamRecord
             /\ [t EXCEPT !.streaming = FALSE] \in StreamRecord
             /\ [t EXCEPT !.starting = FALSE] \in StreamRecord
  OBVIOUS
<1>c. [r EXCEPT !.refcount = @ - 1, !.streaming = FALSE] \in StreamRecord
  <2>. DEFINE t == [r EXCEPT !.refcount = @ - 1]
  <2>1. t \in StreamRecord
    BY <1>b
  <2>. HIDE DEF t
  <2>2. [t EXCEPT !.streaming = FALSE] \in StreamRecord
    BY <1>1, <2>1
  <2>. QED BY <2>2 DEF t
<1>d. [r EXCEPT !.streaming = FALSE, !.refcount = @ - 1] \in StreamRecord
  <2>. DEFINE t == [r EXCEPT !.streaming = FALSE]
  <2>1. t \in StreamRecord /\ t.refcount = r.refcount
    BY <1>a
  <2>3. r.refcount - 1 \in Int
    BY <1>1
  <2>. HIDE DEF t
  <2>2. [t EXCEPT !.refcount = r.refcount - 1] \in StreamRecord
    BY <1>1, <2>1, <2>3
  <2>. QED BY <2>1, <2>2 DEF t
<1>e. [r EXCEPT !.starting = FALSE, !.refcount = @ - 1] \in StreamRecord
  <2>. DEFINE t == [r EXCEPT !.starting = FALSE]
  <2>1. t \in StreamRecord /\ t.refcount = r.refcount
    OBVIOUS
  <2>3. r.refcount - 1 \in Int
    BY <1>1
  <2>. HIDE DEF t
  <2>2. [t EXCEPT !.refcount = r.refcount - 1] \in StreamRecord
    BY <1>1, <2>1, <2>3
  <2>. QED BY <2>1, <2>2 DEF t
<1>f. [r EXCEPT !.statement_type = TRUE] \in StreamRecord
  OBVIOUS
<1>g. Started(r) \in StreamRecord
  BY DEF Started
<1>h. Lost(r) \in StreamRecord
  BY DEF Lost
<1>i. Referenced(r) \in StreamRecord
  BY DEF Referenced
<1>0. 0 \in Lacking
  BY DEF Lacking
<1>3. \A e \in FailureCodes : set_failure(r, e) \in StreamRecord
  BY <1>0 DEF set_failure
<1>4. \A type : set_eval_failure(r, type) \in StreamRecord
  <2>1. {"TIMED_OUT", "EVALUATION_FAILED"} \subseteq FailureCodes
    BY DEF FailureCodes
  <2>. QED BY <1>3, <2>1 DEF set_eval_failure
<1>5. ASSUME NEW e \in FailureCodes PROVE abort_job(r, e) \in StreamRecord
  <2>1. [r EXCEPT !.connection = FALSE] \in StreamRecord
    OBVIOUS
  <2>. DEFINE t == [r EXCEPT !.connection = FALSE]
  <2>2. t \in StreamRecord
    BY <2>1
  <2>. HIDE DEF t
  <2>3. set_failure(t, e) \in StreamRecord
    BY <1>0, <2>2 DEF set_failure
  <2>. QED BY <2>2, <2>3 DEF abort_job, t
<1>6. ASSUME NEW n \in 1 .. MaxRecords, r.nrecords < MaxRecords
      PROVE  append_result(r, n) \in StreamRecord
  <2>1. Append(r.records, n) \in Lists
    BY DEF Lists
  <2>2. \A a \in Lacking : (IF a > 0 THEN a - 1 ELSE a) \in Lacking
    BY DEF Lacking
  <2>3. r.nrecords + 1 \in Totals
    BY <1>6, SizeAssumption DEF Totals
  <2>. DEFINE l == Append(r.records, n)
              a == IF r.awaiting_records > 0 THEN r.awaiting_records - 1
                   ELSE r.awaiting_records
              m == r.nrecords + 1
  <2>4. l \in Lists /\ a \in Lacking /\ m \in Totals
    BY <2>1, <2>2, <2>3
  <2>. HIDE DEF l, a, m
  <2>5. [r EXCEPT !.records = l, !.nrecords = m, !.awaiting_records = a] \in StreamRecord
    BY <2>4
  <2>6. [r EXCEPT !.nrecords = m] \in StreamRecord
    BY <2>4
  <2>. QED BY <2>5, <2>6 DEF append_result, l, a, m
<1>7. r.records # <<>> => Pop(r) \in StreamRecord
  <2>. SUFFICES ASSUME r.records # <<>> PROVE Pop(r) \in StreamRecord
    OBVIOUS
  <2>1. Tail(r.records) \in Lists
    BY DEF Lists
  <2>. QED BY <2>1 DEF Pop
<1>8. \A n \in 0 .. 2 : Await(r, n) \in StreamRecord
  BY DEF Await, Lacking
<1>9. ret.errno \in FailureCodes => Awaited(r) \in StreamRecord
  BY <1>3 DEF Awaited
<1>. QED BY <1>a, <1>b, <1>c, <1>d, <1>e, <1>f, <1>g, <1>h, <1>i, <1>3, <1>4, <1>5, <1>6, <1>7,
            <1>8, <1>9

LEMMA CallbackFields ==
  ASSUME NEW r \in StreamRecord, NEW type \in ReplyTypes
  PROVE  /\ run_callback(r, type).stream \in StreamRecord
         /\ type \notin {"RECORD", "BADRECORD"} => stream_end(r, type).stream \in StreamRecord
         /\ \A n : (type = "RECORD" => n \in 1 .. MaxRecords /\ r.nrecords < MaxRecords) =>
                     pull_all_callback(r, type, n).stream \in StreamRecord
         /\ discard_all_callback(r, type).stream \in StreamRecord
<1>0. {"EPROTO", "PREVIOUS_FAILURE"} \subseteq FailureCodes
  BY DEF FailureCodes
<1>1. run_callback(r, type).stream \in StreamRecord
  <2>. DEFINE t == [r EXCEPT !.starting = FALSE, !.refcount = @ - 1]
  <2>1. t \in StreamRecord
    BY StreamFields
  <2>2. /\ \A e \in FailureCodes : set_failure(t, e) \in StreamRecord
        /\ set_eval_failure(t, type) \in StreamRecord
    BY <2>1, StreamFields
  <2>3. t.connection = r.connection /\ t.connection \in BOOLEAN
    BY DEF StreamRecord
  <2>. HIDE DEF t
  <2>. QED BY <1>0, <2>1, <2>2, <2>3 DEF run_callback, Result, ReplyTypes, IsFailure, t
<1>2. ASSUME NEW t \in StreamRecord, NEW u \in ReplyTypes \ {"RECORD", "BADRECORD"}
      PROVE  stream_end(t, u).stream \in StreamRecord
  <2>1. /\ \A e \in FailureCodes : set_failure(t, e) \in StreamRecord
        /\ set_eval_failure(t, u) \in StreamRecord
        /\ [t EXCEPT !.statement_type = TRUE] \in StreamRecord
        /\ t.connection \in BOOLEAN
    BY StreamFields DEF StreamRecord
  <2>. QED BY <1>0, <2>1 DEF stream_end, Result, ReplyTypes, IsFailure
<1>. DEFINE s == [r EXCEPT !.refcount = @ - 1, !.streaming = FALSE]
<1>3. s \in StreamRecord
  BY StreamFields
<1>4. ASSUME NEW n, type = "RECORD" => n \in 1 .. MaxRecords /\ r.nrecords < MaxRecords
      PROVE  pull_all_callback(r, type, n).stream \in StreamRecord
  BY <1>0, <1>2, <1>3, <1>4, StreamFields DEF pull_all_callback, Result
<1>5. discard_all_callback(r, type).stream \in StreamRecord
  <2>1. (IF type \in {"RECORD", "BADRECORD"} THEN "INVALID" ELSE type)
          \in ReplyTypes \ {"RECORD", "BADRECORD"}
    BY DEF ReplyTypes
  <2>. QED BY <1>2, <1>3, <2>1 DEF discard_all_callback
<1>. QED BY <1>1, <1>2, <1>4, <1>5
-----------------------------------------------------------------------------
(* The queue and the wire.  BEGIN names the transaction it opens; there are *)
(* as many records as the server sends, numbered from 1.                    *)
Valid == {q \in Requests : q.type = "BEGIN" => q.of \in Txs}
Letters == {m \in Messages : /\ m.n \in 0 .. MaxRecords
                             /\ m.type = "RECORD" => m.n # 0}

WireTyped ==
  /\ request_queue \in Seq(Valid) /\ call.fill \in Valid
  /\ toServer \in Seq(Valid) /\ toClient \in Seq(Letters)
  /\ server.mode \in {"READY", "STREAMING", "FAILED"}
  /\ server.tx \in Txs \cup {None} /\ server.n \in 0 .. MaxRecords
  /\ committed \subseteq Txs

LEMMA RequestsValid ==
  /\ Ack \in Valid /\ Reset \in Valid /\ Goodbye \in Valid
  /\ Request("BLANK", "nothing", None) \in Valid
  /\ \A s \in Streams \cup {None}, t \in Txs \cup {None}, kind \in Statements :
       Request("RUN", s, t) \in Valid /\ Request(kind, s, t) \in Valid
  /\ \A t \in Txs, type \in TxRequests : Request(type, t, t) \in Valid
  /\ Idle.fill \in Valid
<1>1. Idle.fill = Ack
  BY DEF Idle
<1>2. ASSUME NEW t \in Txs, NEW type \in TxRequests
      PROVE  Request(type, t, t) \in Valid
  BY RequestsTyped DEF Valid, Request
<1>3. /\ Ack \in Valid /\ Reset \in Valid /\ Goodbye \in Valid
      /\ Request("BLANK", "nothing", None) \in Valid
  BY RequestsTyped DEF Valid, Request, Ack, Reset, Goodbye
<1>4. ASSUME NEW s \in Streams \cup {None}, NEW t \in Txs \cup {None}, NEW kind \in Statements
      PROVE  Request("RUN", s, t) \in Valid /\ Request(kind, s, t) \in Valid
  BY RequestsTyped DEF Valid, Request, Statements
<1>. QED BY <1>1, <1>2, <1>3, <1>4

LEMMA SequenceKept ==
  ASSUME NEW S, NEW q \in Seq(S)
  PROVE  /\ \A x \in S : Append(q, x) \in Seq(S)
         /\ \A x \in S : [q EXCEPT ![Len(q)] = x] \in Seq(S)
         /\ q # <<>> => Head(q) \in S /\ Tail(q) \in Seq(S)
         /\ <<>> \in Seq(S)
<1>1. ASSUME NEW x \in S PROVE [q EXCEPT ![Len(q)] = x] \in Seq(S)
  <2>. DEFINE r == [q EXCEPT ![Len(q)] = x]
  <2>1. Len(q) \in Nat /\ q \in [1 .. Len(q) -> S] /\ DOMAIN q = 1 .. Len(q)
    OBVIOUS
  <2>2. r = [i \in DOMAIN q |-> IF i = Len(q) THEN x ELSE q[i]]
    BY Zenon
  <2>3. r \in [1 .. Len(q) -> S]
    BY <2>1, <2>2
  <2>. QED BY <2>1, <2>3
<1>. QED BY <1>1, HeadTailProperties

(* The server.                                                              *)
LEMMA ServedTyped ==
  ASSUME WireTyped, NEW q, NEW type \in KnownReplies, NEW n \in 0 .. MaxRecords,
         type = "RECORD" => n # 0,
         NEW mode \in {"READY", "STREAMING", "FAILED"}, NEW tx \in Txs \cup {None},
         Serve(q, type, n, mode, tx), committed' \subseteq Txs,
         UNCHANGED <<request_queue, call>>
  PROVE  WireTyped'
<1>1. q \in Valid /\ Tail(toServer) \in Seq(Valid)
  BY SequenceKept DEF Serve, WireTyped
<1>2. [type |-> type, to |-> q, n |-> n] \in Letters
  <2>1. q \in Requests /\ n \in Nat
    BY <1>1, SizeAssumption DEF Valid
  <2>. QED BY <2>1 DEF Letters, Messages
<1>3. toServer' \in Seq(Valid) /\ toClient' \in Seq(Letters)
  BY <1>1, <1>2, SequenceKept DEF Serve, WireTyped
<1>4. server'.n = n /\ server'.mode = mode /\ server'.tx = tx
  BY DEF Serve
<1>. QED BY <1>3, <1>4 DEF WireTyped

LEMMA ServerTyped ==
  ASSUME WireTyped, ServerStep
  PROVE  WireTyped'
<1>. DEFINE q == Head(toServer)
<1>1. /\ {"SUCCESS", "FAILURE", "TIMEOUT", "IGNORED", "RECORD"} \subseteq KnownReplies
      /\ "INVALID" \in KnownReplies /\ {"BADRECORD", "GARBLED"} \cap Faults \subseteq KnownReplies
  BY DEF KnownReplies
<1>2. /\ server.n \in 0 .. MaxRecords /\ 0 \in 0 .. MaxRecords /\ server.tx \in Txs \cup {None}
      /\ server.n < MaxRecords => server.n + 1 \in 0 .. MaxRecords /\ server.n + 1 # 0
      /\ committed \subseteq Txs /\ None \in Txs \cup {None}
  BY SizeAssumption DEF WireTyped
<1>0. UNCHANGED <<request_queue, call>> /\ q \in Valid
  BY SequenceKept DEF ServerStep, connVars, ctlVars, WireTyped
<1>. DEFINE Modes == {"READY", "STREAMING", "FAILED"}
<1>11. "READY" \in Modes /\ "STREAMING" \in Modes /\ "FAILED" \in Modes
  OBVIOUS
<1>3. CASE ServerReset(q)
  BY <1>0, <1>1, <1>2, <1>3, <1>11, ServedTyped DEF ServerReset
<1>4. CASE ServerRefuse(q)
  BY <1>0, <1>1, <1>2, <1>4, <1>11, ServedTyped DEF ServerRefuse
<1>5. CASE ServerIgnore(q)
  BY <1>0, <1>1, <1>2, <1>5, <1>11, ServedTyped DEF ServerIgnore
<1>6. CASE ServerRun(q)
  BY <1>0, <1>1, <1>2, <1>6, <1>11, ServedTyped DEF ServerRun
<1>7. CASE ServerPull(q)
  BY <1>0, <1>1, <1>2, <1>7, <1>11, ServedTyped DEF ServerPull
<1>8. CASE ServerTx(q)
  <2>1. q.type = "BEGIN" => q.of \in Txs \cup {None}
    BY <1>0 DEF Valid
  <2>2. server.tx # None => committed \cup {server.tx} \subseteq Txs
    BY <1>2
  <2>3. /\ \/ Serve(q, "SUCCESS", 0, "READY", q.of) /\ q.type = "BEGIN"
           \/ Serve(q, "SUCCESS", 0, "READY", None)
        /\ committed' \subseteq Txs
    BY <1>2, <1>8, <2>2 DEF ServerTx
  <2>. QED BY <1>0, <1>1, <1>2, <1>11, <2>1, <2>3, ServedTyped
<1>. QED BY <1>3, <1>4, <1>5, <1>6, <1>7, <1>8 DEF ServerStep
-----------------------------------------------------------------------------
(* The client.                                                              *)
LEMMA WireSame ==
  ASSUME WireTyped, UNCHANGED <<toServer, toClient, server, committed>>,
         \/ request_queue' = request_queue
         \/ request_queue' = <<>>
         \/ request_queue' = Tail(request_queue) /\ request_queue # <<>>
         \/ \E q \in Valid : request_queue' = Append(request_queue, q)
         \/ request_queue' = [request_queue EXCEPT ![Len(request_queue)] = call.fill],
         call'.fill \in Valid
  PROVE  WireTyped'
<1>1. request_queue' \in Seq(Valid)
  <2>0. request_queue \in Seq(Valid) /\ call.fill \in Valid
    BY DEF WireTyped
  <2>1. /\ <<>> \in Seq(Valid)
        /\ request_queue # <<>> => Tail(request_queue) \in Seq(Valid)
        /\ \A q \in Valid : Append(request_queue, q) \in Seq(Valid)
        /\ [request_queue EXCEPT ![Len(request_queue)] = call.fill] \in Seq(Valid)
    BY <2>0, SequenceKept
  <2>. QED BY <2>0, <2>1, Zenon
<1>. QED BY <1>1 DEF WireTyped

LEMMA WireReceives ==
  ASSUME WireTyped, toClient # <<>>, toClient' = Tail(toClient),
         UNCHANGED <<toServer, server, committed, call>>,
         \/ request_queue' = request_queue
         \/ request_queue' = <<>>
         \/ request_queue' = Tail(request_queue) /\ request_queue # <<>>
  PROVE  WireTyped'
<1>1. request_queue' \in Seq(Valid) /\ toClient' \in Seq(Letters)
  BY SequenceKept DEF WireTyped
<1>. QED BY <1>1 DEF WireTyped

LEMMA WireStarts ==
  ASSUME WireTyped, Start
  PROVE  WireTyped'
<1>0. call.fill \in Valid
  BY DEF WireTyped
<1>1. ASSUME NEW s \in Streams, NEW kind \in Statements, NEW t \in Txs \cup {None},
             run_open(s, kind, t)
      PROVE  WireTyped'
  BY <1>0, <1>1, RequestsValid, WireSame DEF run_open, Enter, unchangedByCall, wireVars, Idle
<1>2. ASSUME NEW s \in Streams,
             close_results(s) \/ check_failure(s) \/ consume(s) \/ fetch_next(s) \/ peek(s)
      PROVE  WireTyped'
  BY <1>0, <1>2, RequestsValid, WireSame
     DEF close_results, check_failure, consume, fetch_next, peek, AwaitRecords,
         run_rs_close, Enter,
         unchangedByCall, wireVars, Idle
<1>3. ASSUME NEW t \in Txs, tx_commit(t) \/ tx_rollback(t) \/ free_tx(t)
      PROVE  WireTyped'
  <2>1. Request("COMMIT", t, t) \in Valid /\ Request("ROLLBACK", t, t) \in Valid
    BY RequestsValid DEF TxRequests
  <2>. QED BY <1>0, <1>3, <2>1, WireSame
           DEF tx_commit, tx_rollback, free_tx, Enter, unchangedByCall, wireVars, Idle
<1>4. ASSUME NEW t \in Txs, begin_tx(t) PROVE WireTyped'
  <2>1. Request("BEGIN", t, t) \in Valid
    BY RequestsValid DEF TxRequests
  <2>2. /\ call'.fill = Request("BEGIN", t, t) /\ committed' = committed \ {t}
        /\ UNCHANGED <<request_queue, toServer, toClient, server>>
    BY <1>4 DEF begin_tx, Enter, Idle
  <2>. QED BY <2>1, <2>2 DEF WireTyped
<1>5. CASE close_start
  BY <1>0, <1>5, WireSame DEF close_start, wireVars
<1>. QED BY <1>1, <1>2, <1>3, <1>4, <1>5 DEF Start

LEMMA WireRuns ==
  ASSUME WireTyped, RefInv, Alive, Run
  PROVE  WireTyped'
<1>0. call.fill \in Valid /\ Idle.fill \in Valid /\ call \in Calling
  BY RequestsValid DEF WireTyped, RefInv, WindowInv, WindowTypes
<1>1. CASE session_run \/ session_pull_all
  <2>1. /\ Request("RUN", call.rs, call.tx) \in Valid
        /\ Request(call.kind, call.rs, call.tx) \in Valid
    BY <1>0, RequestsValid DEF Calling
  <2>2. /\ request_queue' = request_queue \/ \E q \in Valid : request_queue' = Append(request_queue, q)
        /\ UNCHANGED <<toServer, toClient, server, committed, call>>
    BY <1>1, <2>1 DEF session_run, session_pull_all, Enqueue, Queue, wireVars
  <2>. QED BY <1>0, <2>2, WireSame
<1>2. CASE session_unlock \/ run_start \/ free_results \/ return_to_stream \/ return_to_tx
  BY <1>0, <1>2, WireSame
     DEF session_unlock, run_start, free_results, return_to_stream, return_to_tx, Enter,
         unchangedByCall, wireVars
<1>3. CASE abandon
  <2>1. call'.fill = call.fill
    BY <1>0, <1>3 DEF abandon, run_rs_close, Enter, Calling
  <2>. QED BY <1>0, <1>3, <2>1, WireSame DEF abandon, unchangedByCall, wireVars
<1>. QED BY <1>1, <1>2, <1>3 DEF Run

LEMMA WireTypedStep ==
  ASSUME WireTyped, RefInv, ~broken, ~NoReply, "DROP" \notin Faults, [Next]_vars
  PROVE  WireTyped'
<1>0. call.fill \in Valid /\ Idle.fill \in Valid /\ call \in Calling
  BY RequestsValid DEF WireTyped, RefInv, WindowInv, WindowTypes
<1>1. CASE Start
  BY <1>1, WireStarts
<1>2. CASE Sync
  <2>1. CASE sync_enter \/ sync_lock \/ sync_loop \/ send_requests \/ sync_exit \/ sync_unlock
    BY <1>0, <2>1, WireSame
       DEF sync_enter, sync_lock, sync_loop, send_requests, sync_exit, sync_unlock, connVars,
           wireVars
  <2>2. CASE sync_unlock_ack
    <3>1. call'.fill = Ack
      BY <1>0, <2>2 DEF sync_unlock_ack, Calling
    <3>. QED BY <2>2, <3>1, RequestsValid, WireSame DEF sync_unlock_ack, wireVars
  <2>3. CASE new_request
    BY <1>0, <2>3, RequestsValid, WireSame DEF new_request, Queue, wireVars
  <2>4. CASE populate
    BY <1>0, <2>4, WireSame DEF populate, wireVars
  <2>5. CASE sync_receive
    <3>1. inflight_requests > 0 /\ toClient # <<>>
      BY <2>5 DEF sync_receive, At, Reply, RefInv, WindowInv, Expecting
    <3>2. request_queue # <<>> /\ Received("app").queue \in {request_queue, Tail(request_queue)}
      <4>1. Len(request_queue) # 0
        BY <3>1, WindowKnown
      <4>. QED BY <4>1 DEF Received
    <3>. QED BY <2>5, <3>1, <3>2, WireReceives DEF sync_receive, FailSync
  <2>6. CASE send_request
    <3>1. request_queue[inflight_requests + 1] \in Valid
      <4>1. inflight_requests + 1 \in 1 .. Len(request_queue)
        BY <2>6, WindowKnown DEF send_request, At, RefInv, WindowInv, Expecting
      <4>. QED BY <4>1, ElementOfSeq DEF WireTyped
    <3>2. /\ toServer' = Append(toServer, request_queue[inflight_requests + 1])
          /\ UNCHANGED <<request_queue, call, toClient, server, committed>>
      BY <2>6 DEF send_request
    <3>3. toServer' \in Seq(Valid)
      BY <3>1, <3>2, SequenceKept DEF WireTyped
    <3>. QED BY <3>2, <3>3 DEF WireTyped
  <2>. QED BY <1>2, <2>1, <2>2, <2>3, <2>4, <2>5, <2>6 DEF Sync, sync_receive_error
<1>3. CASE Run
  BY <1>3, ProgramAlive, WireRuns
<1>4. ASSUME NEW a \in Actors, ResetBy(a) PROVE WireTyped'
  <2>1. ~reset_error(a)
    BY DEF reset_error
  <2>2. CASE reset_receive(a)
    <3>1. inflight_requests > 0 /\ toClient # <<>>
      BY <2>2 DEF reset_receive, Resetting, Reply, RefInv, WindowInv, Expecting, Actors
    <3>2. request_queue # <<>> /\ Received(a).queue \in {request_queue, Tail(request_queue)}
      <4>1. Len(request_queue) # 0
        BY <3>1, WindowKnown
      <4>. QED BY <4>1 DEF Received
    <3>. QED BY <2>2, <3>1, <3>2, WireReceives DEF reset_receive, EndReset
  <2>3. CASE reset_reply(a)
    BY <2>3, WireReceives DEF reset_reply, EndReset, Reply
  <2>. QED BY <1>4, <2>1, <2>2, <2>3 DEF ResetBy
<1>5. CASE Close
  <2>1. CASE close_receive
    <3>1. inflight_requests > 0 /\ toClient # <<>>
      BY <2>1 DEF close_receive, At, Reply, RefInv, WindowInv, Expecting
    <3>2. request_queue # <<>> /\ Received("app").queue \in {request_queue, Tail(request_queue)}
      <4>1. Len(request_queue) # 0
        BY <3>1, WindowKnown
      <4>. QED BY <4>1 DEF Received
    <3>. QED BY <2>1, <3>1, <3>2, WireReceives DEF close_receive
  <2>2. CASE close_end
    <3>1. toServer' \in Seq(Valid) /\ request_queue' = <<>>
      BY <2>2, RequestsValid, SequenceKept DEF close_end, WireTyped
    <3>. QED BY <2>2, <3>1, SequenceKept DEF close_end, WireTyped
  <2>. QED BY <1>5, <2>1, <2>2 DEF Close, close_receive_error
<1>6. CASE neo4j_reset
  <2>1. toServer' \in Seq(Valid)
    BY <1>6, RequestsValid, SequenceKept DEF neo4j_reset, WireTyped
  <2>. QED BY <1>6, <2>1 DEF neo4j_reset, WireTyped
<1>7. CASE ServerStep
  BY <1>7, ServerTyped
<1>8. CASE ServerGoodbye
  <2>1. server'.mode = "READY" /\ server'.tx = None /\ server'.n = 0 /\ toServer' = <<>>
    BY <1>8 DEF ServerGoodbye
  <2>2. 0 \in 0 .. MaxRecords
    BY SizeAssumption
  <2>. QED BY <1>8, <2>1, <2>2, SequenceKept DEF ServerGoodbye, WireTyped, connVars, ctlVars
<1>9. CASE Terminated \/ UNCHANGED vars
  BY <1>9 DEF Terminated, vars, connVars, ctlVars, wireVars, WireTyped
<1>. QED BY <1>1, <1>2, <1>3, <1>4, <1>5, <1>6, <1>7, <1>8, <1>9
         DEF Next, Continue, Drop, Actors
-----------------------------------------------------------------------------
(* The flags, the jobs, the transactions and the result of the call.        *)
FlagsTyped ==
  /\ {reset_requested, failed, poison_tx, closed, broken} \subseteq BOOLEAN
  /\ jobs \in Seq(Streams) /\ txs \in [Txs -> TxType]
  /\ failure \in [Actors -> BOOLEAN] /\ resets \in 0 .. MaxResets

ReturnTyped == ret.rc \in {-1, 0} /\ ret.errno \in FailureCodes

LEMMA TxFields ==
  ASSUME NEW tx \in TxType
  PROVE  /\ TxFailed(tx, "FAILURE") \in TxType /\ TxFailed(tx, "TIMEOUT") \in TxType
         /\ RunFailed(tx) \in TxType /\ RunTimedOut(tx) \in TxType
         /\ \A rc : Begun(tx, rc) \in TxType /\ Ended(tx, rc) \in TxType
         /\ [tx EXCEPT !.is_open = TRUE] \in TxType
         /\ [tx EXCEPT !.is_open = FALSE] \in TxType
         /\ [tx EXCEPT !.failed = TRUE] \in TxType
         /\ [tx EXCEPT !.is_open = FALSE, !.failed = FALSE] \in TxType
         /\ NoTx \in TxType /\ new_transaction \in TxType
  BY DEF TxType, TxFailed, RunFailed, RunTimedOut, Begun, Ended, NoTx, new_transaction

LEMMA TxSet ==
  ASSUME NEW f \in [Txs -> TxType], NEW k, NEW tx, k \in Txs => tx \in TxType
  PROVE  [f EXCEPT ![k] = tx] \in [Txs -> TxType]
<1>1. [f EXCEPT ![k] = tx] = [y \in Txs |-> IF y = k THEN tx ELSE f[y]]
  OBVIOUS
<1>. QED BY <1>1

LEMMA TxsReceived ==
  ASSUME RefInv, Alive, NEW a \in Actors, inflight_requests > 0, Reply,
         txs \in [Txs -> TxType]
  PROVE  Received(a).txs \in [Txs -> TxType]
<1>. DEFINE m == Head(toClient)
            h == Head(request_queue)
            cb == Callback(h, m, streams, txs)
<1>1. h \in Requests /\ Fits(h)
  BY HeadFits
<1>2. m \in Messages /\ m.type # "GARBLED"
  <2>1. toClient # <<>> /\ m.type # "GARBLED" /\ toClient \in Seq(Messages)
    BY WindowKnown DEF Reply, Garbled
  <2>. QED BY <2>1, TailOf
<1>3. Received(a).txs = txs \/ Received(a).txs = cb.txs
  BY DEF Received
<1>. HIDE DEF m, h
<1>4. CASE h.type \in TxRequests
  <2>1. h.type \notin {"RUN"} \cup Statements
    BY <1>4 DEF TxRequests, Statements
  <2>2. cb.txs = [txs EXCEPT ![h.of] = tx_callback(h.type, txs[h.of], m.type).tx]
    BY <1>4, <2>1 DEF Callback, Statements, TxRequests
  <2>. HIDE DEF cb
  <2>3. m.type \in {"SUCCESS", "FAILURE", "TIMEOUT", "IGNORED", "RECORD", "BADRECORD", "INVALID"}
    BY <1>2 DEF Messages, KnownReplies
  <2>4. ASSUME NEW tx \in TxType PROVE tx_callback(h.type, tx, m.type).tx \in TxType
    BY <1>4, <2>3, TxFields DEF tx_callback, TxRequests
  <2>. QED BY <1>3, <2>2, <2>4, TxSet
<1>5. CASE h.type \notin TxRequests
  <2>1. cb.txs = txs
    BY <1>1, <1>5 DEF Callback, Fits, Answerable
  <2>. QED BY <1>3, <2>1
<1>. QED BY <1>4, <1>5

LEMMA FlagsStarted ==
  ASSUME FlagsTyped, RefInv, Start
  PROVE  FlagsTyped'
<1>. USE DEF FlagsTyped
<1>1. ASSUME NEW s \in Streams, NEW kind \in Statements, NEW t \in Txs \cup {None},
             run_open(s, kind, t)
      PROVE  FlagsTyped'
  <2>1. t \in Txs => RunFailed(txs[t]) \in TxType
    BY TxFields
  <2>2. [txs EXCEPT ![t] = RunFailed(@)] \in [Txs -> TxType]
    BY <2>1, TxSet
  <2>3. <<s>> \o jobs \in Seq(Streams)
    OBVIOUS
  <2>. QED BY <1>1, <2>2, <2>3 DEF run_open, unchangedByCall, wireVars
<1>2. ASSUME NEW s \in Streams,
             close_results(s) \/ check_failure(s) \/ consume(s) \/ fetch_next(s) \/ peek(s)
      PROVE  FlagsTyped'
  BY <1>2
     DEF close_results, check_failure, consume, fetch_next, peek, AwaitRecords,
         unchangedByCall, wireVars
<1>3. ASSUME NEW t \in Txs, begin_tx(t) \/ tx_commit(t) \/ tx_rollback(t) \/ free_tx(t)
      PROVE  FlagsTyped'
  <2>1. /\ [txs EXCEPT ![t] = new_transaction] \in [Txs -> TxType]
        /\ [txs EXCEPT ![t] = NoTx] \in [Txs -> TxType]
    BY TxFields, TxSet
  <2>2. txs' \in [Txs -> TxType]
    BY <1>3, <2>1 DEF begin_tx, tx_commit, tx_rollback, free_tx
  <2>. QED BY <1>3, <2>2 DEF begin_tx, tx_commit, tx_rollback, free_tx, unchangedByCall, wireVars
<1>4. CASE close_start
  <2>1. [failure EXCEPT !["app"] = FALSE] \in [Actors -> BOOLEAN] /\ <<>> \in Seq(Streams)
    BY DEF Actors
  <2>. QED BY <1>4, <2>1 DEF close_start, wireVars
<1>. QED BY <1>1, <1>2, <1>3, <1>4 DEF Start

LEMMA FlagsRun ==
  ASSUME FlagsTyped, RefInv, Alive, Run
  PROVE  FlagsTyped'
<1>. USE DEF FlagsTyped
<1>1. CASE session_run \/ session_pull_all \/ session_unlock
  BY <1>1 DEF session_run, session_pull_all, session_unlock, wireVars
<1>2. CASE run_start \/ abandon
  BY <1>2 DEF run_start, abandon, unchangedByCall, wireVars
<1>3. ASSUME NEW k, k \in Txs => txs[k] \in TxType
      PROVE  /\ [txs EXCEPT ![k] = RunFailed(@)] \in [Txs -> TxType]
             /\ [txs EXCEPT ![k] = RunTimedOut(@)] \in [Txs -> TxType]
             /\ \A rc : /\ [txs EXCEPT ![k] = Begun(@, rc)] \in [Txs -> TxType]
                        /\ [txs EXCEPT ![k] = Ended(@, rc)] \in [Txs -> TxType]
  BY <1>3, TxFields, TxSet
<1>4. CASE free_results
  <2>1. txs' \in [Txs -> TxType]
    BY <1>3, <1>4 DEF free_results
  <2>2. jobs' \in Seq(Streams)
    <3>1. DetachJob(call.rs) \in Seq(Streams)
      BY FilterElements DEF DetachJob
    <3>. QED BY <1>4, <3>1 DEF free_results
  <2>. QED BY <1>4, <2>1, <2>2 DEF free_results, unchangedByCall, wireVars
<1>5. CASE return_to_stream
  <2>1. txs' \in [Txs -> TxType]
    BY <1>3, <1>5 DEF return_to_stream
  <2>. QED BY <1>5, <2>1 DEF return_to_stream, unchangedByCall, wireVars
<1>6. CASE return_to_tx
  <2>1. txs' \in [Txs -> TxType]
    <3>1. txs' = [txs EXCEPT ![call.tx] = IF call.op = "begin" THEN Begun(@, ret.rc)
                                          ELSE Ended(@, ret.rc)]
      BY <1>6 DEF return_to_tx
    <3>2. \/ txs' = [txs EXCEPT ![call.tx] = Begun(@, ret.rc)]
          \/ txs' = [txs EXCEPT ![call.tx] = Ended(@, ret.rc)]
      BY <3>1
    <3>3. /\ [txs EXCEPT ![call.tx] = Begun(@, ret.rc)] \in [Txs -> TxType]
          /\ [txs EXCEPT ![call.tx] = Ended(@, ret.rc)] \in [Txs -> TxType]
      <4>1. call.tx \in Txs => txs[call.tx] \in TxType
        OBVIOUS
      <4>. QED BY <1>3, <4>1
    <3>. QED BY <3>2, <3>3, Zenon
  <2>. QED BY <1>6, <2>1 DEF return_to_tx, unchangedByCall, wireVars
<1>. QED BY <1>1, <1>2, <1>4, <1>5, <1>6 DEF Run

\* What a reply does to a local `failure' is to set it, or to leave it.
LEMMA FailureSet ==
  ASSUME failure \in [Actors -> BOOLEAN], NEW a \in Actors
  PROVE  /\ [failure EXCEPT ![a] = FALSE] \in [Actors -> BOOLEAN]
         /\ [failure EXCEPT ![a] = Received(a).failure] \in [Actors -> BOOLEAN]
<1>1. Received(a).failure \in BOOLEAN
  BY DEF Received, IsFailure
<1>. QED BY <1>1

LEMMA FlagsStep ==
  ASSUME FlagsTyped, RefInv, ~NoReply, [Next]_vars
  PROVE  FlagsTyped'
<1>. USE DEF FlagsTyped
<1>0. "app" \in Actors /\ "sig" \in Actors /\ <<>> \in Seq(Streams)
  BY DEF Actors
<1>1. CASE Start
  BY <1>1, FlagsStarted
<1>2. CASE Run
  BY <1>2, ProgramAlive, FlagsRun
<1>3. CASE Sync
  <2>1. CASE \/ sync_enter \/ sync_lock \/ send_requests \/ send_request \/ sync_unlock
             \/ sync_unlock_ack \/ new_request \/ populate
    BY <2>1
       DEF sync_enter, sync_lock, send_requests, send_request, sync_unlock,
           sync_unlock_ack, new_request, populate, connVars, wireVars
  <2>2. CASE sync_loop \/ sync_exit
    <3>1. failure' \in [Actors -> BOOLEAN]
      BY <1>0, <2>2, FailureSet DEF sync_loop, sync_exit
    <3>2. jobs' \in Seq(Streams)
      BY <1>0, <2>2 DEF sync_loop, sync_exit, connVars
    <3>. QED BY <2>2, <3>1, <3>2 DEF sync_loop, sync_exit, connVars, wireVars
  <2>3. CASE sync_receive
    <3>1. Alive /\ inflight_requests > 0 /\ Reply
      BY <2>3 DEF sync_receive, At, Alive, RefInv, WindowInv, Expecting
    <3>2. txs' \in [Txs -> TxType]
      <4>1. txs' = Received("app").txs
        BY <2>3 DEF sync_receive
      <4>. QED BY <1>0, <3>1, <4>1, TxsReceived
    <3>3. failure' \in [Actors -> BOOLEAN]
      <4>1. failure' = [failure EXCEPT !["app"] = Received("app").failure]
        BY <2>3 DEF sync_receive
      <4>. QED BY <1>0, <4>1, FailureSet
    <3>4. failed' \in BOOLEAN
      BY <2>3 DEF sync_receive
    <3>. QED BY <2>3, <3>2, <3>3, <3>4 DEF sync_receive
  <2>. QED BY <1>3, <2>1, <2>2, <2>3 DEF Sync, sync_receive_error
<1>4. ASSUME NEW a \in Actors, ResetBy(a) PROVE FlagsTyped'
  <2>1. CASE reset_receive(a)
    <3>1. Alive /\ inflight_requests > 0 /\ Reply
      BY <2>1, ProgramAlive
         DEF ResetBy, reset_receive, Resetting, RefInv, WindowInv, Expecting, Actors
    <3>2. txs' \in [Txs -> TxType]
      <4>1. txs' = Received(a).txs
        BY <2>1 DEF reset_receive
      <4>. QED BY <3>1, <4>1, TxsReceived
    <3>3. failure' \in [Actors -> BOOLEAN]
      <4>1. failure' = [failure EXCEPT ![a] = Received(a).failure]
        BY <2>1 DEF reset_receive
      <4>. QED BY <4>1, FailureSet
    <3>4. {failed', reset_requested', poison_tx'} \subseteq BOOLEAN
      BY <2>1 DEF reset_receive, EndReset
    <3>. QED BY <2>1, <3>2, <3>3, <3>4 DEF reset_receive
  <2>2. CASE reset_reply(a)
    <3>1. {failed', reset_requested', poison_tx'} \subseteq BOOLEAN
      BY <2>2 DEF reset_reply, EndReset
    <3>. QED BY <2>2, <3>1 DEF reset_reply
  <2>. QED BY <1>4, <2>1, <2>2 DEF ResetBy, reset_error
<1>5. CASE Close
  <2>1. CASE close_receive
    <3>1. Alive /\ inflight_requests > 0 /\ Reply
      BY <2>1 DEF close_receive, At, Alive, RefInv, WindowInv, Expecting
    <3>2. txs' \in [Txs -> TxType]
      <4>1. txs' = Received("app").txs
        BY <2>1 DEF close_receive
      <4>. QED BY <1>0, <3>1, <4>1, TxsReceived
    <3>3. failure' \in [Actors -> BOOLEAN]
      <4>1. failure' = [failure EXCEPT !["app"] = Received("app").failure]
        BY <2>1 DEF close_receive
      <4>. QED BY <1>0, <4>1, FailureSet
    <3>4. failed' \in BOOLEAN
      BY <2>1 DEF close_receive
    <3>. QED BY <2>1, <3>2, <3>3, <3>4 DEF close_receive
  <2>2. CASE close_end
    BY <2>2 DEF close_end
  <2>. QED BY <1>5, <2>1, <2>2 DEF Close, close_receive_error
<1>6. CASE neo4j_reset
  <2>1. failure' \in [Actors -> BOOLEAN]
    BY <1>0, <1>6, FailureSet DEF neo4j_reset
  <2>2. jobs' \in Seq(Streams)
    BY <1>0, <1>6 DEF neo4j_reset
  <2>3. resets' \in 0 .. MaxResets
    BY <1>6, SizeAssumption DEF neo4j_reset
  <2>4. {failed', reset_requested'} \subseteq BOOLEAN
    BY <1>6 DEF neo4j_reset
  <2>. QED BY <1>6, <2>1, <2>2, <2>3, <2>4 DEF neo4j_reset
<1>7. CASE ServerStep \/ ServerGoodbye \/ Drop
  BY <1>7 DEF ServerStep, ServerGoodbye, Drop, connVars, ctlVars
<1>8. CASE Terminated \/ UNCHANGED vars
  BY <1>8 DEF Terminated, vars, connVars, ctlVars, wireVars
<1>. QED BY <1>1, <1>2, <1>3, <1>4, <1>5, <1>6, <1>7, <1>8
         DEF Next, Continue, Actors
-----------------------------------------------------------------------------
LEMMA ReturnStep ==
  ASSUME ReturnTyped, RefInv, [Next]_vars
  PROVE  ReturnTyped'
<1>. USE DEF ReturnTyped
<1>0. /\ {"EINVAL", "SESSION_FAILED", "SESSION_BUSY", "EPROTO", "CONNECTION_CLOSED", "ENOBUFS",
          "SESSION_RESET"} \subseteq FailureCodes
      /\ QueueError \in FailureCodes
  BY DEF FailureCodes, QueueError
<1>1. CASE Start
  BY <1>1
     DEF Start, run_open, close_results, check_failure, consume, fetch_next, peek, AwaitRecords,
         begin_tx, tx_commit, tx_rollback, free_tx, close_start, unchangedByCall
<1>2. CASE Sync
  BY <1>0, <1>2
     DEF Sync, sync_enter, sync_lock, sync_loop, sync_receive, sync_receive_error,
         send_requests, send_request, sync_exit, sync_unlock, sync_unlock_ack, new_request,
         populate, Return, FailSync
<1>3. CASE Run
  BY <1>0, <1>3
     DEF Run, session_run, session_pull_all, session_unlock, run_start, abandon,
         free_results, return_to_stream, return_to_tx, Enqueue, unchangedByCall
<1>4. ASSUME NEW a \in Actors, ResetBy(a) PROVE ReturnTyped'
  BY <1>0, <1>4 DEF ResetBy, reset_receive, reset_reply, reset_error, EndReset
<1>5. CASE Close \/ neo4j_reset
  BY <1>5 DEF Close, close_receive, close_receive_error, close_end, neo4j_reset
<1>6. CASE ServerStep \/ ServerGoodbye \/ Drop
  BY <1>6 DEF ServerStep, ServerGoodbye, Drop, ctlVars
<1>7. CASE Terminated \/ UNCHANGED vars
  BY <1>7 DEF Terminated, vars, ctlVars
<1>. QED BY <1>1, <1>2, <1>3, <1>4, <1>5, <1>6, <1>7 DEF Next, Continue, Actors
-----------------------------------------------------------------------------
(* The streams.  One that is not open counts nothing, and no count is       *)
(* larger than the program and the two requests of a stream make it.        *)
Recorded(st) == st \in [Streams -> StreamRecord]
Shut(st) == \A s \in Streams : ~st[s].open => st[s].refcount = 0
Small(st) == \A s \in Streams : st[s].refcount \in -1 .. 3
StreamsTyped(st) == Recorded(st) /\ Shut(st) /\ Small(st)

LEMMA StreamSet ==
  ASSUME NEW f, Recorded(f), NEW k, NEW r, k \in Streams => r \in StreamRecord
  PROVE  Recorded([f EXCEPT ![k] = r])
<1>1. f = [y \in Streams |-> f[y]] /\ \A y \in Streams : f[y] \in StreamRecord
  BY DEF Recorded
<1>2. [f EXCEPT ![k] = r] = [y \in Streams |-> IF y = k THEN r ELSE f[y]]
  BY <1>1
<1>. QED BY <1>1, <1>2 DEF Recorded

LEMMA AbortedRecorded ==
  ASSUME Recorded(streams), NEW e \in FailureCodes
  PROVE  Recorded(AbortedJobs(e))
<1>1. \A s \in Streams : abort_job(streams[s], e) \in StreamRecord
  BY StreamFields DEF Recorded
<1>2. Recorded([streams EXCEPT ![Head(jobs)] = abort_job(@, e)])
  BY <1>1, StreamSet
<1>. QED BY <1>2 DEF AbortedJobs

LEMMA DrainedRecorded ==
  ASSUME NEW q, NEW st, Recorded(st)
  PROVE  Recorded(DrainedStreams(q, st))
<1>. DEFINE After(s) == IF HasRun(q, s) THEN run_callback(st[s], "NULL").stream ELSE st[s]
<1>1. /\ DrainedStreams(q, st) =
           [s \in Streams |-> IF HasPull(q, s)
                              THEN pull_all_callback(After(s), "NULL", 0).stream ELSE After(s)]
  BY DEF DrainedStreams, HasRun, HasPull, Has
<1>2. "NULL" \in ReplyTypes /\ "NULL" # "RECORD"
  BY DEF ReplyTypes
<1>3. ASSUME NEW s \in Streams PROVE After(s) \in StreamRecord
  BY <1>2, CallbackFields DEF Recorded
<1>4. ASSUME NEW s \in Streams
      PROVE  pull_all_callback(After(s), "NULL", 0).stream \in StreamRecord
  BY <1>2, <1>3, CallbackFields
<1>. HIDE DEF After
<1>. QED BY <1>1, <1>3, <1>4 DEF Recorded

\* A callback changes the stream its request is for, and no other.
LEMMA CallbackRecorded ==
  ASSUME NEW h \in Requests, Fits(h), Recorded(streams), NEW m \in Messages,
         m.type # "GARBLED",
         m.type = "RECORD" /\ h.type = "PULL_ALL" =>
           m.n \in 1 .. MaxRecords /\ streams[h.of].nrecords < MaxRecords
  PROVE  LET st2 == Callback(h, m, streams, txs).streams
         IN  /\ ~OfStream(h) => st2 = streams
             /\ OfStream(h) => \E t \in StreamRecord : st2 = [streams EXCEPT ![h.of] = t]
<1>. DEFINE st2 == Callback(h, m, streams, txs).streams
<1>1. m.type \in ReplyTypes
  <2>1. m.type \in KnownReplies
    BY DEF Messages
  <2>. QED BY <2>1 DEF KnownReplies, ReplyTypes
<1>2. CASE OfStream(h)
  <2>1. h.of \in Streams /\ streams[h.of] \in StreamRecord
    BY <1>2 DEF Fits, Recorded
  <2>2. CASE h.type = "RUN"
    <3>. DEFINE t == run_callback(streams[h.of], m.type).stream
    <3>1. st2 = [streams EXCEPT ![h.of] = t]
      BY <2>2 DEF Callback, Statements, TxRequests
    <3>2. t \in StreamRecord
      BY <1>1, <2>1, CallbackFields
    <3>. HIDE DEF t, st2
    <3>. QED BY <1>2, <3>1, <3>2 DEF st2
  <2>3. CASE h.type = "PULL_ALL"
    <3>. DEFINE t == pull_all_callback(streams[h.of], m.type, m.n).stream
    <3>1. st2 = [streams EXCEPT ![h.of] = t]
      BY <2>3 DEF Callback, Statements, TxRequests
    <3>2. t \in StreamRecord
      BY <1>1, <2>1, <2>3, CallbackFields
    <3>. HIDE DEF t, st2
    <3>. QED BY <1>2, <3>1, <3>2 DEF st2
  <2>4. CASE h.type = "DISCARD_ALL"
    <3>. DEFINE t == discard_all_callback(streams[h.of], m.type).stream
    <3>1. st2 = [streams EXCEPT ![h.of] = t]
      BY <2>4 DEF Callback, Statements, TxRequests
    <3>2. t \in StreamRecord
      BY <1>1, <2>1, CallbackFields
    <3>. HIDE DEF t, st2
    <3>. QED BY <1>2, <3>1, <3>2 DEF st2
  <2>. QED BY <1>2, <2>2, <2>3, <2>4 DEF OfStream, Statements
<1>3. CASE ~OfStream(h)
  <2>1. st2 = streams
    BY <1>3 DEF Fits, Callback, OfStream, Answerable, Statements, TxRequests
  <2>. HIDE DEF st2
  <2>. QED BY <1>3, <2>1 DEF st2
<1>. QED BY <1>2, <1>3

\* The next reply, taken from a server that keeps to its numbers.
LEMMA ReceivedRecorded ==
  ASSUME Ready, NEW a \in Actors, Receives(a), Recorded(streams), WireTyped
  PROVE  LET st2 == Received(a).streams
             h == Head(request_queue)
         IN  /\ ~OfStream(h) => st2 = streams
             /\ st2 # streams => \E t \in StreamRecord : st2 = [streams EXCEPT ![h.of] = t]
<1>. DEFINE m == Head(toClient)
            h == Head(request_queue)
            cb == Callback(h, m, streams, txs)
<1>1. /\ RefInv /\ Alive /\ Mirrors /\ Records
      /\ inflight_requests > 0 /\ toClient # <<>> /\ Reply
  BY DEF Ready, Wired, Receives, Reply
<1>2. h \in Requests /\ Fits(h) /\ request_queue # <<>>
  BY <1>1, HeadFits
<1>3. m \in Letters /\ m \in Messages /\ m.type # "GARBLED" /\ m.to = h
      /\ m = toClient[1] /\ 1 \in DOMAIN toClient
  <2>1. m \in Letters
    BY <1>1, SequenceKept DEF WireTyped
  <2>2. m = toClient[1] /\ 1 \in DOMAIN toClient /\ m \in Messages
    BY <1>1, WindowKnown, TailOf
  <2>. QED BY <1>1, <2>1, <2>2, ReplyIsForHead DEF Reply, Garbled
<1>4. ASSUME m.type = "RECORD", h.type = "PULL_ALL"
      PROVE  m.n \in 1 .. MaxRecords /\ streams[h.of].nrecords < MaxRecords
  <2>1. Received0(request_queue, streams) = streams[h.of].nrecords
    BY <1>2, <1>4 DEF Received0, Statements
  <2>2. Numbered(toClient, Received0(request_queue, streams), server)
    BY DEF Ready, Numbers
  <2>3. m.n = streams[h.of].nrecords + 1
    BY <1>3, <1>4, <2>1, <2>2 DEF Numbered, Before
  <2>4. m.n \in 1 .. MaxRecords
    BY <1>3, <1>4, SizeAssumption DEF Letters
  <2>5. streams[h.of].nrecords \in Nat
    <3>1. h.of \in Streams
      BY <1>2, <1>4 DEF Fits, OfStream, Statements
    <3>. QED BY <3>1, SizeAssumption DEF Recorded, StreamRecord, Totals
  <2>. QED BY <2>3, <2>4, <2>5, SizeAssumption
<1>5. /\ ~OfStream(h) => cb.streams = streams
      /\ OfStream(h) => \E t \in StreamRecord : cb.streams = [streams EXCEPT ![h.of] = t]
  BY <1>2, <1>3, <1>4, CallbackRecorded
<1>6. Received(a).streams = streams \/ Received(a).streams = cb.streams
  BY DEF Received
<1>. HIDE DEF m, h, cb
<1>7. /\ ~OfStream(h) => Received(a).streams = streams
      /\ Received(a).streams # streams =>
           \E t \in StreamRecord : Received(a).streams = [streams EXCEPT ![h.of] = t]
  BY <1>5, <1>6
<1>. QED BY <1>7 DEF h
-----------------------------------------------------------------------------
LEMMA SmallBalanced ==
  ASSUME "BADRECORD" \notin Faults, NEW q, NEW st, NEW own,
         Balanced(q, st, own), \A s \in Streams : own[s] \in -1 .. 1, Shut(st)
  PROVE  Small(st)
<1>. SUFFICES ASSUME NEW s \in Streams PROVE st[s].refcount \in -1 .. 3
  BY DEF Small
<1>1. Pointers(q, s) \in {0, 1, 2} /\ own[s] \in -1 .. 1
  BY PointersTyped
<1>2. st[s].open => st[s].refcount = Pointers(q, s) + own[s]
  BY DEF Balanced, Balance
<1>3. ~st[s].open => st[s].refcount = 0
  BY DEF Shut
<1>4. CASE st[s].open
  BY <1>1, <1>2, <1>4
<1>5. CASE ~st[s].open
  BY <1>3, <1>5
<1>. QED BY <1>4, <1>5

LEMMA OwnSmall == \A s \in Streams : Own[s] \in -1 .. 1 /\ (Own')[s] \in -1 .. 1
<1>1. ASSUME NEW a \in BOOLEAN, NEW b \in BOOLEAN PROVE Bit(a) - Bit(b) \in -1 .. 1
  BY DEF Bit
<1>2. \A s \in Streams : /\ Closing(s) \in BOOLEAN /\ Taking(s) \in BOOLEAN
                         /\ Closing(s)' \in BOOLEAN /\ Taking(s)' \in BOOLEAN
  BY DEF Closing, Taking
<1>. QED BY <1>1, <1>2 DEF Own, Bit

\* The counts of the streams of a program that goes on are those of its queue.
LEMMA ShutSmall ==
  ASSUME Signals, RefInv', Alive', Recorded(streams'), Shut(streams')
  PROVE  StreamsTyped(streams')
<1>1. Balanced(request_queue', streams', Own')
  BY DEF RefInv, Knows, Accounts
<1>2. "BADRECORD" \notin Faults
  BY DEF Signals
<1>3. Small(streams')
  BY <1>1, <1>2, OwnSmall, SmallBalanced
<1>. QED BY <1>3 DEF StreamsTyped

LEMMA KeptTyped ==
  ASSUME StreamsTyped(streams), AllKept(streams, streams'), Recorded(streams')
  PROVE  StreamsTyped(streams')
<1>1. ASSUME NEW s \in Streams
      PROVE  /\ streams'[s].open = streams[s].open
             /\ streams'[s].refcount = streams[s].refcount + 0
             /\ streams[s].refcount \in -1 .. 3
  BY DEF AllKept, Counts, StreamsTyped, Small
<1>2. \A s \in Streams : streams'[s].refcount = streams[s].refcount
  BY <1>1
<1>. QED BY <1>1, <1>2 DEF StreamsTyped, Shut, Small

LEMMA StreamsKnown ==
  ASSUME Recorded(streams)
  PROVE  StreamsOK(streams) /\ DOMAIN streams = Streams
         /\ \A s \in Streams : streams[s] \in StreamRecord /\ Counted(streams[s])
<1>1. DOMAIN streams = Streams /\ \A s \in Streams : streams[s] \in StreamRecord
  BY DEF Recorded
<1>2. \A r \in StreamRecord : Counted(r)
  BY DEF StreamRecord, Counted
<1>. QED BY <1>1, <1>2 DEF StreamsOK

LEMMA ReceivedTyped ==
  ASSUME Ready, NEW a \in Actors, Receives(a), StreamsTyped(streams), WireTyped
  PROVE  LET r == Received(a)
         IN  /\ StreamsTyped(r.streams)
             /\ r.queue \in Seq(Requests) /\ Balanced(r.queue, r.streams, Own)
             /\ StreamsOK(r.streams)
<1>. DEFINE r == Received(a)
            h == Head(request_queue)
<1>1. /\ RefInv /\ Alive /\ Knows /\ inflight_requests > 0 /\ Reply
  BY DEF Ready, Wired, Receives, RefInv
<1>2. /\ Accounts(r.queue, r.streams, Own, pc["app"] = "fill") /\ r.queue \in Seq(Requests)
      /\ \A s \in Streams : r.streams[s].open = streams[s].open
  BY <1>1, Receiving
<1>3. /\ ~OfStream(h) => r.streams = streams
      /\ r.streams # streams => \E t \in StreamRecord : r.streams = [streams EXCEPT ![h.of] = t]
  BY ReceivedRecorded DEF StreamsTyped
<1>4. Fits(h) /\ h = request_queue[1] /\ 1 \in DOMAIN request_queue
  BY <1>1, HeadFits
<1>. HIDE DEF r, h
<1>5. Recorded(r.streams)
  <2>1. Recorded(streams)
    BY DEF StreamsTyped
  <2>2. CASE r.streams # streams
    <3>1. PICK t \in StreamRecord : r.streams = [streams EXCEPT ![h.of] = t]
      BY <1>3, <2>2
    <3>2. Recorded([streams EXCEPT ![h.of] = t])
      BY <2>1, StreamSet
    <3>. QED BY <3>1, <3>2
  <2>. QED BY <2>1, <2>2
<1>6. ASSUME NEW s \in Streams, ~streams[s].open PROVE r.streams[s] = streams[s]
  <2>1. CASE r.streams = streams
    BY <2>1
  <2>2. CASE r.streams # streams
    <3>1. OfStream(h)
      BY <1>3, <2>2
    <3>2. PICK t \in StreamRecord : r.streams = [streams EXCEPT ![h.of] = t]
      BY <1>3, <2>2
    <3>3. h.of # s
      <4>1. ASSUME h.of = s PROVE FALSE
        <5>1. Pointers(request_queue, s) = 0
          BY <1>1, <1>6 DEF Knows, Accounts, Balanced, Balance
        <5>2. ~HasRun(request_queue, s) /\ ~HasPull(request_queue, s)
          BY <5>1, PointersNone
        <5>. QED BY <1>4, <3>1, <4>1, <5>2 DEF HasRun, HasPull, Has, OfStream
      <4>. QED BY <4>1
    <3>. QED BY <3>2, <3>3 DEF StreamsTyped, Recorded
  <2>. QED BY <2>1, <2>2
<1>7. Shut(r.streams)
  BY <1>2, <1>6 DEF StreamsTyped, Shut
<1>8. "BADRECORD" \notin Faults
  BY DEF Ready, Signals
<1>9. Small(r.streams)
  BY <1>2, <1>7, <1>8, OwnSmall, SmallBalanced DEF Accounts
<1>. QED BY <1>2, <1>5, <1>7, <1>9 DEF StreamsTyped, Accounts, r

LEMMA DrainedTyped ==
  ASSUME "BADRECORD" \notin Faults, NEW q \in Seq(Requests), NEW st, StreamsTyped(st),
         StreamsOK(st), Balanced(q, st, Own)
  PROVE  StreamsTyped(DrainedStreams(q, st))
<1>. DEFINE d == DrainedStreams(q, st)
<1>1. Recorded(d)
  BY DrainedRecorded DEF StreamsTyped
<1>2. Accounts(<<>>, d, Own, FALSE) /\ \A s \in Streams : d[s].open = st[s].open
  BY Drained, OwnTyped
<1>3. ASSUME NEW s \in Streams, ~st[s].open PROVE d[s] = st[s]
  <2>1. Pointers(q, s) = 0
    BY <1>3 DEF Balanced, Balance
  <2>2. ~HasRun(q, s) /\ ~HasPull(q, s)
    BY <2>1, PointersNone
  <2>. QED BY <2>2 DEF DrainedStreams, HasRun, HasPull, Has
<1>. HIDE DEF d
<1>4. Shut(d)
  BY <1>2, <1>3 DEF StreamsTyped, Shut
<1>5. Small(d)
  BY <1>2, <1>4, OwnSmall, SmallBalanced DEF Accounts
<1>. QED BY <1>1, <1>4, <1>5 DEF StreamsTyped, d
-----------------------------------------------------------------------------
LEMMA OpenedRecord == run_rs_open \in StreamRecord /\ NoStream \in StreamRecord
<1>1. NoStream \in StreamRecord
  <2>1. 0 \in Lacking /\ 0 \in Totals /\ <<>> \in Lists /\ "none" \in FailureCodes /\ 0 \in Int
    BY SizeAssumption DEF Lacking, Totals, Lists, FailureCodes
  <2>. QED BY <2>1 DEF NoStream, StreamRecord
<1>2. run_rs_open \in StreamRecord
  <2>. DEFINE t == [NoStream EXCEPT !.open = TRUE, !.connection = TRUE]
  <2>1. t \in StreamRecord
    BY <1>1 DEF StreamRecord
  <2>2. run_rs_open = [t EXCEPT !.refcount = 1]
    BY DEF run_rs_open, NoStream
  <2>. HIDE DEF t
  <2>3. [t EXCEPT !.refcount = 1] \in StreamRecord
    BY <2>1 DEF StreamRecord
  <2>. QED BY <2>2, <2>3
<1>. QED BY <1>1, <1>2

\* One stream is changed, and is open, or counts nothing.
LEMMA OneTyped ==
  ASSUME Signals, RefInv', Alive', StreamsTyped(streams), NEW s \in Streams,
         NEW t \in StreamRecord, t.open \/ t.refcount = 0,
         streams' = [streams EXCEPT ![s] = t]
  PROVE  StreamsTyped(streams')
<1>1. Recorded(streams')
  BY StreamSet DEF StreamsTyped
<1>2. Shut(streams')
  BY DEF StreamsTyped, Shut, Recorded
<1>. QED BY <1>1, <1>2, ShutSmall

\* One stream is changed, but not its count.
LEMMA OneKept ==
  ASSUME StreamsTyped(streams), NEW s \in Streams, NEW t \in StreamRecord,
         Counts(streams[s], t, 0), streams' = [streams EXCEPT ![s] = t]
  PROVE  StreamsTyped(streams')
<1>1. Recorded(streams')
  BY StreamSet DEF StreamsTyped
<1>2. AllKept(streams, streams')
  BY StreamsKnown, AllKeptSame DEF StreamsTyped
<1>. QED BY <1>1, <1>2, KeptTyped

LEMMA AbortedTyped ==
  ASSUME StreamsTyped(streams), NEW e \in FailureCodes, streams' = AbortedJobs(e)
  PROVE  StreamsTyped(streams')
<1>1. Recorded(streams')
  BY AbortedRecorded DEF StreamsTyped
<1>2. AllKept(streams, streams')
  BY StreamsKnown, AllKeptAborted DEF StreamsTyped
<1>. QED BY <1>1, <1>2, KeptTyped

LEMMA StreamsStarted ==
  ASSUME Signals, RefInv, Alive, StreamsTyped(streams), RefInv', Start
  PROVE  StreamsTyped(streams')
<1>0. /\ Recorded(streams) /\ DOMAIN streams = Streams
      /\ \A s \in Streams : streams[s] \in StreamRecord /\ Counted(streams[s])
      /\ pc \in [Actors -> Labels] /\ "app" \in Actors
  BY StreamsKnown, WindowKnown DEF StreamsTyped
<1>1. ASSUME NEW s \in Streams, NEW kind \in Statements, NEW t \in Txs \cup {None},
             run_open(s, kind, t), ~failed
      PROVE  StreamsTyped(streams')
  <2>1. streams' = [streams EXCEPT ![s] = run_rs_open] /\ pc'["app"] = "run"
    BY <1>0, <1>1 DEF run_open, Enter, Goto
  <2>2. run_rs_open \in StreamRecord /\ run_rs_open.open
    BY OpenedRecord DEF run_rs_open, NoStream
  <2>. QED BY <2>1, <2>2, OneTyped DEF Alive
<1>2. ASSUME NEW s \in Streams, close_results(s) PROVE StreamsTyped(streams')
  <2>. DEFINE t == [streams[s] EXCEPT !.streaming = FALSE, !.refcount = @ - 1]
  <2>1. /\ streams' = [streams EXCEPT ![s].streaming = FALSE, ![s].refcount = @ - 1]
        /\ pc'["app"] \in {"enter", "free"} /\ streams[s].open
    BY <1>0, <1>2 DEF close_results, run_rs_close, Enter, Goto, Held
  <2>2. streams' = [streams EXCEPT ![s] = t]
    BY <1>0, <2>1
  <2>3. t \in StreamRecord /\ t.open
    <3>1. t \in StreamRecord
      BY <1>0, StreamFields
    <3>2. t.open = streams[s].open
      BY <1>0 DEF StreamRecord
    <3>. QED BY <2>1, <3>1, <3>2
  <2>. HIDE DEF t
  <2>. QED BY <2>1, <2>2, <2>3, OneTyped DEF Alive
<1>3. ASSUME NEW s \in Streams, fetch_next(s) PROVE StreamsTyped(streams')
  <2>1. CASE streams[s].records # <<>> /\ streams' = [streams EXCEPT ![s] = Pop(@)]
    <3>1. Pop(streams[s]) \in StreamRecord /\ Counts(streams[s], Pop(streams[s]), 0)
      BY <1>0, <2>1, StreamFields, Kept
    <3>. QED BY <2>1, <3>1, OneKept
  <2>2. CASE streams' = [streams EXCEPT ![s] = Await(@, 1)]
    <3>0. 1 \in 0 .. 2
      OBVIOUS
    <3>1. Await(streams[s], 1) \in StreamRecord /\ Counts(streams[s], Await(streams[s], 1), 0)
      BY <1>0, <3>0, StreamFields, Kept
    <3>. QED BY <2>2, <3>1, OneKept
  <2>3. CASE streams' = streams
    BY <2>3
  <2>. QED BY <1>3, <2>1, <2>2, <2>3 DEF fetch_next, AwaitRecords
<1>4. ASSUME NEW s \in Streams, peek(s), streams' # streams PROVE StreamsTyped(streams')
  <2>. DEFINE n == 2 - Len(streams[s].records)
  <2>1. streams' = [streams EXCEPT ![s] = Await(@, n)] /\ Len(streams[s].records) <= 1
    BY <1>4 DEF peek, AwaitRecords
  <2>2. Len(streams[s].records) \in Nat
    BY <1>0 DEF StreamRecord, Lists
  <2>3. n \in 0 .. 2
    BY <2>1, <2>2
  <2>. HIDE DEF n
  <2>4. Await(streams[s], n) \in StreamRecord /\ Counts(streams[s], Await(streams[s], n), 0)
    BY <1>0, <2>3, StreamFields, Kept
  <2>. QED BY <2>1, <2>4, OneKept
<1>5. CASE close_start
  BY <1>5, AbortedTyped DEF close_start, FailureCodes
<1>6. CASE streams' = streams
  BY <1>6
<1>. QED BY <1>1, <1>2, <1>3, <1>4, <1>5, <1>6
         DEF Start, run_open, check_failure, consume, begin_tx, tx_commit, tx_rollback, free_tx

LEMMA StreamsRun ==
  ASSUME Signals, RefInv, Alive, StreamsTyped(streams), ReturnTyped, RefInv', Run
  PROVE  StreamsTyped(streams')
<1>0. /\ Recorded(streams) /\ DOMAIN streams = Streams
      /\ \A s \in Streams : streams[s] \in StreamRecord /\ Counted(streams[s])
      /\ pc \in [Actors -> Labels] /\ "app" \in Actors /\ Phases
      /\ call.rs \in Streams \cup {None}
  BY StreamsKnown, WindowKnown DEF StreamsTyped, RefInv, Knows, WindowInv, WindowTypes, Calling
<1>1. CASE streams' = streams
  BY <1>1
<1>2. CASE session_unlock /\ ret.rc >= 0
  <2>1. /\ streams' = [streams EXCEPT ![call.rs] = Referenced(@)]
        /\ pc["app"] \in Opening /\ pc'["app"] \in {"pull", "start"}
    BY <1>0, <1>2 DEF session_unlock, At, Goto, Opening, ReturnTyped
  <2>2. call.rs \in Streams /\ streams[call.rs].open
    BY <1>0, <2>1 DEF Phases
  <2>3. Referenced(streams[call.rs]) \in StreamRecord /\ Referenced(streams[call.rs]).open
    BY <1>0, <2>2, StreamFields, Kept DEF Counts
  <2>. QED BY <2>1, <2>2, <2>3, OneTyped DEF Alive
<1>3. CASE run_start
  <2>1. call.rs \in Streams /\ streams' = [streams EXCEPT ![call.rs] = Started(@)]
    BY <1>0, <1>3 DEF run_start, At, Phases, Opening
  <2>2. Started(streams[call.rs]) \in StreamRecord
        /\ Counts(streams[call.rs], Started(streams[call.rs]), 0)
    BY <1>0, <2>1, StreamFields, Kept
  <2>. QED BY <2>1, <2>2, OneKept
<1>4. CASE abandon
  <2>. DEFINE t == [streams[call.rs] EXCEPT !.streaming = FALSE, !.refcount = @ - 1]
  <2>1. /\ streams' = [streams EXCEPT ![call.rs].streaming = FALSE, ![call.rs].refcount = @ - 1]
        /\ pc'["app"] \in {"enter", "free"} /\ streams[call.rs].open /\ call.rs \in Streams
    BY <1>0, <1>4 DEF abandon, run_rs_close, Enter, Goto, At, Phases, Opening
  <2>2. streams' = [streams EXCEPT ![call.rs] = t]
    BY <1>0, <2>1
  <2>3. t \in StreamRecord /\ t.open
    <3>1. t \in StreamRecord
      BY <1>0, <2>1, StreamFields
    <3>2. t.open = streams[call.rs].open
      BY <1>0, <2>1 DEF StreamRecord
    <3>. QED BY <2>1, <3>1, <3>2
  <2>. HIDE DEF t
  <2>. QED BY <2>1, <2>2, <2>3, OneTyped DEF Alive
<1>5. CASE free_results /\ streams' # streams
  <2>1. /\ streams' = [streams EXCEPT ![call.rs] = NoStream] /\ pc'["app"] = "idle"
        /\ call.rs \in Streams
    BY <1>0, <1>5 DEF free_results, Enter, Goto, At, Phases
  <2>2. NoStream \in StreamRecord /\ NoStream.refcount = 0
    BY OpenedRecord DEF NoStream
  <2>. QED BY <2>1, <2>2, OneTyped DEF Alive
<1>6. CASE return_to_stream
  <2>. DEFINE s == Awaited(streams[call.rs])
  <2>1. call.rs \in Streams
    BY <1>0, <1>6 DEF return_to_stream
  <2>2. s \in StreamRecord /\ Counts(streams[call.rs], s, 0) /\ Counted(s)
    BY <1>0, <2>1, StreamFields, Kept DEF ReturnTyped, Counts
  <2>3. \E t : /\ streams' = [streams EXCEPT ![call.rs] = t]
               /\ t = s \/ t = Lost(s) \/ (s.records # <<>> /\ t = Pop(s))
    <3>. DEFINE lacking == \/ call.op = "fetch" /\ s.records = <<>>
                           \/ call.op = "peek" /\ Len(s.records) <= 1
                t == IF call.op = "fetch" /\ ret.rc = 0 /\ ~lacking THEN Pop(s)
                     ELSE IF call.op = "run" /\ s.failure = "TIMED_OUT" THEN Lost(s) ELSE s
    <3>1. streams' = [streams EXCEPT ![call.rs] = t]
      BY <1>6 DEF return_to_stream
    <3>2. t = s \/ t = Lost(s) \/ (s.records # <<>> /\ t = Pop(s))
      OBVIOUS
    <3>. HIDE DEF t
    <3>. QED BY <3>1, <3>2
  <2>4. PICK t : /\ streams' = [streams EXCEPT ![call.rs] = t]
                 /\ t = s \/ t = Lost(s) \/ (s.records # <<>> /\ t = Pop(s))
    BY <2>3
  <2>. HIDE DEF s
  <2>5. t \in StreamRecord /\ Counts(s, t, 0)
    BY <2>2, <2>4, StreamFields, Kept
  <2>6. Counts(streams[call.rs], t, 0)
    BY <1>0, <2>1, <2>2, <2>5 DEF Counts, Counted
  <2>. QED BY <2>1, <2>4, <2>5, <2>6, OneKept
<1>7. CASE session_run \/ session_pull_all \/ return_to_tx
  BY <1>1, <1>7 DEF session_run, session_pull_all, return_to_tx
<1>8. CASE session_unlock
  <2>1. CASE ret.rc < 0
    BY <1>1, <1>8, <2>1 DEF session_unlock
  <2>2. ret.rc < 0 \/ ret.rc >= 0
    BY DEF ReturnTyped
  <2>. QED BY <1>2, <1>8, <2>1, <2>2
<1>. QED BY <1>1, <1>3, <1>4, <1>5, <1>6, <1>7, <1>8 DEF Run

LEMMA StreamsStep ==
  ASSUME Signals, RefInv, WireInv, Serving, StreamInv, WireTyped, ReturnTyped,
         StreamsTyped(streams), RefInv', [Next]_vars
  PROVE  StreamsTyped(streams')
<1>0. ~NoReply /\ "BADRECORD" \notin Faults /\ ~broken
  BY NoErrors DEF Serving, Signals
<1>01. StreamsOK(streams)
  BY StreamsKnown DEF StreamsTyped
<1>02. Alive => request_queue \in Seq(Requests) /\ Balanced(request_queue, streams, Own)
  BY WindowKnown DEF RefInv, Knows, Accounts
<1>1. CASE Start
  BY <1>1, ProgramAlive, StreamsStarted
<1>2. CASE Run
  BY <1>2, ProgramAlive, StreamsRun
<1>3. CASE sync_receive \/ close_receive
  <2>. DEFINE r == Received("app")
  <2>1. Receives("app") /\ Alive /\ "app" \in Actors
    BY <1>3 DEF sync_receive, close_receive, At, Receives, Reading, Actors, Alive, RefInv,
                WindowInv, Expecting
  <2>2. Ready
    BY <2>1, Busy
  <2>3. /\ StreamsTyped(r.streams) /\ StreamsOK(r.streams)
        /\ r.queue \in Seq(Requests) /\ Balanced(r.queue, r.streams, Own)
    BY <2>1, <2>2, ReceivedTyped
  <2>4. StreamsTyped(DrainedStreams(r.queue, r.streams))
    BY <1>0, <2>3, DrainedTyped
  <2>5. \/ streams' = streams \/ streams' = r.streams
        \/ streams' = DrainedStreams(r.queue, r.streams)
    BY <1>3 DEF sync_receive, close_receive, FailSync
  <2>. HIDE DEF r
  <2>. QED BY <2>3, <2>4, <2>5
<1>4. ASSUME NEW a \in Actors, ResetBy(a) PROVE StreamsTyped(streams')
  <2>1. CASE reset_receive(a)
    <3>. DEFINE r == Received(a)
    <3>1. Receives(a) /\ Alive
      BY <1>4, <2>1, ProgramAlive
         DEF reset_receive, Resetting, Receives, Reading, Actors, RefInv, WindowInv, Expecting
    <3>2. Ready
      BY <3>1, Busy
    <3>3. /\ StreamsTyped(r.streams) /\ StreamsOK(r.streams)
          /\ r.queue \in Seq(Requests) /\ Balanced(r.queue, r.streams, Own)
      BY <3>1, <3>2, ReceivedTyped
    <3>4. StreamsTyped(DrainedStreams(r.queue, r.streams))
      BY <1>0, <3>3, DrainedTyped
    <3>5. \/ streams' = streams \/ streams' = r.streams
          \/ streams' = DrainedStreams(r.queue, r.streams)
      BY <2>1 DEF reset_receive, EndReset
    <3>. HIDE DEF r
    <3>. QED BY <3>3, <3>4, <3>5
  <2>2. CASE reset_reply(a)
    <3>1. streams' = DrainedStreams(request_queue, streams)
      BY <2>2 DEF reset_reply, EndReset
    <3>2. Alive
      BY <1>4, ProgramAlive
    <3>. QED BY <1>0, <1>01, <1>02, <3>1, <3>2, DrainedTyped
  <2>. QED BY <1>0, <1>4, <2>1, <2>2 DEF ResetBy, reset_error
<1>5. CASE close_end
  <2>1. streams' = DrainedStreams(request_queue, streams) /\ Alive
    BY <1>5 DEF close_end, At, Alive
  <2>. QED BY <1>0, <1>01, <1>02, <2>1, DrainedTyped
<1>6. CASE streams' = streams
  BY <1>6
<1>7. CASE sync_exit \/ neo4j_reset
  <2>1. streams' = streams \/ streams' = AbortedJobs("SESSION_RESET")
    BY <1>7 DEF sync_exit, neo4j_reset
  <2>. QED BY <2>1, AbortedTyped DEF FailureCodes
<1>8. CASE send_request
  BY <1>0, <1>6, <1>8 DEF send_request
<1>9. CASE ServerStep \/ ServerGoodbye \/ Drop \/ Terminated \/ UNCHANGED vars
  BY <1>6, <1>9 DEF ServerStep, ServerGoodbye, Drop, Terminated, vars
<1>10. CASE Sync
  <2>1. ~sync_receive_error
    BY <1>0 DEF sync_receive_error
  <2>. QED BY <1>3, <1>6, <1>7, <1>8, <1>10, <2>1
           DEF Sync, sync_enter, sync_lock, sync_loop, send_requests, sync_unlock,
               sync_unlock_ack, new_request, populate
<1>11. CASE Close
  <2>1. ~close_receive_error
    BY <1>0 DEF close_receive_error
  <2>. QED BY <1>3, <1>5, <1>11, <2>1 DEF Close
<1>. QED BY <1>1, <1>2, <1>4, <1>7, <1>9, <1>10, <1>11 DEF Next, Continue, Actors
-----------------------------------------------------------------------------
(* Together.                                                                *)
TypeInv == WireTyped /\ FlagsTyped /\ ReturnTyped /\ StreamsTyped(streams)

LEMMA TypeInit == Init => TypeInv
<1>. SUFFICES ASSUME Init PROVE TypeInv
  OBVIOUS
<1>1. WireTyped
  BY RequestsValid, SequenceKept, SizeAssumption DEF Init, WireTyped, Idle
<1>2. FlagsTyped
  <2>1. NoTx \in TxType
    BY TxFields DEF NoTx, TxType
  <2>2. resets \in 0 .. MaxResets
    <3>1. 0 \in 0 .. MaxResets
      BY SizeAssumption
    <3>. QED BY <3>1 DEF Init
  <2>3. jobs \in Seq(Streams)
    BY DEF Init
  <2>4. {reset_requested, failed, poison_tx, closed, broken} \subseteq BOOLEAN
    BY DEF Init
  <2>5. txs \in [Txs -> TxType] /\ failure \in [Actors -> BOOLEAN]
    BY <2>1 DEF Init
  <2>. QED BY <2>2, <2>3, <2>4, <2>5 DEF FlagsTyped
<1>3. ReturnTyped
  BY DEF Init, ReturnTyped, FailureCodes
<1>4. StreamsTyped(streams)
  <2>1. streams = [s \in Streams |-> NoStream] /\ NoStream \in StreamRecord
        /\ NoStream.refcount = 0
    BY OpenedRecord DEF Init, NoStream
  <2>. QED BY <2>1 DEF StreamsTyped, Recorded, Shut, Small
<1>. QED BY <1>1, <1>2, <1>3, <1>4 DEF TypeInv

LEMMA TypeKept ==
  ASSUME Signals, RefInv, WireInv, Serving, StreamInv, TypeInv, [Next]_vars
  PROVE  TypeInv'
<1>1. RefInv' /\ ~NoReply /\ ~broken /\ "DROP" \notin Faults
  BY RefStep, NoErrors DEF Serving, Signals
<1>2. WireTyped'
  BY <1>1, WireTypedStep DEF TypeInv
<1>3. FlagsTyped'
  BY <1>1, FlagsStep DEF TypeInv
<1>4. ReturnTyped'
  BY ReturnStep DEF TypeInv
<1>5. StreamsTyped(streams')
  BY <1>1, StreamsStep DEF TypeInv
<1>. QED BY <1>2, <1>3, <1>4, <1>5 DEF TypeInv

LEMMA TypedStreams ==
  ASSUME StreamsTyped(streams)
  PROVE  streams \in [Streams -> StreamType(MaxRecords)]
<1>1. ASSUME NEW r \in StreamRecord, r.refcount \in -1 .. 3
      PROVE  r \in StreamType(MaxRecords)
  BY <1>1 DEF StreamRecord, StreamType, Lacking, Totals, Lists
<1>2. \A s \in Streams : streams[s] \in StreamRecord /\ streams[s].refcount \in -1 .. 3
  BY DEF StreamsTyped, Recorded, Small
<1>3. \A s \in Streams : streams[s] \in StreamType(MaxRecords)
  BY <1>1, <1>2
<1>4. streams = [s \in Streams |-> streams[s]]
  BY DEF StreamsTyped, Recorded
<1>. QED BY <1>3, <1>4

(* Every variable has its type: in particular no stream counts fewer        *)
(* references than -1 or more than 3 (run_rs_open, session_run and          *)
(* session_pull_all take them, the callbacks give them back), no list of    *)
(* records outgrows what the server sends, and what the connection keeps of *)
(* its jobs is a list of streams, whatever the program does and wherever a  *)
(* signal is delivered among those the assumption allows.                   *)
THEOREM TypesTheorem ==
  ASSUME Signals
  PROVE  Spec => []TypeOK
<1>1. Init => Serving
  BY DEF Init, Serving
<1>2. RefInv /\ WireInv /\ [Next]_vars => WireInv'
  BY WireKept
<1>3. RefInv /\ WireInv /\ Serving /\ [Next]_vars => Serving'
  BY ServingKept
<1>4. RefInv /\ WireInv /\ Serving /\ StreamInv /\ [Next]_vars => StreamInv'
  BY StreamKept
<1>5. RefInv /\ WireInv /\ Serving /\ StreamInv /\ TypeInv /\ [Next]_vars => TypeInv'
  BY TypeKept
<1>6. RefInv /\ TypeInv => TypeOK
  <2>. SUFFICES ASSUME RefInv, TypeInv PROVE TypeOK
    OBVIOUS
  <2>1. /\ {reset_requested, failed, poison_tx, closed, broken} \subseteq BOOLEAN
        /\ jobs \in Seq(Streams) /\ txs \in [Txs -> TxType]
        /\ failure \in [Actors -> BOOLEAN] /\ resets \in 0 .. MaxResets
        /\ ret.rc \in {-1, 0} /\ ret.errno \in FailureCodes
        /\ server.mode \in {"READY", "STREAMING", "FAILED"}
        /\ server.tx \in Txs \cup {None} /\ server.n \in 0 .. MaxRecords
        /\ committed \subseteq Txs /\ toClient \in Seq(Letters)
    BY DEF TypeInv, FlagsTyped, ReturnTyped, WireTyped
  <2>2. /\ processing \in BOOLEAN /\ pc["app"] \in Labels /\ pc["sig"] \in {"idle", "rrecv", "rfinal"}
        /\ request_queue \in Seq(Requests) /\ inflight_requests \in Nat /\ call \in Calling
        /\ toServer \in Seq(Requests)
    BY DEF RefInv, WindowInv, WindowTypes, LockInv, WireTypes, Actors
  <2>3. call.rs \in Streams \cup {None} /\ call.tx \in Txs \cup {None} /\ call.fill \in Requests
    BY <2>2 DEF Calling
  <2>4. toClient \in Seq(Replies)
    <3>1. Letters \subseteq Replies
      BY DEF Letters, Messages, Replies, KnownReplies
    <3>. QED BY <2>1, <3>1
  <2>5. streams \in [Streams -> StreamType(MaxRecords)]
    BY TypedStreams DEF TypeInv
  <2>. QED BY <2>1, <2>2, <2>3, <2>4, <2>5 DEF TypeOK
<1>. QED BY <1>1, <1>2, <1>3, <1>4, <1>5, <1>6, WireInit, StreamInit, TypeInit, RefInvariant, PTL
         DEF Spec
-----------------------------------------------------------------------------
(* A stream that waits for a reply has its request queued, unless it has    *)
(* been cut off from the connection.                                        *)
Framed(r) == {"open", "connection", "streaming", "failure"} \subseteq DOMAIN r
Fades(r, t) ==
  /\ Framed(t) /\ t.open = r.open
  /\ t.connection => r.connection
  /\ t.streaming => r.streaming /\ t.failure = r.failure
FramedIn(st) == DOMAIN st = Streams /\ \A s \in Streams : Framed(st[s])
AllFade(st, st2) == DOMAIN st2 = Streams /\ \A s \in Streams : Fades(st[s], st2[s])

LEMMA FadesKept ==
  ASSUME NEW r, Framed(r)
  PROVE  /\ Fades(r, r)
         /\ \A e : Fades(r, set_failure(r, e))
         /\ \A type : Fades(r, set_eval_failure(r, type))
         /\ \A e : Fades(r, abort_job(r, e))
         /\ \A n : Fades(r, append_result(r, n))
         /\ Fades(r, Pop(r))
         /\ \A n : Fades(r, Await(r, n))
         /\ Fades(r, Lost(r))
         /\ Fades(r, Awaited(r))
         /\ Fades(r, Referenced(r))
<1>. USE DEF Fades, Framed
<1>1. Fades(r, r)
  OBVIOUS
<1>2. \A e : Fades(r, set_failure(r, e))
  BY DEF set_failure
<1>3. \A type : Fades(r, set_eval_failure(r, type))
  BY <1>1, <1>2 DEF set_eval_failure
<1>4. \A e : Fades(r, abort_job(r, e))
  BY DEF abort_job, set_failure
<1>5. \A n : Fades(r, append_result(r, n))
  BY DEF append_result
<1>6. Fades(r, Pop(r))
  BY DEF Pop
<1>7. \A n : Fades(r, Await(r, n))
  BY DEF Await
<1>8. Fades(r, Lost(r))
  BY DEF Lost
<1>9. Fades(r, Awaited(r))
  BY <1>1, <1>2 DEF Awaited
<1>10. Fades(r, Referenced(r))
  BY DEF Referenced
<1>. QED BY <1>1, <1>2, <1>3, <1>4, <1>5, <1>6, <1>7, <1>8, <1>9, <1>10

LEMMA FadesFields ==
  ASSUME NEW r, Framed(r)
  PROVE  /\ Fades(r, [r EXCEPT !.streaming = FALSE, !.refcount = @ - 1])
         /\ Fades(r, [r EXCEPT !.refcount = @ - 1, !.streaming = FALSE])
         /\ Fades(r, [r EXCEPT !.starting = FALSE, !.refcount = @ - 1])
         /\ Fades(r, [r EXCEPT !.statement_type = TRUE])
         /\ [r EXCEPT !.streaming = FALSE, !.refcount = @ - 1].streaming = FALSE
         /\ [r EXCEPT !.refcount = @ - 1, !.streaming = FALSE].streaming = FALSE
         /\ \A e : set_failure(r, e).streaming = FALSE
  BY DEF Fades, Framed, set_failure

LEMMA FadesTwice ==
  ASSUME NEW r, NEW t, NEW u, Fades(r, t), Fades(t, u)
  PROVE  Fades(r, u)
  BY DEF Fades

LEMMA RunFades ==
  ASSUME NEW r, Framed(r), NEW type \in ReplyTypes
  PROVE  Fades(r, run_callback(r, type).stream)
<1>. DEFINE t == [r EXCEPT !.starting = FALSE, !.refcount = @ - 1]
            c == run_callback(r, type)
<1>1. Fades(r, t) /\ Framed(t)
  BY FadesFields DEF Fades
<1>. HIDE DEF t
<1>2. \E u, rc : c = Result(u, rc) /\ Fades(t, u)
  <2>1. CASE type = "NULL" \/ ~t.connection
    <3>1. c = Result(t, 0)
      BY <2>1 DEF run_callback, t, IsFailure
    <3>. QED BY <1>1, <3>1, FadesKept
  <2>2. CASE type # "NULL" /\ t.connection
    <3>1. CASE type \in {"FAILURE", "TIMEOUT"}
      <4>1. c = Result(set_eval_failure(t, type), 0)
        BY <2>2, <3>1 DEF run_callback, t, IsFailure
      <4>. QED BY <1>1, <4>1, FadesKept
    <3>2. CASE type = "IGNORED"
      <4>1. c = Result(IF t.failure = "none" THEN set_failure(t, "PREVIOUS_FAILURE")
                       ELSE t, 0)
        BY <2>2, <3>2 DEF run_callback, t, IsFailure
      <4>. QED BY <1>1, <4>1, FadesKept
    <3>3. CASE type = "SUCCESS"
      <4>1. c = Result(t, 0)
        BY <2>2, <3>3 DEF run_callback, t, IsFailure
      <4>. QED BY <1>1, <4>1, FadesKept
    <3>4. CASE type \in {"RECORD", "BADRECORD", "INVALID"}
      <4>1. c = Result(set_failure(t, "EPROTO"), -1)
        BY <2>2, <3>4 DEF run_callback, t, IsFailure
      <4>. QED BY <1>1, <4>1, FadesKept
    <3>. QED BY <2>2, <3>1, <3>2, <3>3, <3>4 DEF ReplyTypes
  <2>. QED BY <2>1, <2>2
<1>. HIDE DEF c
<1>3. PICK u, rc : c = Result(u, rc) /\ Fades(t, u)
  BY <1>2
<1>4. c.stream = u
  BY <1>3 DEF Result
<1>. QED BY <1>1, <1>3, <1>4, FadesTwice DEF c

LEMMA EndFades ==
  ASSUME NEW t, Framed(t), NEW type \in ReplyTypes \ {"RECORD", "BADRECORD"}
  PROVE  Fades(t, stream_end(t, type).stream)
<1>. DEFINE c == stream_end(t, type)
<1>1. CASE type = "NULL" \/ ~t.connection
  <2>1. c = Result(t, 0)
    BY <1>1 DEF stream_end, IsFailure
  <2>. QED BY <2>1, FadesKept DEF Result
<1>2. CASE type # "NULL" /\ t.connection
  <2>1. CASE type = "IGNORED"
    <3>1. c = IF t.failure = "none" THEN Result(set_failure(t, "EPROTO"), -1)
              ELSE Result(t, 0)
      BY <1>2, <2>1 DEF stream_end, IsFailure
    <3>. QED BY <3>1, FadesKept DEF Result
  <2>2. CASE type \in {"FAILURE", "TIMEOUT"}
    <3>1. c = [Result(set_eval_failure(t, type), 0) EXCEPT !.assert = t.failure = "none"]
      BY <1>2, <2>2 DEF stream_end, IsFailure
    <3>2. c.stream = set_eval_failure(t, type)
      BY <3>1 DEF Result
    <3>. QED BY <3>2, FadesKept
  <2>3. CASE type = "SUCCESS"
    <3>1. c = [Result([t EXCEPT !.statement_type = TRUE], 0)
                 EXCEPT !.assert = t.failure = "none"]
      BY <1>2, <2>3 DEF stream_end, IsFailure
    <3>2. c.stream = [t EXCEPT !.statement_type = TRUE]
      BY <3>1 DEF Result
    <3>. QED BY <3>2, FadesFields
  <2>4. CASE type = "INVALID"
    <3>1. c = [Result(set_failure(t, "EPROTO"), -1) EXCEPT !.assert = t.failure = "none"]
      BY <1>2, <2>4 DEF stream_end, IsFailure
    <3>2. c.stream = set_failure(t, "EPROTO")
      BY <3>1 DEF Result
    <3>. QED BY <3>2, FadesKept
  <2>. QED BY <1>2, <2>1, <2>2, <2>3, <2>4 DEF ReplyTypes
<1>. QED BY <1>1, <1>2

\* The last reply to PULL_ALL or DISCARD_ALL ends the stream.
LEMMA PullFades ==
  ASSUME NEW r, Framed(r), NEW type \in ReplyTypes, NEW n
  PROVE  LET t == pull_all_callback(r, type, n).stream
         IN  Fades(r, t) /\ (type # "RECORD" => ~t.streaming)
<1>. DEFINE u == [r EXCEPT !.refcount = @ - 1, !.streaming = FALSE]
            c == pull_all_callback(r, type, n)
<1>1. Fades(r, u) /\ Framed(u) /\ u.streaming = FALSE
  BY FadesFields DEF Fades
<1>2. CASE type = "RECORD"
  <2>1. c = Result(append_result(r, n), 1)
    BY <1>2 DEF pull_all_callback
  <2>. QED BY <1>2, <2>1, FadesKept DEF Result
<1>3. CASE type = "BADRECORD"
  <2>1. c = Result(set_failure(r, "EPROTO"), -1)
    BY <1>3 DEF pull_all_callback
  <2>2. set_failure(r, "EPROTO").streaming = FALSE
    BY FadesFields
  <2>. QED BY <1>3, <2>1, <2>2, FadesKept DEF Result
<1>4. CASE type \notin {"RECORD", "BADRECORD"}
  <2>1. c = stream_end(u, type)
    BY <1>4 DEF pull_all_callback
  <2>. HIDE DEF u
  <2>2. Fades(u, c.stream)
    BY <1>1, <1>4, <2>1, EndFades
  <2>3. ~c.stream.streaming
    BY <1>1, <2>2 DEF Fades
  <2>. QED BY <1>1, <1>4, <2>2, <2>3, FadesTwice
<1>. QED BY <1>2, <1>3, <1>4

LEMMA DiscardFades ==
  ASSUME NEW r, Framed(r), NEW type \in ReplyTypes
  PROVE  LET t == discard_all_callback(r, type).stream
         IN  Fades(r, t) /\ ~t.streaming
<1>. DEFINE u == [r EXCEPT !.refcount = @ - 1, !.streaming = FALSE]
            end == IF type \in {"RECORD", "BADRECORD"} THEN "INVALID" ELSE type
            c == discard_all_callback(r, type)
<1>1. Fades(r, u) /\ Framed(u) /\ u.streaming = FALSE
  BY FadesFields DEF Fades
<1>2. end \in ReplyTypes \ {"RECORD", "BADRECORD"}
  BY DEF ReplyTypes
<1>3. c = stream_end(u, end)
  BY DEF discard_all_callback
<1>. HIDE DEF u, end, c
<1>4. Fades(u, c.stream)
  BY <1>1, <1>2, <1>3, EndFades
<1>5. ~c.stream.streaming
  BY <1>1, <1>4 DEF Fades
<1>. QED BY <1>1, <1>4, <1>5, FadesTwice DEF c

Attended(q, st) ==
  \A s \in Streams : st[s].connection /\ st[s].streaming => HasPull(q, s)

\* Requests are added to the queue, and none are taken.
LEMMA AttendedFade ==
  ASSUME NEW q, NEW q2, NEW st, NEW st2, Attended(q, st), AllFade(st, st2),
         \A s \in Streams : HasPull(q, s) => HasPull(q2, s)
  PROVE  Attended(q2, st2)
  BY DEF Attended, AllFade, Fades

LEMMA DrainedFades ==
  ASSUME NEW q, NEW st, FramedIn(st)
  PROVE  LET d == DrainedStreams(q, st)
         IN  AllFade(st, d) /\ \A s \in Streams : HasPull(q, s) => ~d[s].streaming
<1>. DEFINE d == DrainedStreams(q, st)
            After(s) == IF HasRun(q, s) THEN run_callback(st[s], "NULL").stream ELSE st[s]
<1>1. DOMAIN d = Streams
  BY DEF DrainedStreams
<1>2. ASSUME NEW s \in Streams
      PROVE  d[s] = IF HasPull(q, s)
                    THEN pull_all_callback(After(s), "NULL", 0).stream ELSE After(s)
  BY DEF DrainedStreams, HasRun, HasPull, Has
<1>. HIDE DEF d
<1>3. "NULL" \in ReplyTypes /\ "NULL" # "RECORD"
  BY DEF ReplyTypes
<1>4. ASSUME NEW s \in Streams
      PROVE  Fades(st[s], After(s)) /\ Framed(After(s))
  <2>1. Framed(st[s])
    BY DEF FramedIn
  <2>2. Fades(st[s], After(s))
    BY <1>3, <2>1, RunFades, FadesKept
  <2>. QED BY <2>2 DEF Fades
<1>. HIDE DEF After
<1>5. ASSUME NEW s \in Streams
      PROVE  Fades(st[s], d[s]) /\ (HasPull(q, s) => ~d[s].streaming)
  <2>1. Fades(After(s), d[s]) /\ (HasPull(q, s) => ~d[s].streaming)
    BY <1>2, <1>3, <1>4, PullFades, FadesKept
  <2>. QED BY <1>4, <2>1, FadesTwice
<1>. QED BY <1>1, <1>5 DEF d, AllFade

\* When the queue is drained no stream waits any longer.
LEMMA DrainedAttended ==
  ASSUME NEW q, NEW st, FramedIn(st), Attended(q, st)
  PROVE  Attended(<<>>, DrainedStreams(q, st))
<1>. DEFINE d == DrainedStreams(q, st)
<1>1. AllFade(st, d) /\ \A s \in Streams : HasPull(q, s) => ~d[s].streaming
  BY DrainedFades
<1>. HIDE DEF d
<1>2. Attended(<<>>, d)
  BY <1>1 DEF Attended, AllFade, Fades
<1>. QED BY <1>2 DEF d

LEMMA FadeSame ==
  ASSUME NEW st, FramedIn(st)
  PROVE  /\ AllFade(st, st)
         /\ \A s, t : (s \in Streams => Fades(st[s], t)) => AllFade(st, [st EXCEPT ![s] = t])
<1>1. \A s \in Streams : Fades(st[s], st[s])
  BY FadesKept DEF FramedIn
<1>2. ASSUME NEW s, NEW t, s \in Streams => Fades(st[s], t)
      PROVE  AllFade(st, [st EXCEPT ![s] = t])
  <2>. DEFINE u == [st EXCEPT ![s] = t]
  <2>1. DOMAIN u = Streams /\ \A x \in Streams : u[x] = IF x = s THEN t ELSE st[x]
    BY DEF FramedIn
  <2>. HIDE DEF u
  <2>2. AllFade(st, u)
    BY <1>1, <1>2, <2>1 DEF AllFade
  <2>. QED BY <2>2 DEF u
<1>. QED BY <1>1, <1>2 DEF AllFade, FramedIn

LEMMA FadeTwice ==
  ASSUME NEW st, NEW st2, NEW st3, AllFade(st, st2), AllFade(st2, st3)
  PROVE  AllFade(st, st3) /\ FramedIn(st2) /\ FramedIn(st3)
  BY FadesTwice DEF AllFade, FramedIn, Fades

\* The newest job is cut off.
LEMMA AbortedFades ==
  ASSUME NEW e, FramedIn(streams)
  PROVE  /\ AllFade(streams, AbortedJobs(e))
         /\ \A s \in Streams : jobs # <<>> /\ Head(jobs) = s => ~AbortedJobs(e)[s].connection
<1>1. CASE jobs = <<>>
  BY <1>1, FadeSame DEF AbortedJobs
<1>2. CASE jobs # <<>>
  <2>. DEFINE j == Head(jobs)
              t == abort_job(streams[j], e)
  <2>1. AbortedJobs(e) = [streams EXCEPT ![j] = t]
    BY <1>2 DEF AbortedJobs
  <2>2. j \in Streams => Framed(streams[j])
    BY DEF FramedIn
  <2>3. j \in Streams => Fades(streams[j], t) /\ ~t.connection
    <3>1. j \in Streams => Fades(streams[j], t)
      BY <2>2, FadesKept
    <3>2. j \in Streams => ~t.connection
      BY <2>2 DEF abort_job, set_failure, Framed
    <3>. QED BY <3>1, <3>2
  <2>4. \A s \in Streams : j = s => AbortedJobs(e)[s] = t
    BY <2>1 DEF FramedIn
  <2>. HIDE DEF j, t
  <2>5. AllFade(streams, AbortedJobs(e))
    <3>1. j \in Streams => Fades(streams[j], t)
      BY <2>3
    <3>2. AllFade(streams, [streams EXCEPT ![j] = t])
      BY <3>1, FadeSame
    <3>. QED BY <2>1, <3>2
  <2>6. \A s \in Streams : j = s => ~AbortedJobs(e)[s].connection
    BY <2>3, <2>4
  <2>. QED BY <2>5, <2>6 DEF j
<1>. QED BY <1>1, <1>2
-----------------------------------------------------------------------------
(* A step that only lets streams fade, and that takes the last request of a *)
(* stream off the queue only if the stream no longer waits.                 *)
Tends(q, st, q2, st2) ==
  /\ AllFade(st, st2)
  /\ \A s \in Streams : HasPull(q, s) => HasPull(q2, s) \/ ~st2[s].streaming

LEMMA TendsAttended ==
  ASSUME NEW q, NEW st, NEW q2, NEW st2, Tends(q, st, q2, st2)
  PROVE  FramedIn(st2) /\ (Attended(q, st) => Attended(q2, st2))
  BY DEF Tends, AllFade, Fades, FramedIn, Attended

LEMMA TendsFading ==
  ASSUME NEW q, NEW st, NEW st2, AllFade(st, st2)
  PROVE  Tends(q, st, q, st2)
  BY DEF Tends

LEMMA TendsDrained ==
  ASSUME NEW q, NEW st, NEW q2, NEW st2, FramedIn(st2), Tends(q, st, q2, st2)
  PROVE  Tends(q, st, <<>>, DrainedStreams(q2, st2))
<1>. DEFINE d == DrainedStreams(q2, st2)
<1>1. AllFade(st2, d) /\ \A s \in Streams : HasPull(q2, s) => ~d[s].streaming
  BY DrainedFades
<1>. HIDE DEF d
<1>2. AllFade(st, d)
  BY <1>1, FadeTwice DEF Tends
<1>3. \A s \in Streams : ~st2[s].streaming => ~d[s].streaming
  BY <1>1 DEF AllFade, Fades
<1>4. Tends(q, st, <<>>, d)
  BY <1>1, <1>2, <1>3 DEF Tends
<1>. QED BY <1>4 DEF d

\* What a callback does to a stream; the one that ends it takes its request.
LEMMA ReceivedFades ==
  ASSUME RefInv, Knows, NEW a \in Actors, Reply, inflight_requests > 0, FramedIn(streams)
  PROVE  Tends(request_queue, streams, Received(a).queue, Received(a).streams)
<1>. DEFINE r == Received(a)
            h == Head(request_queue)
            m == Head(toClient)
            cb == Callback(h, m, streams, txs)
            unexpected == failure[a] /\ m.type # "IGNORED"
<1>1. /\ r.streams = IF unexpected THEN streams ELSE cb.streams
      /\ r.queue = IF ~unexpected /\ cb.rc <= 0 THEN Tail(request_queue)
                   ELSE request_queue
  BY DEF Received, Pops
<1>2. m.type \in ReplyTypes
  <2>1. toClient # <<>> /\ toClient \in Seq(Messages) /\ m.type # "GARBLED"
    BY DEF Reply, Garbled, RefInv, WireTypes
  <2>2. m \in Messages
    BY <2>1
  <2>. HIDE DEF m
  <2>3. m.type \in KnownReplies
    BY <2>2 DEF Messages
  <2>. QED BY <2>1, <2>3 DEF KnownReplies, ReplyTypes
<1>3. /\ request_queue \in Seq(Requests) /\ request_queue # <<>>
      /\ Fits(h)
  <2>1. /\ request_queue \in Seq(Requests) /\ inflight_requests \in Nat
        /\ inflight_requests <= Len(request_queue)
    BY DEF RefInv, WindowInv, WindowTypes, WindowOK
  <2>2. request_queue # <<>>
    BY <2>1
  <2>3. pc["app"] = "fill" => Len(request_queue) # 1
    <3>1. pc["app"] = "fill" => inflight_requests < Len(request_queue)
      BY DEF Knows, Phases
    <3>. QED BY <2>1, <3>1
  <2>4. 1 \in DOMAIN request_queue /\ h = request_queue[1]
    BY <2>1, <2>2
  <2>. HIDE DEF h
  <2>. QED BY <2>1, <2>2, <2>3, <2>4 DEF Knows, Accounts, Proper, Fits
<1>4. \A s : HasPull(request_queue, s) =>
               HasPull(Tail(request_queue), s) \/ (h.of = s /\ h.type \in Statements)
  BY <1>3, HasTail DEF HasPull
<1>5. AllFade(streams, streams)
  BY FadeSame
<1>6. CASE unexpected
  <2>1. r.streams = streams /\ r.queue = request_queue
    BY <1>1, <1>6
  <2>. HIDE DEF r
  <2>2. Tends(request_queue, streams, r.queue, r.streams)
    BY <1>5, <2>1, TendsFading
  <2>. QED BY <2>2 DEF r
<1>7. CASE ~unexpected
  <2>1. /\ r.streams = cb.streams
        /\ r.queue = IF cb.rc <= 0 THEN Tail(request_queue) ELSE request_queue
    BY <1>1, <1>7
  <2>2. CASE OfStream(h)
    <3>0. h.of \in Streams /\ Framed(streams[h.of])
      BY <1>3, <2>2 DEF Fits, FramedIn
    <3>. DEFINE Ends(t, rc) == h.type \in Statements => ~t.streaming \/ rc = 1
    <3>1. \E t, rc : /\ cb.streams = [streams EXCEPT ![h.of] = t] /\ cb.rc = rc
                     /\ Fades(streams[h.of], t) /\ Ends(t, rc)
      <4>1. CASE h.type = "RUN"
        <5>. DEFINE c == run_callback(streams[h.of], m.type)
        <5>1. cb.streams = [streams EXCEPT ![h.of] = c.stream] /\ cb.rc = c.rc
          BY <4>1 DEF cb, Callback, Statements, TxRequests
        <5>2. Fades(streams[h.of], c.stream)
          BY <1>2, <3>0, RunFades
        <5>3. Ends(c.stream, c.rc)
          BY <4>1 DEF Statements
        <5>. HIDE DEF c, cb, Ends
        <5>. QED BY <5>1, <5>2, <5>3
      <4>2. CASE h.type = "PULL_ALL"
        <5>. DEFINE c == pull_all_callback(streams[h.of], m.type, m.n)
        <5>1. cb.streams = [streams EXCEPT ![h.of] = c.stream] /\ cb.rc = c.rc
          BY <4>2 DEF cb, Callback, Statements, TxRequests
        <5>2. Fades(streams[h.of], c.stream) /\ (m.type # "RECORD" => ~c.stream.streaming)
          BY <1>2, <3>0, PullFades
        <5>3. m.type = "RECORD" => c.rc = 1
          BY DEF pull_all_callback, Result
        <5>4. Ends(c.stream, c.rc)
          BY <5>2, <5>3
        <5>. HIDE DEF c, cb, Ends
        <5>. QED BY <5>1, <5>2, <5>4
      <4>3. CASE h.type = "DISCARD_ALL"
        <5>. DEFINE c == discard_all_callback(streams[h.of], m.type)
        <5>1. cb.streams = [streams EXCEPT ![h.of] = c.stream] /\ cb.rc = c.rc
          BY <4>3 DEF cb, Callback, Statements, TxRequests
        <5>2. Fades(streams[h.of], c.stream) /\ ~c.stream.streaming
          BY <1>2, <3>0, DiscardFades
        <5>3. Ends(c.stream, c.rc)
          BY <5>2
        <5>. HIDE DEF c, cb, Ends
        <5>. QED BY <5>1, <5>2, <5>3
      <4>. QED BY <2>2, <4>1, <4>2, <4>3 DEF OfStream, Statements
    <3>. HIDE DEF r, cb, h
    <3>2. PICK t, rc : /\ cb.streams = [streams EXCEPT ![h.of] = t] /\ cb.rc = rc
                       /\ Fades(streams[h.of], t) /\ Ends(t, rc)
      BY <3>1
    <3>3. AllFade(streams, r.streams)
      BY <2>1, <3>0, <3>2, FadeSame
    <3>4. r.streams[h.of] = t
      BY <2>1, <3>0, <3>2 DEF FramedIn
    <3>5. ASSUME NEW s \in Streams, HasPull(request_queue, s)
          PROVE  HasPull(r.queue, s) \/ ~r.streams[s].streaming
      <4>1. CASE rc = 1
        BY <2>1, <3>2, <3>5, <4>1
      <4>2. CASE rc # 1
        BY <1>4, <2>1, <3>2, <3>4, <3>5, <4>2
      <4>. QED BY <4>1, <4>2
    <3>6. Tends(request_queue, streams, r.queue, r.streams)
      BY <3>3, <3>5 DEF Tends
    <3>. QED BY <3>6 DEF r
  <2>3. CASE ~OfStream(h)
    <3>1. cb.streams = streams
      BY <1>3, <2>3 DEF Fits, cb, Callback, OfStream, Answerable, Statements, TxRequests
    <3>2. h.type \notin Statements
      BY <2>3 DEF OfStream
    <3>. HIDE DEF r, cb, h
    <3>3. \A s \in Streams : HasPull(request_queue, s) => HasPull(r.queue, s)
      BY <1>4, <2>1, <3>2
    <3>4. Tends(request_queue, streams, r.queue, r.streams)
      BY <1>5, <2>1, <3>1, <3>3 DEF Tends
    <3>. QED BY <3>4 DEF r
  <2>. QED BY <2>2, <2>3
<1>. QED BY <1>6, <1>7
-----------------------------------------------------------------------------
(* The jobs of the connection: all stopped, the newest of them cut off, or  *)
(* left alone.                                                              *)
JobsKept ==
  \/ jobs' = jobs
  \/ /\ jobs' = <<>>
     /\ \A s \in Streams : jobs # <<>> /\ Head(jobs) = s => ~streams'[s].connection

Gentle == Tends(request_queue, streams, request_queue', streams') /\ JobsKept

LEMMA GentleFading ==
  ASSUME request_queue' = request_queue, AllFade(streams, streams'), jobs' = jobs
  PROVE  Gentle
  BY TendsFading DEF Gentle, JobsKept

LEMMA GentleQuiet ==
  ASSUME FramedIn(streams), UNCHANGED <<request_queue, streams, jobs>>
  PROVE  Gentle
  BY GentleFading, FadeSame

LEMMA GentleDrained ==
  ASSUME FramedIn(streams), NEW q, NEW st, Tends(request_queue, streams, q, st),
         request_queue' = <<>>, streams' = DrainedStreams(q, st), jobs' = jobs
  PROVE  Gentle
  BY TendsAttended, TendsDrained DEF Gentle, JobsKept

LEMMA GentleAborted ==
  ASSUME FramedIn(streams), NEW e, request_queue' = request_queue,
         streams' = AbortedJobs(e), jobs' = <<>>
  PROVE  Gentle
<1>1. AllFade(streams, streams')
  BY AbortedFades
<1>2. JobsKept
  BY AbortedFades DEF JobsKept
<1>. QED BY <1>1, <1>2, TendsFading DEF Gentle

\* The stream of a call is changed.
LEMMA GentleOne ==
  ASSUME FramedIn(streams), NEW s \in Streams, NEW t, Fades(streams[s], t),
         UNCHANGED <<request_queue, jobs>>, streams' = [streams EXCEPT ![s] = t]
  PROVE  Gentle
<1>1. AllFade(streams, streams')
  BY FadeSame
<1>. QED BY <1>1, GentleFading

LEMMA GentleClosing ==
  ASSUME FramedIn(streams), NEW s \in Streams, NEW c, run_rs_close(s, c),
         UNCHANGED <<request_queue, jobs>>
  PROVE  Gentle
<1>1. streams' = [streams EXCEPT ![s].streaming = FALSE, ![s].refcount = @ - 1]
  BY DEF run_rs_close
<1>2. Framed(streams[s]) /\ DOMAIN streams = Streams
  BY DEF FramedIn
<1>3. /\ DOMAIN streams' = Streams
      /\ \A x \in Streams : x # s => streams'[x] = streams[x]
      /\ Fades(streams[s], streams'[s])
  BY <1>1, <1>2 DEF Framed, Fades
<1>4. \A x \in Streams : Fades(streams[x], streams[x])
  BY FadesKept DEF FramedIn
<1>5. AllFade(streams, streams')
  BY <1>3, <1>4 DEF AllFade
<1>. QED BY <1>5, GentleFading

LEMMA GentleStart ==
  ASSUME FramedIn(streams), Start, \A s \in Streams, kind \in Statements, t \in Txs \cup {None} : ~run_open(s, kind, t)
  PROVE  Gentle
<1>1. ASSUME NEW s \in Streams, close_results(s) PROVE Gentle
  <2>1. run_rs_close(s, [Idle EXCEPT !.op = "close_rs", !.rs = s])
        /\ UNCHANGED <<request_queue, jobs>>
    BY <1>1 DEF close_results, unchangedByCall
  <2>. QED BY <2>1, GentleClosing
<1>2. ASSUME NEW s \in Streams, check_failure(s) \/ consume(s) PROVE Gentle
  BY <1>2, GentleQuiet DEF check_failure, consume, unchangedByCall
<1>3. ASSUME NEW s \in Streams, fetch_next(s), streams' # streams PROVE Gentle
  <2>1. PICK t \in {Pop(streams[s]), Await(streams[s], 1)} :
           streams' = [streams EXCEPT ![s] = t]
    BY <1>3 DEF fetch_next, AwaitRecords
  <2>2. Fades(streams[s], t)
    BY FadesKept DEF FramedIn
  <2>3. UNCHANGED <<request_queue, jobs>>
    BY <1>3 DEF fetch_next, AwaitRecords, unchangedByCall
  <2>. QED BY <2>1, <2>2, <2>3, GentleOne
<1>4. ASSUME NEW s \in Streams, peek(s), streams' # streams PROVE Gentle
  <2>. DEFINE t == Await(streams[s], 2 - Len(streams[s].records))
  <2>1. streams' = [streams EXCEPT ![s] = t] /\ UNCHANGED <<request_queue, jobs>>
    BY <1>4 DEF peek, AwaitRecords, unchangedByCall
  <2>2. Fades(streams[s], t)
    BY FadesKept DEF FramedIn
  <2>. HIDE DEF t
  <2>. QED BY <2>1, <2>2, GentleOne
<1>5. ASSUME NEW t \in Txs, begin_tx(t) \/ tx_commit(t) \/ tx_rollback(t) \/ free_tx(t)
      PROVE  Gentle
  BY <1>5, GentleQuiet DEF begin_tx, tx_commit, tx_rollback, free_tx, unchangedByCall
<1>6. CASE close_start
  BY <1>6, GentleAborted DEF close_start
<1>7. ASSUME NEW s \in Streams, fetch_next(s) \/ peek(s), streams' = streams PROVE Gentle
  BY <1>7, GentleQuiet DEF fetch_next, peek, unchangedByCall
<1>. QED BY <1>1, <1>2, <1>3, <1>4, <1>5, <1>6, <1>7 DEF Start

LEMMA GentleSync ==
  ASSUME RefInv, Alive, FramedIn(streams), Sync
  PROVE  Gentle
<1>0. Knows /\ request_queue \in Seq(Requests)
  BY DEF RefInv, WindowInv, WindowTypes
<1>1. CASE \/ sync_enter \/ sync_lock \/ sync_loop \/ send_requests \/ sync_unlock
           \/ sync_unlock_ack
  BY <1>1, GentleQuiet DEF sync_enter, sync_lock, sync_loop, send_requests, sync_unlock,
                           sync_unlock_ack, connVars
<1>2. CASE sync_receive
  <2>. DEFINE r == Received("app")
  <2>1. "app" \in Actors /\ Reply /\ inflight_requests > 0 /\ jobs' = jobs
    BY <1>2 DEF sync_receive, At, RefInv, WindowInv, Expecting, Actors
  <2>2. Tends(request_queue, streams, r.queue, r.streams)
    BY <1>0, <2>1, ReceivedFades
  <2>3. CASE UNCHANGED <<request_queue, streams>>
    BY <2>1, <2>3, GentleQuiet
  <2>4. CASE request_queue' = <<>> /\ streams' = DrainedStreams(r.queue, r.streams)
    <3>. HIDE DEF r
    <3>. QED BY <2>1, <2>2, <2>4, GentleDrained
  <2>5. CASE request_queue' = r.queue /\ streams' = r.streams
    <3>. HIDE DEF r
    <3>. QED BY <2>1, <2>2, <2>5 DEF Gentle, JobsKept
  <2>. QED BY <1>2, <2>3, <2>4, <2>5 DEF sync_receive, FailSync, r
<1>3. CASE sync_receive_error
  BY <1>3, GentleDrained, TendsFading, FadeSame DEF sync_receive_error, FailSync
<1>4. CASE send_request
  <2>1. CASE UNCHANGED <<request_queue, streams>>
    BY <1>4, <2>1, GentleQuiet DEF send_request
  <2>2. CASE request_queue' = <<>> /\ streams' = DrainedStreams(request_queue, streams)
    BY <1>4, <2>2, GentleDrained, TendsFading, FadeSame DEF send_request
  <2>. QED BY <1>4, <2>1, <2>2 DEF send_request, FailSync
<1>5. CASE sync_exit
  <2>1. CASE streams' = AbortedJobs("SESSION_RESET") /\ jobs' = <<>>
    BY <1>5, <2>1, GentleAborted DEF sync_exit
  <2>2. CASE UNCHANGED <<streams, jobs>>
    BY <1>5, <2>2, GentleQuiet DEF sync_exit
  <2>. QED BY <1>5, <2>1, <2>2 DEF sync_exit
<1>6. CASE new_request
  <2>1. UNCHANGED <<streams, jobs>>
        /\ request_queue' \in {request_queue, Append(request_queue, Blank)}
    BY <1>6 DEF new_request, Queue, Blank
  <2>2. Blank \in Requests
    BY RequestsTyped DEF Blank, Request
  <2>3. \A s \in Streams : HasPull(request_queue, s) => HasPull(request_queue', s)
    BY <1>0, <2>1, <2>2, HasAppend DEF HasPull
  <2>. QED BY <2>1, <2>3, FadeSame DEF Gentle, JobsKept, Tends
<1>7. CASE populate
  <2>1. /\ pc["app"] = "fill" /\ UNCHANGED <<streams, jobs>>
        /\ request_queue' = [request_queue EXCEPT ![Len(request_queue)] = call.fill]
    BY <1>7 DEF populate, At
  <2>2. Len(request_queue) \in DOMAIN request_queue
    <3>1. inflight_requests < Len(request_queue) /\ inflight_requests \in Nat
      BY <1>0, <2>1 DEF Knows, Phases, RefInv, WindowInv, WindowTypes
    <3>. QED BY <1>0, <3>1
  <2>3. Proper(request_queue, TRUE)
    <3>1. (pc["app"] = "fill") = TRUE
      BY <2>1
    <3>. QED BY <1>0, <3>1 DEF Knows, Accounts
  <2>4. request_queue[Len(request_queue)] = Blank /\ request_queue # <<>>
    BY <2>2, <2>3 DEF Proper
  <2>5. \A s \in Streams : Blank.of # s /\ call.fill.of # s
    BY <1>0, TargetsAssumption DEF Blank, Request, Knows, Phases
  <2>6. \A s \in Streams : HasPull(request_queue, s) => HasPull(request_queue', s)
    BY <1>0, <2>1, <2>4, <2>5, HasPopulated DEF HasPull
  <2>. QED BY <2>1, <2>6, FadeSame DEF Gentle, JobsKept, Tends
<1>. QED BY <1>1, <1>2, <1>3, <1>4, <1>5, <1>6, <1>7 DEF Sync

LEMMA GentleReset ==
  ASSUME RefInv, Alive, FramedIn(streams), NEW a \in Actors, ResetBy(a)
  PROVE  Gentle
<1>0. Knows
  BY DEF RefInv
<1>1. ASSUME NEW e, NEW q, NEW st, EndReset(a, e, q, st),
             Tends(request_queue, streams, q, st), jobs' = jobs
      PROVE  Gentle
  BY <1>1, GentleDrained DEF EndReset
<1>2. CASE reset_receive(a)
  <2>. DEFINE r == Received(a)
  <2>1. Reply /\ inflight_requests > 0 /\ jobs' = jobs
    BY <1>2 DEF reset_receive, Resetting, Expecting, Actors, RefInv, WindowInv
  <2>2. Tends(request_queue, streams, r.queue, r.streams)
    BY <1>0, <2>1, ReceivedFades
  <2>3. CASE UNCHANGED <<request_queue, streams>>
    BY <2>1, <2>3, GentleQuiet
  <2>4. CASE EndReset(a, "EPROTO", r.queue, r.streams)
    <3>. HIDE DEF r
    <3>. QED BY <1>1, <2>1, <2>2, <2>4
  <2>5. CASE request_queue' = r.queue /\ streams' = r.streams
    <3>. HIDE DEF r
    <3>. QED BY <2>1, <2>2, <2>5 DEF Gentle, JobsKept
  <2>. QED BY <1>2, <2>3, <2>4, <2>5 DEF reset_receive
<1>3. CASE reset_reply(a) \/ reset_error(a)
  <2>1. jobs' = jobs /\ \E e : EndReset(a, e, request_queue, streams)
    BY <1>3 DEF reset_reply, reset_error
  <2>2. Tends(request_queue, streams, request_queue, streams)
    BY TendsFading, FadeSame
  <2>. QED BY <1>1, <2>1, <2>2
<1>. QED BY <1>2, <1>3 DEF ResetBy

LEMMA GentleClose ==
  ASSUME RefInv, Alive, FramedIn(streams), Close
  PROVE  Gentle
<1>0. Knows
  BY DEF RefInv
<1>1. CASE close_receive
  <2>1. /\ "app" \in Actors /\ Reply /\ inflight_requests > 0 /\ jobs' = jobs
        /\ request_queue' = Received("app").queue /\ streams' = Received("app").streams
    BY <1>1 DEF close_receive, At, RefInv, WindowInv, Expecting, Actors
  <2>. QED BY <1>0, <2>1, ReceivedFades DEF Gentle, JobsKept
<1>2. CASE close_receive_error
  BY <1>2, GentleQuiet DEF close_receive_error
<1>3. CASE close_end
  BY <1>3, GentleDrained, TendsFading, FadeSame DEF close_end
<1>. QED BY <1>1, <1>2, <1>3 DEF Close

LEMMA GentleSignal ==
  ASSUME FramedIn(streams), neo4j_reset
  PROVE  Gentle
<1>1. CASE streams' = AbortedJobs("SESSION_RESET") /\ jobs' = <<>>
  BY <1>1, GentleAborted DEF neo4j_reset
<1>2. CASE UNCHANGED <<streams, jobs>>
  BY <1>2, GentleQuiet DEF neo4j_reset
<1>. QED BY <1>1, <1>2 DEF neo4j_reset

LEMMA GentleRun ==
  ASSUME RefInv, Alive, FramedIn(streams), Run, ~run_start, ~free_results
  PROVE  Gentle
<1>0. /\ Knows /\ request_queue \in Seq(Requests) /\ call \in Calling
      /\ pc["app"] \in Opening => call.rs \in Streams
  BY DEF RefInv, WindowInv, WindowTypes, Knows, Phases
<1>1. ASSUME NEW q \in Requests, UNCHANGED <<streams, jobs>>,
             request_queue' \in {request_queue, Append(request_queue, q)}
      PROVE  Gentle
  <2>1. \A s \in Streams : HasPull(request_queue, s) => HasPull(request_queue', s)
    BY <1>0, <1>1, HasAppend DEF HasPull
  <2>. QED BY <1>1, <2>1, FadeSame DEF Gentle, JobsKept, Tends
<1>2. CASE session_run
  <2>. DEFINE q == Request("RUN", call.rs, call.tx)
  <2>1. q \in Requests
    BY <1>0, RequestsTyped DEF Calling, Request
  <2>2. /\ UNCHANGED <<streams, jobs>>
        /\ request_queue' \in {request_queue, Append(request_queue, q)}
    BY <1>2 DEF session_run, Enqueue, Queue
  <2>. QED BY <1>1, <2>1, <2>2
<1>3. CASE session_pull_all
  <2>. DEFINE q == Request(call.kind, call.rs, call.tx)
  <2>1. q \in Requests
    BY <1>0, RequestsTyped DEF Calling, Request
  <2>2. /\ UNCHANGED <<streams, jobs>>
        /\ request_queue' \in {request_queue, Append(request_queue, q)}
    BY <1>3 DEF session_pull_all, Enqueue, Queue
  <2>. QED BY <1>1, <2>1, <2>2
<1>4. CASE session_unlock
  <2>1. call.rs \in Streams /\ UNCHANGED <<request_queue, jobs>>
    BY <1>0, <1>4 DEF session_unlock, At, Opening
  <2>2. CASE streams' = streams
    BY <2>1, <2>2, GentleQuiet
  <2>3. CASE streams' = [streams EXCEPT ![call.rs] = Referenced(@)]
    <3>1. Fades(streams[call.rs], Referenced(streams[call.rs]))
      BY <2>1, FadesKept DEF FramedIn
    <3>. QED BY <2>1, <2>3, <3>1, GentleOne
  <2>. QED BY <1>4, <2>2, <2>3 DEF session_unlock
<1>5. CASE abandon
  <2>1. /\ call.rs \in Streams /\ UNCHANGED <<request_queue, jobs>>
        /\ run_rs_close(call.rs, [call EXCEPT !.op = "abandon"])
    BY <1>0, <1>5 DEF abandon, At, Opening, unchangedByCall
  <2>. QED BY <2>1, GentleClosing
<1>6. CASE return_to_stream
  <2>. DEFINE s == Awaited(streams[call.rs])
  <2>1. call.rs \in Streams /\ UNCHANGED <<request_queue, jobs>>
    BY <1>0, <1>6 DEF return_to_stream, Calling, unchangedByCall
  <2>2. Fades(streams[call.rs], s) /\ Framed(s)
    BY <2>1, FadesKept DEF FramedIn, Fades
  <2>3. \E t \in {s, Pop(s), Lost(s)} : streams' = [streams EXCEPT ![call.rs] = t]
    BY <1>6 DEF return_to_stream
  <2>. HIDE DEF s
  <2>4. PICK t \in {s, Pop(s), Lost(s)} : streams' = [streams EXCEPT ![call.rs] = t]
    BY <2>3
  <2>5. Fades(streams[call.rs], t)
    BY <2>2, FadesKept, FadesTwice
  <2>. QED BY <2>1, <2>4, <2>5, GentleOne
<1>7. CASE return_to_tx
  BY <1>7, GentleQuiet DEF return_to_tx, unchangedByCall
<1>. QED BY <1>2, <1>3, <1>4, <1>5, <1>6, <1>7 DEF Run
-----------------------------------------------------------------------------
(* The stream that is being opened is the newest job, until the handler     *)
(* stops it; once it starts its request is queued.  A connection that is    *)
(* being closed has no jobs.  A program with one stream has it among the    *)
(* jobs as long as it points to the connection.                             *)
LatestJob ==
  pc["app"] \in Opening /\ streams[call.rs].connection =>
    /\ jobs # <<>> /\ Head(jobs) = call.rs /\ pc["sig"] = "idle"
    /\ pc["app"] = "start" \/ (pc["app"] = "pull_unlock" /\ ret.rc >= 0) =>
         HasPull(request_queue, call.rs)

Leaving == closed \/ pc["app"] \in {"crecv", "cend"}
OneStream == \A s, t \in Streams : s = t
Listed == \A s \in Streams : streams[s].open /\ streams[s].connection => jobs # <<>>

AttendInv ==
  /\ FramedIn(streams) /\ jobs \in Seq(Streams)
  /\ Attended(request_queue, streams)
  /\ LatestJob
  /\ Leaving => jobs = <<>>
  /\ OneStream => Listed

LEMMA GentleKeeps ==
  ASSUME AttendInv, Gentle
  PROVE  /\ FramedIn(streams)' /\ (jobs \in Seq(Streams))'
         /\ Attended(request_queue, streams)'
         /\ OneStream => Listed'
         /\ jobs = <<>> => jobs' = <<>>
<1>1. FramedIn(streams') /\ Attended(request_queue', streams')
  BY TendsAttended DEF AttendInv, Gentle
<1>2. jobs' \in Seq(Streams) /\ (jobs = <<>> => jobs' = <<>>)
  <2>1. jobs' \in {jobs, <<>>} /\ jobs \in Seq(Streams)
    BY DEF Gentle, JobsKept, AttendInv
  <2>2. <<>> \in Seq(Streams)
    OBVIOUS
  <2>. QED BY <2>1, <2>2
<1>3. ASSUME OneStream, NEW s \in Streams, streams'[s].open, streams'[s].connection
      PROVE  jobs' # <<>>
  <2>1. streams[s].open /\ streams[s].connection
    BY <1>3 DEF Gentle, Tends, AllFade, Fades
  <2>2. jobs # <<>>
    BY <1>3, <2>1 DEF AttendInv, Listed
  <2>3. Head(jobs) = s
    <3>1. Head(jobs) \in Streams
      BY <2>2 DEF AttendInv
    <3>. QED BY <1>3, <3>1 DEF OneStream
  <2>. QED BY <1>3, <2>2, <2>3 DEF Gentle, JobsKept
<1>. QED BY <1>1, <1>2, <1>3 DEF Listed, FramedIn, Attended

LEMMA AttendedThen ==
  ASSUME AttendInv, Gentle, LatestJob', Leaving' => Leaving \/ jobs' = <<>>
  PROVE  AttendInv'
<1>1. Leaving' => jobs' = <<>>
  BY GentleKeeps DEF AttendInv
<1>2. OneStream' <=> OneStream
  BY DEF OneStream
<1>. QED BY <1>1, <1>2, GentleKeeps DEF AttendInv

LEMMA OpenedAttended ==
  ASSUME RefInv, AttendInv, NEW s \in Streams, NEW kind \in Statements,
         NEW t \in Txs \cup {None}, run_open(s, kind, t)
  PROVE  AttendInv'
<1>0. /\ pc \in [Actors -> Labels] /\ "app" \in Actors /\ "sig" \in Actors
      /\ pc["app"] = "idle" /\ pc["sig"] = "idle" /\ ~closed
      /\ UNCHANGED <<request_queue, closed>>
  BY DEF RefInv, WindowInv, LockInv, Actors, run_open, Calls, At, unchangedByCall
<1>1. CASE failed
  <2>1. UNCHANGED <<streams, jobs, pc>>
    BY <1>1 DEF run_open
  <2>2. Gentle
    BY <1>0, <2>1, GentleQuiet DEF AttendInv
  <2>3. LatestJob' /\ (Leaving' => Leaving)
    BY <1>0, <2>1 DEF LatestJob, Leaving, Opening
  <2>. QED BY <2>2, <2>3, AttendedThen
<1>2. CASE ~failed
  <2>1. /\ streams' = [streams EXCEPT ![s] = run_rs_open]
        /\ jobs' = <<s>> \o jobs
        /\ pc' = [pc EXCEPT !["app"] = "run"]
        /\ call' = [Idle EXCEPT !.op = "run", !.rs = s, !.tx = t,
                                !.kind = kind, !.cond = "starting"]
    BY <1>2 DEF run_open, Enter, Goto
  <2>2. pc'["app"] = "run" /\ pc'["sig"] = "idle" /\ call'.rs = s
    BY <1>0, <2>1 DEF Idle
  <2>3. jobs' \in Seq(Streams) /\ jobs' # <<>> /\ Head(jobs') = s
    <3>1. jobs \in Seq(Streams) /\ <<s>> \in Seq(Streams) /\ Len(<<s>>) = 1
      BY DEF AttendInv
    <3>. QED BY <2>1, <3>1
  <2>4. /\ DOMAIN streams' = Streams
        /\ \A x \in Streams : streams'[x] = IF x = s THEN run_rs_open ELSE streams[x]
    BY <2>1 DEF AttendInv, FramedIn
  <2>5. Framed(run_rs_open) /\ run_rs_open.streaming = FALSE
    BY DEF run_rs_open, NoStream, Framed
  <2>6. FramedIn(streams')
    BY <2>4, <2>5 DEF AttendInv, FramedIn
  <2>7. Attended(request_queue, streams')
    BY <2>4, <2>5 DEF AttendInv, Attended
  <2>8. LatestJob'
    BY <2>2, <2>3 DEF LatestJob
  <2>9. ~Leaving' /\ Listed'
    BY <1>0, <2>2, <2>3 DEF Leaving, Listed
  <2>. QED BY <1>0, <2>3, <2>6, <2>7, <2>8, <2>9 DEF AttendInv, FramedIn, Attended, OneStream
<1>. QED BY <1>1, <1>2

LEMMA StartedAttended ==
  ASSUME RefInv, Alive, AttendInv, run_start
  PROVE  AttendInv'
<1>0. /\ pc \in [Actors -> Labels] /\ "app" \in Actors
      /\ pc["app"] = "start" /\ pc["app"] \in Opening
      /\ UNCHANGED <<request_queue, closed, jobs>>
      /\ call.rs \in Streams
  BY DEF RefInv, WindowInv, LockInv, Knows, Phases, Actors, run_start, At, unchangedByCall,
         Opening
<1>1. pc'["app"] \in {"idle", "enter"}
  BY <1>0 DEF run_start, Goto
<1>. DEFINE t == Started(streams[call.rs])
<1>2. /\ DOMAIN streams' = Streams
      /\ \A x \in Streams : streams'[x] = IF x = call.rs THEN t ELSE streams[x]
  BY <1>0 DEF run_start, AttendInv, FramedIn
<1>3. /\ Framed(t) /\ t.connection = streams[call.rs].connection
      /\ t.open = streams[call.rs].open
  BY <1>0 DEF AttendInv, FramedIn, Framed, Started
<1>. HIDE DEF t
<1>4. FramedIn(streams')
  BY <1>2, <1>3 DEF AttendInv, FramedIn
<1>5. streams[call.rs].connection => HasPull(request_queue, call.rs)
  BY <1>0 DEF AttendInv, LatestJob
<1>6. Attended(request_queue, streams')
  BY <1>2, <1>3, <1>5 DEF AttendInv, Attended
<1>7. LatestJob' /\ (Leaving' => Leaving)
  BY <1>0, <1>1 DEF LatestJob, Leaving, Opening
<1>8. Listed => Listed'
  BY <1>0, <1>2, <1>3 DEF Listed
<1>. QED BY <1>0, <1>4, <1>6, <1>7, <1>8 DEF AttendInv, FramedIn, Attended, OneStream

LEMMA FreedAttended ==
  ASSUME RefInv, Alive, AttendInv, free_results
  PROVE  AttendInv'
<1>0. /\ pc \in [Actors -> Labels] /\ "app" \in Actors
      /\ pc["app"] = "free" /\ UNCHANGED <<request_queue, closed>>
      /\ call.rs \in Streams
  BY DEF RefInv, WindowInv, LockInv, Knows, Phases, Actors, free_results, At, unchangedByCall
<1>1. pc'["app"] \in {"idle", "crashed"}
  BY <1>0 DEF free_results, Enter, Goto, Crash
<1>2. LatestJob' /\ (Leaving' => Leaving)
  BY <1>0, <1>1 DEF LatestJob, Leaving, Opening
<1>3. CASE UNCHANGED <<streams, jobs>>
  BY <1>0, <1>2, <1>3, GentleQuiet, AttendedThen DEF AttendInv
<1>4. CASE /\ streams' = [streams EXCEPT ![call.rs] = NoStream]
           /\ jobs' = IF streams[call.rs].connection THEN DetachJob(call.rs) ELSE jobs
           /\ ~(streams[call.rs].connection /\ closed)
  <2>1. /\ DOMAIN streams' = Streams
        /\ \A x \in Streams : streams'[x] = IF x = call.rs THEN NoStream ELSE streams[x]
    BY <1>4 DEF AttendInv, FramedIn
  <2>2. Framed(NoStream) /\ NoStream.connection = FALSE
    BY DEF NoStream, Framed
  <2>3. FramedIn(streams') /\ Attended(request_queue, streams')
    BY <2>1, <2>2 DEF AttendInv, FramedIn, Attended
  <2>4. jobs' \in Seq(Streams)
    <3>1. jobs \in Seq(Streams)
      BY DEF AttendInv
    <3>2. DetachJob(call.rs) \in Seq(Streams)
      BY <3>1, FilterElements DEF DetachJob
    <3>. QED BY <1>4, <3>1, <3>2
  <2>5. Leaving' => jobs' = <<>>
    <3>1. Leaving' => closed
      BY <1>0, <1>1 DEF Leaving
    <3>. QED BY <1>4, <3>1 DEF AttendInv, Leaving
  <2>6. OneStream => Listed'
    BY <1>0, <2>1, <2>2 DEF OneStream, Listed
  <2>. QED BY <1>0, <1>2, <2>3, <2>4, <2>5, <2>6 DEF AttendInv, FramedIn, Attended, OneStream
<1>. QED BY <1>3, <1>4 DEF free_results

\* In the middle of a call the handler stops the newest job, or nothing.
LEMMA LatestSignal ==
  ASSUME RefInv, AttendInv, neo4j_reset
  PROVE  LatestJob'
<1>0. pc \in [Actors -> Labels] /\ "app" \in Actors /\ "sig" \in Actors
  BY DEF RefInv, WindowInv, LockInv, Actors
<1>. SUFFICES ASSUME pc'["app"] \in Opening, streams'[call'.rs].connection
              PROVE  /\ UNCHANGED <<pc, jobs>>
                     /\ streams[call.rs].connection /\ pc["app"] \in Opening
  <2>1. UNCHANGED <<request_queue, call, ret>>
    BY DEF neo4j_reset
  <2>. QED BY <2>1 DEF AttendInv, LatestJob, HasPull, Has
<1>1. pc'["app"] = pc["app"] /\ call' = call
  BY <1>0 DEF neo4j_reset
<1>2. call.rs \in Streams
  <2>1. Alive
    BY <1>1 DEF Opening, Alive
  <2>. QED BY <1>1, <2>1 DEF RefInv, Knows, Phases
<1>3. streams[call.rs].connection
  BY <1>1, <1>2, GentleSignal DEF AttendInv, Gentle, Tends, AllFade, Fades
<1>4. jobs # <<>> /\ Head(jobs) = call.rs
  BY <1>1, <1>3 DEF AttendInv, LatestJob
<1>5. streams' # AbortedJobs("SESSION_RESET")
  BY <1>1, <1>2, <1>4, AbortedFades DEF AttendInv
<1>. QED BY <1>1, <1>3, <1>5 DEF neo4j_reset

LEMMA LatestReset ==
  ASSUME RefInv, Alive, AttendInv, NEW a \in Actors, ResetBy(a)
  PROVE  LatestJob'
<1>0. /\ pc \in [Actors -> Labels] /\ "app" \in Actors /\ "sig" \in Actors
      /\ pc[a] # "idle" /\ call' = call
  BY DEF RefInv, WindowInv, LockInv, Actors, ResetBy, reset_receive, reset_reply, reset_error,
         Resetting
<1>1. CASE a = "app"
  <2>1. pc'["app"] \notin Opening
    BY <1>0, <1>1 DEF ResetBy, reset_receive, reset_reply, reset_error, EndReset, Crash,
                      Opening
  <2>. QED BY <2>1 DEF LatestJob
<1>2. CASE a = "sig"
  <2>1. pc'["app"] \in {pc["app"], "crashed"}
    BY <1>0, <1>2 DEF ResetBy, reset_receive, reset_reply, reset_error, EndReset, Crash
  <2>2. CASE pc["app"] \in Opening
    <3>1. call.rs \in Streams
      BY <2>2 DEF RefInv, Knows, Phases
    <3>2. ~streams[call.rs].connection
      BY <1>0, <1>2, <2>2 DEF AttendInv, LatestJob
    <3>3. ~streams'[call.rs].connection
      BY <3>1, <3>2, GentleReset DEF AttendInv, Gentle, Tends, AllFade, Fades
    <3>. QED BY <1>0, <3>3 DEF LatestJob
  <2>3. CASE pc["app"] \notin Opening
    BY <2>1, <2>3 DEF LatestJob, Opening
  <2>. QED BY <2>2, <2>3
<1>. QED BY <1>1, <1>2 DEF Actors

LEMMA LatestRun ==
  ASSUME RefInv, Alive, AttendInv, Run, ~run_start, ~free_results
  PROVE  LatestJob'
<1>0. /\ pc \in [Actors -> Labels] /\ "app" \in Actors /\ "sig" \in Actors
      /\ request_queue \in Seq(Requests) /\ call \in Calling
  BY DEF RefInv, WindowInv, WindowTypes, LockInv, Actors
<1>1. \A label : Goto(label) => pc'["app"] = label /\ pc'["sig"] = pc["sig"]
  BY <1>0 DEF Goto
<1>2. CASE session_run
  <2>1. /\ pc["app"] = "run" /\ UNCHANGED <<streams, call, jobs>>
        /\ Goto("abandon") \/ Goto("run_unlock")
    BY <1>2 DEF session_run, At, Enqueue
  <2>2. pc'["app"] \in {"abandon", "run_unlock"} /\ pc'["sig"] = pc["sig"]
    BY <1>1, <2>1
  <2>. QED BY <2>1, <2>2 DEF AttendInv, LatestJob, Opening
<1>3. CASE session_pull_all
  <2>. DEFINE q == Request(call.kind, call.rs, call.tx)
  <2>1. /\ pc["app"] = "pull" /\ UNCHANGED <<streams, call, jobs>>
        /\ \/ Goto("abandon")
           \/ Goto("pull_unlock") /\ request_queue' = Append(request_queue, q)
           \/ Goto("pull_unlock") /\ ret'.rc = -1
    BY <1>3 DEF session_pull_all, At, Enqueue, Queue
  <2>2. pc'["app"] \in {"abandon", "pull_unlock"} /\ pc'["sig"] = pc["sig"]
    BY <1>1, <2>1
  <2>3. q \in Requests /\ q.of = call.rs /\ q.type \in Statements
    BY <1>0, RequestsTyped DEF Calling, Request
  <2>. HIDE DEF q
  <2>4. /\ pc'["app"] = "pull_unlock" /\ ret'.rc >= 0 => HasPull(request_queue', call.rs)
    <3>1. HasPull(Append(request_queue, q), call.rs)
      BY <1>0, <2>3, HasAppend DEF HasPull
    <3>2. ~(-1 >= 0)
      OBVIOUS
    <3>. SUFFICES ASSUME pc'["app"] = "pull_unlock", ret'.rc >= 0
                  PROVE  HasPull(request_queue', call.rs)
      OBVIOUS
    <3>3. ~Goto("abandon")
      BY <1>1
    <3>4. ret'.rc # -1
      BY <3>2
    <3>5. request_queue' = Append(request_queue, q)
      BY <2>1, <3>3, <3>4
    <3>. QED BY <3>1, <3>5
  <2>5. pc'["app"] # "start"
    BY <2>2
  <2>6. (HasPull(request_queue, call.rs))' <=> HasPull(request_queue', call.rs)
    BY <2>1 DEF HasPull, Has
  <2>. QED BY <2>1, <2>2, <2>4, <2>5, <2>6 DEF AttendInv, LatestJob, Opening
<1>4. CASE session_unlock
  <2>1. /\ pc["app"] \in {"run_unlock", "pull_unlock"}
        /\ UNCHANGED <<request_queue, call, ret, jobs>>
        /\ \/ Goto("abandon")
           \/ pc["app"] = "run_unlock" /\ Goto("pull")
           \/ pc["app"] = "pull_unlock" /\ ~(ret.rc < 0) /\ Goto("start")
    BY <1>4 DEF session_unlock, At
  <2>2. pc["app"] \in Opening
    BY <2>1 DEF Opening
  <2>3. call.rs \in Streams /\ ret.rc \in {-1, 0}
    BY <2>1, <2>2 DEF RefInv, Knows, Phases
  <2>4. streams'[call.rs].connection => streams[call.rs].connection
    BY <2>3, GentleRun DEF AttendInv, Gentle, Tends, AllFade, Fades
  <2>5. /\ pc'["app"] \in {"abandon", "pull", "start"} /\ pc'["sig"] = pc["sig"]
        /\ pc'["app"] = "start" => pc["app"] = "pull_unlock" /\ ret.rc >= 0
    BY <1>1, <2>1, <2>3
  <2>6. (HasPull(request_queue, call.rs))' <=> HasPull(request_queue, call.rs)
    BY <2>1 DEF HasPull, Has
  <2>7. LatestJob
    BY DEF AttendInv
  <2>. QED BY <2>1, <2>2, <2>4, <2>5, <2>6, <2>7 DEF LatestJob
<1>5. CASE abandon \/ return_to_stream \/ return_to_tx
  <2>1. \/ Goto("enter") \/ Goto("free") \/ Goto("idle") \/ Crash
    BY <1>5 DEF abandon, return_to_stream, return_to_tx, run_rs_close, Enter
  <2>2. pc'["app"] \notin Opening
    BY <1>0, <1>1, <2>1 DEF Crash, Opening
  <2>. QED BY <2>2 DEF LatestJob
<1>. QED BY <1>2, <1>3, <1>4, <1>5 DEF Run
-----------------------------------------------------------------------------
LEMMA AttendInit == Init => AttendInv
<1>. SUFFICES ASSUME Init PROVE AttendInv
  OBVIOUS
<1>1. /\ streams = [s \in Streams |-> NoStream] /\ jobs = <<>>
      /\ pc = [a \in Actors |-> "idle"]
  BY DEF Init
<1>2. Framed(NoStream) /\ NoStream.connection = FALSE
  BY DEF NoStream, Framed
<1>3. FramedIn(streams) /\ jobs \in Seq(Streams) /\ Attended(request_queue, streams) /\ Listed
  BY <1>1, <1>2 DEF FramedIn, Attended, Listed
<1>4. LatestJob
  BY <1>1 DEF LatestJob, Opening, Actors
<1>. QED BY <1>1, <1>3, <1>4 DEF AttendInv

\* Of the steps of the program and the handler, only close_start and
\* close_end begin to close the connection or end it.
LEMMA LeavingKept ==
  ASSUME RefInv,
         \/ Start \/ Sync \/ Close \/ Run \/ neo4j_reset
         \/ \E a \in Actors : ResetBy(a)
  PROVE  Leaving' => Leaving \/ jobs' = <<>>
<1>. DEFINE Step(label) == pc' = [pc EXCEPT !["app"] = label]
            Stays == closed' = closed /\ (pc'["app"] \in {"crecv", "cend"} => Leaving)
<1>0. pc \in [Actors -> Labels] /\ "app" \in Actors /\ "sig" \in Actors
  BY DEF RefInv, WindowInv, LockInv, Actors
<1>1. Stays => (Leaving' => Leaving)
  BY DEF Leaving
<1>2. \A label : Step(label) => pc'["app"] = label
  BY <1>0
<1>3. Crash => pc'["app"] = "crashed"
  BY <1>0 DEF Crash
<1>4. CASE Start
  <2>1. CASE close_start
    BY <2>1 DEF close_start
  <2>2. CASE ~close_start
    <3>1. /\ closed' = closed
          /\ \/ pc' = pc
             \/ Step("run") \/ Step("enter") \/ Step("free") \/ Step("alloc") \/ Crash
      BY <1>4, <2>2
         DEF Start, run_open, close_results, check_failure, consume, fetch_next, peek,
             AwaitRecords,
             begin_tx, tx_commit, tx_rollback, free_tx, Enter, Goto, run_rs_close,
             unchangedByCall
    <3>. HIDE DEF Step
    <3>2. Stays
      BY <1>2, <1>3, <3>1 DEF Leaving
    <3>. QED BY <1>1, <3>2
  <2>. QED BY <2>1, <2>2
<1>5. CASE Sync
  <2>1. /\ closed' = closed
        /\ \/ Crash \/ Step("done") \/ Step("lock") \/ Step("loop") \/ Step("reply")
           \/ Step("send") \/ Step("xmit") \/ Step("exit") \/ Step("unlock")
           \/ Step("unlock_ack") \/ Step("rrecv") \/ Step("rfinal") \/ Step("fill")
           \/ Step("enter") \/ Step("alloc")
    BY <1>5 DEF Sync, sync_enter, sync_lock, sync_loop, sync_receive, sync_receive_error,
                send_requests, send_request, sync_exit, sync_unlock, sync_unlock_ack,
                new_request, populate, connVars, Return, FailSync, Goto, ResetFrom
  <2>. HIDE DEF Step
  <2>2. Stays
    BY <1>2, <1>3, <2>1
  <2>. QED BY <1>1, <2>2
<1>6. CASE Close
  BY <1>6 DEF Close, close_receive, close_receive_error, close_end, At, Leaving
<1>7. CASE Run
  <2>1. /\ closed' = closed
        /\ \/ Crash
           \/ Step("abandon") \/ Step("run_unlock") \/ Step("pull_unlock") \/ Step("pull")
           \/ Step("start") \/ Step("idle") \/ Step("enter") \/ Step("free")
    BY <1>7 DEF Run, session_run, session_pull_all, session_unlock, run_start, abandon,
                free_results, return_to_stream, return_to_tx, Enqueue, Enter, Goto,
                run_rs_close, unchangedByCall
  <2>. HIDE DEF Step
  <2>2. Stays
    BY <1>2, <1>3, <2>1
  <2>. QED BY <1>1, <2>2
<1>8. CASE neo4j_reset
  <2>1. closed' = closed /\ pc'["app"] = pc["app"]
    BY <1>0, <1>8 DEF neo4j_reset
  <2>. QED BY <1>1, <2>1 DEF Leaving
<1>9. ASSUME NEW a \in Actors, ResetBy(a)
      PROVE  Leaving' => Leaving
  <2>1. /\ closed' = closed
        /\ \/ Crash
           \/ \E label \in {"idle", "unlock", "rrecv", "rfinal"} : pc' = [pc EXCEPT ![a] = label]
    BY <1>9 DEF ResetBy, reset_receive, reset_reply, reset_error, EndReset
  <2>2. pc'["app"] \in {pc["app"], "crashed", "idle", "unlock", "rrecv", "rfinal"}
    BY <1>0, <1>3, <2>1
  <2>. QED BY <1>1, <2>1, <2>2 DEF Leaving
<1>. QED BY <1>4, <1>5, <1>6, <1>7, <1>8, <1>9

LEMMA AttendStep == RefInv /\ AttendInv /\ [Next]_vars => AttendInv'
<1>. SUFFICES ASSUME RefInv, AttendInv, [Next]_vars PROVE AttendInv'
  OBVIOUS
<1>0. FramedIn(streams) /\ pc \in [Actors -> Labels] /\ "app" \in Actors /\ "sig" \in Actors
  BY DEF AttendInv, RefInv, WindowInv, LockInv, Actors
<1>1. CASE \/ Start \/ Sync \/ Close \/ Run \/ neo4j_reset
           \/ \E a \in Actors : ResetBy(a)
  <2>1. Alive
    BY <1>1, ProgramAlive
  <2>2. Leaving' => Leaving \/ jobs' = <<>>
    BY <1>1, LeavingKept
  <2>3. CASE Start
    <3>1. CASE \E s \in Streams, kind \in Statements, t \in Txs \cup {None} :
                 run_open(s, kind, t)
      BY <3>1, OpenedAttended
    <3>2. CASE ~(\E s \in Streams, kind \in Statements, t \in Txs \cup {None} :
                   run_open(s, kind, t))
      <4>1. Gentle
        BY <1>0, <2>3, <3>2, GentleStart
      <4>2. pc'["app"] \in {"idle", "enter", "free", "alloc", "crecv", "cend", "crashed"}
        BY <1>0, <2>3, <3>2
           DEF Start, close_results, check_failure, consume, fetch_next, peek,
               AwaitRecords, begin_tx,
               tx_commit, tx_rollback, free_tx, close_start, Calls, At, Enter, Goto,
               run_rs_close, unchangedByCall, Crash
      <4>3. LatestJob'
        BY <4>2 DEF LatestJob, Opening
      <4>. QED BY <2>2, <4>1, <4>3, AttendedThen
    <3>. QED BY <3>1, <3>2
  <2>4. CASE Sync
    <3>1. Gentle
      BY <1>0, <2>1, <2>4, GentleSync
    <3>2. pc'["app"] \notin Opening
      BY <1>0, <2>4
         DEF Sync, sync_enter, sync_lock, sync_loop, sync_receive, sync_receive_error,
             send_requests, send_request, sync_exit, sync_unlock, sync_unlock_ack,
             new_request, populate, Return, FailSync, Goto, ResetFrom, Crash, Opening
    <3>. QED BY <2>2, <3>1, <3>2, AttendedThen DEF LatestJob
  <2>5. CASE Close
    <3>1. Gentle
      BY <1>0, <2>1, <2>5, GentleClose
    <3>2. pc'["app"] \notin Opening
      BY <1>0, <2>5 DEF Close, close_receive, close_receive_error, close_end, Goto, Crash,
                        Opening
    <3>. QED BY <2>2, <3>1, <3>2, AttendedThen DEF LatestJob
  <2>6. CASE Run
    <3>1. CASE run_start
      BY <2>1, <3>1, StartedAttended
    <3>2. CASE free_results
      BY <2>1, <3>2, FreedAttended
    <3>3. CASE ~run_start /\ ~free_results
      <4>1. Gentle
        BY <1>0, <2>1, <2>6, <3>3, GentleRun
      <4>2. LatestJob'
        BY <2>1, <2>6, <3>3, LatestRun
      <4>. QED BY <2>2, <4>1, <4>2, AttendedThen
    <3>. QED BY <3>1, <3>2, <3>3
  <2>7. CASE neo4j_reset
    BY <1>0, <2>2, <2>7, GentleSignal, LatestSignal, AttendedThen
  <2>8. ASSUME NEW a \in Actors, ResetBy(a) PROVE AttendInv'
    <3>1. Gentle /\ LatestJob'
      BY <1>0, <2>1, <2>8, GentleReset, LatestReset
    <3>. QED BY <2>2, <3>1, AttendedThen
  <2>. QED BY <1>1, <2>3, <2>4, <2>5, <2>6, <2>7, <2>8
<1>2. CASE ServerStep \/ ServerGoodbye \/ Drop \/ Terminated \/ UNCHANGED vars
  <2>1. UNCHANGED <<pc, streams, jobs, request_queue, closed, call, ret>>
    BY <1>2 DEF ServerStep, ServerGoodbye, Drop, Terminated, vars, connVars, ctlVars
  <2>2. Gentle
    BY <1>0, <2>1, GentleQuiet
  <2>3. LatestJob' /\ (Leaving' => Leaving)
    BY <2>1 DEF AttendInv, LatestJob, Leaving, HasPull, Has
  <2>. QED BY <2>2, <2>3, AttendedThen
<1>. QED BY <1>1, <1>2 DEF Next, Continue, Actors

LEMMA AttendInvariant == Spec => []AttendInv
<1>1. RefInv /\ AttendInv /\ [Next]_vars => AttendInv'
  BY AttendStep
<1>. QED BY <1>1, AttendInit, RefInvariant, PTL DEF Spec

(* The streams of a connection that has been freed do not point to it, as   *)
(* long as the program has one stream at a time: neo4j_close and            *)
(* session_reset cut off the newest job only, and the list they leave is    *)
(* empty, so that of two streams the older keeps a dangling pointer (which  *)
(* TLC shows).  One stream is always the newest job, whatever the server    *)
(* answers and wherever the program is interrupted.                         *)
THEOREM DanglingTheorem ==
  ASSUME \A s, t \in Streams : s = t
  PROVE  Spec => []NoDanglingConnection
<1>1. AttendInv => NoDanglingConnection
  BY DEF AttendInv, OneStream, Leaving, Listed, NoDanglingConnection
<1>. QED BY <1>1, AttendInvariant, PTL
-----------------------------------------------------------------------------
(* What the program can still do after neo4j_close, if no malformed record  *)
(* has left a count too high: read what its streams hold and close them.    *)
(* None of its calls gets into session_sync.                                *)
LateInv ==
  closed /\ Alive =>
    /\ request_queue = <<>> /\ pc["sig"] = "idle"
    /\ pc["app"] \in {"idle", "enter", "done", "free"}
    /\ pc["app"] = "enter" =>
         call.cond # "none" /\ call.rs \in Streams /\ ~streams[call.rs].connection

LEMMA LateStart ==
  ASSUME "BADRECORD" \notin Faults, RefInv, AttendInv, LateInv, closed, Alive, Start
  PROVE  LateInv'
<1>0. /\ pc \in [Actors -> Labels] /\ "app" \in Actors /\ "sig" \in Actors /\ Knows
      /\ request_queue = <<>> /\ pc["sig"] = "idle"
      /\ DOMAIN streams = Streams /\ \A s \in Streams : Framed(streams[s])
  BY DEF RefInv, WindowInv, LockInv, Actors, LateInv, AttendInv, FramedIn
<1>1. ASSUME NEW s \in Streams, close_results(s) PROVE LateInv'
  <2>1. /\ pc["app"] = "idle" /\ streams[s].open
        /\ run_rs_close(s, [Idle EXCEPT !.op = "close_rs", !.rs = s])
        /\ UNCHANGED <<request_queue, closed>>
    BY <1>1 DEF close_results, At, Held, unchangedByCall
  <2>2. streams[s].refcount = 1
    <3>1. Own[s] = 1 /\ Pointers(request_queue, s) = 0
      BY <1>0, <2>1, OwnIdle, PointersNone DEF Knows
    <3>2. Balance(Pointers(request_queue, s), streams[s], Own[s])
      BY <1>0 DEF Knows, Accounts, Balanced
    <3>. QED BY <2>1, <3>1, <3>2 DEF Balance
  <2>3. pc' = [pc EXCEPT !["app"] = "free"]
    BY <2>1, <2>2 DEF run_rs_close, Enter, Goto
  <2>4. pc'["app"] = "free" /\ pc'["sig"] = "idle"
    BY <1>0, <2>3
  <2>. QED BY <1>0, <2>1, <2>4 DEF LateInv
<1>2. ASSUME NEW s \in Streams, fetch_next(s) PROVE LateInv'
  <2>1. pc["app"] = "idle" /\ UNCHANGED <<request_queue, closed>>
    BY <1>2 DEF fetch_next, AwaitRecords, At, unchangedByCall
  <2>2. CASE UNCHANGED pc
    BY <1>0, <2>1, <2>2 DEF LateInv
  <2>3. CASE /\ streams[s].streaming
             /\ streams' = [streams EXCEPT ![s] = Await(@, 1)]
             /\ Enter("enter", [Idle EXCEPT !.op = "fetch", !.rs = s,
                                            !.cond = "awaiting_records"])
    <3>1. ~streams[s].connection
      BY <1>0, <2>3, HasNothing DEF AttendInv, Attended, HasPull
    <3>2. streams'[s] = Await(streams[s], 1)
      BY <1>0, <2>3
    <3>3. ~streams'[s].connection
      BY <1>0, <3>1, <3>2 DEF Await, Framed
    <3>4. call'.cond = "awaiting_records" /\ call'.rs = s
      BY <2>3 DEF Enter, Idle
    <3>5. pc'["app"] = "enter" /\ pc'["sig"] = "idle"
      BY <1>0, <2>3 DEF Enter, Goto
    <3>. QED BY <1>0, <2>1, <3>3, <3>4, <3>5 DEF LateInv
  <2>4. CASE Crash
    <3>1. pc'["app"] = "crashed"
      BY <1>0, <2>4 DEF Crash
    <3>. QED BY <3>1 DEF LateInv, Alive
  <2>. QED BY <1>2, <2>2, <2>3, <2>4 DEF fetch_next, AwaitRecords
<1>3. ASSUME NEW t \in Txs, free_tx(t) PROVE LateInv'
  <2>1. pc["app"] = "idle" /\ UNCHANGED <<request_queue, closed, pc>>
    BY <1>3 DEF free_tx, At, unchangedByCall
  <2>. QED BY <1>0, <2>1 DEF LateInv
<1>. QED BY <1>1, <1>2, <1>3
         DEF Start, run_open, check_failure, consume, peek, begin_tx, tx_commit, tx_rollback,
             close_start, Calls

LEMMA LateStep ==
  "BADRECORD" \notin Faults /\ RefInv /\ AttendInv /\ LateInv /\ [Next]_vars => LateInv'
<1>. SUFFICES ASSUME "BADRECORD" \notin Faults, RefInv, AttendInv, LateInv, [Next]_vars,
                     closed', Alive'
              PROVE  /\ request_queue' = <<>> /\ pc'["sig"] = "idle"
                     /\ pc'["app"] \in {"idle", "enter", "done", "free"}
                     /\ pc'["app"] = "enter" =>
                          /\ call'.cond # "none" /\ call'.rs \in Streams
                          /\ ~streams'[call'.rs].connection
  BY DEF LateInv
<1>0. pc \in [Actors -> Labels] /\ "app" \in Actors /\ "sig" \in Actors
  BY DEF RefInv, WindowInv, LockInv, Actors
<1>. DEFINE Step(label) == pc' = [pc EXCEPT !["app"] = label]
<1>1. CASE \/ Start \/ Sync \/ Close \/ Run \/ neo4j_reset
           \/ \E a \in Actors : ResetBy(a)
  <2>1. Alive /\ ~Crash
    BY <1>0, <1>1, ProgramAlive DEF Crash, Alive
  <2>2. CASE ~closed
    <3>1. close_end
      <4>1. ~Sync /\ ~neo4j_reset /\ \A a \in Actors : ~ResetBy(a)
        BY <2>2 DEF Sync, sync_enter, sync_lock, sync_loop, sync_receive,
                    sync_receive_error, send_requests, send_request, sync_exit, sync_unlock,
                    sync_unlock_ack, new_request, populate, connVars, neo4j_reset, ResetBy,
                    reset_receive, reset_reply, reset_error
      <4>2. ~Start /\ ~Run
        BY <2>2 DEF Start, run_open, close_results, check_failure, consume, fetch_next,
                    peek, AwaitRecords,
                    begin_tx, tx_commit, tx_rollback, free_tx, close_start, Run,
                    session_run, session_pull_all, session_unlock, run_start, abandon,
                    free_results, return_to_stream, return_to_tx, unchangedByCall
      <4>. QED BY <1>1, <2>2, <4>1, <4>2 DEF Close, close_receive, close_receive_error
    <3>2. Step("idle") /\ pc["sig"] = "idle" /\ request_queue' = <<>>
      BY <2>1, <3>1 DEF close_end, At, Goto
    <3>. QED BY <1>0, <3>2
  <2>3. CASE closed
    <3>0. /\ request_queue = <<>> /\ pc["sig"] = "idle"
          /\ pc["app"] \in {"idle", "enter", "done", "free"}
          /\ pc["app"] = "enter" =>
               call.cond # "none" /\ call.rs \in Streams /\ ~streams[call.rs].connection
      BY <2>1, <2>3 DEF LateInv
    <3>1. CASE Start
      BY <2>1, <2>3, <3>1, LateStart DEF LateInv
    <3>2. CASE Sync
      <4>1. sync_enter
        BY <3>0, <3>2 DEF Sync, sync_lock, sync_loop, sync_receive, sync_receive_error,
                          send_requests, send_request, sync_exit, sync_unlock,
                          sync_unlock_ack, new_request, populate, At
      <4>2. Step("done") /\ request_queue' = request_queue
        BY <3>0, <4>1 DEF sync_enter, At, Return, Goto, connVars
      <4>. QED BY <1>0, <3>0, <4>2
    <3>3. ~Close
      BY <3>0 DEF Close, close_receive, close_receive_error, close_end, At
    <3>4. CASE Run
      <4>1. free_results \/ return_to_stream \/ return_to_tx
        BY <3>0, <3>4 DEF Run, session_run, session_pull_all, session_unlock, run_start,
                          abandon, At
      <4>2. (Step("idle") \/ Step("free")) /\ request_queue' = request_queue
        BY <2>1, <4>1 DEF free_results, return_to_stream, return_to_tx, Enter, Goto,
                          unchangedByCall
      <4>. QED BY <1>0, <3>0, <4>2
    <3>5. ~neo4j_reset /\ \A a \in Actors : ~ResetBy(a)
      BY <2>3, <3>0 DEF neo4j_reset, ResetBy, reset_receive, reset_reply, reset_error,
                        Resetting, Actors
    <3>. QED BY <1>1, <3>1, <3>2, <3>3, <3>4, <3>5
  <2>. QED BY <2>2, <2>3
<1>2. CASE ServerStep \/ ServerGoodbye \/ Drop \/ Terminated \/ UNCHANGED vars
  <2>1. UNCHANGED <<pc, streams, request_queue, closed, call>>
    BY <1>2 DEF ServerStep, ServerGoodbye, Drop, Terminated, vars, connVars, ctlVars
  <2>. QED BY <2>1 DEF LateInv, Alive
<1>. QED BY <1>1, <1>2 DEF Next, Continue, Actors

(* The reply that session_reset takes for the reply to RESET is one.  On a  *)
(* connection that is open this is what is on the wire; on one that was     *)
(* closed nobody waits for a reply.                                         *)
THEOREM ResetTheorem ==
  ASSUME Signals
  PROVE  Spec => []ResetAnswered
<1>1. Init => LateInv
  BY DEF Init, LateInv
<1>2. RefInv /\ AttendInv /\ LateInv /\ [Next]_vars => LateInv'
  BY LateStep DEF Signals
<1>3. RefInv /\ LateInv /\ (~closed => ResetAnswered) => ResetAnswered
  <2>. SUFFICES ASSUME RefInv, LateInv, closed, NEW a \in Actors, pc[a] = "rfinal"
                PROVE  FALSE
    BY DEF ResetAnswered
  <2>. QED BY DEF RefInv, LateInv, Alive, Actors
<1>. QED BY <1>1, <1>2, <1>3, ResetOpen, AttendInvariant, RefInvariant, PTL DEF Spec
-----------------------------------------------------------------------------
(* A program without transactions whose calls nobody interrupts, on a       *)
(* connection it keeps.                                                     *)
Undisturbed == Signals /\ MaxResets = 0 /\ Txs = {} /\ "close" \notin Ops

(* What a step keeps of a stream: its failure is the first there was.       *)
Keeps(r, t) ==
  /\ t.open = r.open /\ t.connection = r.connection
  /\ r.failure # "none" \/ ~r.open => t.failure = r.failure

(* The records a stream holds, and those its call still waits for.          *)
Coming(r) == Len(r.records) + r.awaiting_records
Lasts(r, t) == Keeps(r, t) /\ (t.streaming => r.streaming /\ Coming(t) >= Coming(r))

LEMMA KeepsFields ==
  ASSUME NEW r \in StreamRecord
  PROVE  /\ Keeps(r, r) /\ Keeps(r, Pop(r)) /\ Keeps(r, Lost(r)) /\ Keeps(r, Referenced(r))
         /\ Keeps(r, Started(r)) /\ \A n : Keeps(r, Await(r, n))
         /\ Keeps(r, [r EXCEPT !.streaming = FALSE, !.refcount = @ - 1])
  BY DEF Keeps, Pop, Lost, Referenced, Started, Await, StreamRecord

LEMMA LastsFields ==
  ASSUME NEW r \in StreamRecord
  PROVE  /\ Coming(r) \in Nat
         /\ Lasts(r, r)
         /\ Lasts(r, [r EXCEPT !.starting = FALSE, !.refcount = @ - 1])
         /\ Lasts(r, [r EXCEPT !.refcount = @ - 1, !.streaming = FALSE])
         /\ Lasts(r, [r EXCEPT !.statement_type = TRUE])
         /\ \A e : r.failure = "none" /\ r.open => Lasts(r, set_failure(r, e))
         /\ \A type : r.open => Lasts(r, set_eval_failure(r, type))
         /\ \A n : Lasts(r, append_result(r, n))
<1>0. /\ r.records \in Seq(1 .. MaxRecords) /\ Len(r.records) \in Nat
      /\ r.awaiting_records \in 0 .. 2
  BY DEF StreamRecord, Lists, Lacking
<1>1. Coming(r) \in Nat
  BY <1>0 DEF Coming
<1>2. \A t : Keeps(r, t) /\ ~t.streaming => Lasts(r, t)
  BY DEF Lasts
<1>3. \A t : /\ Keeps(r, t) /\ t.streaming = r.streaming
           /\ t.records = r.records /\ t.awaiting_records = r.awaiting_records
           => Lasts(r, t)
  BY <1>1 DEF Lasts, Coming
<1>4. Lasts(r, r) /\ Lasts(r, [r EXCEPT !.starting = FALSE, !.refcount = @ - 1])
      /\ Lasts(r, [r EXCEPT !.statement_type = TRUE])
  <2>1. Lasts(r, r)
    BY <1>3 DEF Keeps
  <2>. DEFINE t == [r EXCEPT !.starting = FALSE, !.refcount = @ - 1]
              u == [r EXCEPT !.statement_type = TRUE]
  <2>2. /\ t.streaming = r.streaming /\ u.streaming = r.streaming
        /\ Keeps(r, t) /\ t.records = r.records /\ t.awaiting_records = r.awaiting_records
        /\ Keeps(r, u) /\ u.records = r.records /\ u.awaiting_records = r.awaiting_records
    BY DEF Keeps, StreamRecord
  <2>. HIDE DEF t, u
  <2>3. Lasts(r, t) /\ Lasts(r, u)
    BY <1>3, <2>2
  <2>. QED BY <2>1, <2>3 DEF t, u
<1>5. Lasts(r, [r EXCEPT !.refcount = @ - 1, !.streaming = FALSE])
  <2>. DEFINE t == [r EXCEPT !.refcount = @ - 1, !.streaming = FALSE]
  <2>1. Keeps(r, t) /\ ~t.streaming
    BY DEF Keeps, StreamRecord
  <2>. HIDE DEF t
  <2>2. Lasts(r, t)
    BY <1>2, <2>1
  <2>. QED BY <2>2 DEF t
<1>6. ASSUME NEW e, r.failure = "none", r.open PROVE Lasts(r, set_failure(r, e))
  <2>1. Keeps(r, set_failure(r, e)) /\ ~set_failure(r, e).streaming
    BY <1>6 DEF Keeps, set_failure, StreamRecord
  <2>. QED BY <1>2, <2>1
<1>7. ASSUME NEW type, r.open PROVE Lasts(r, set_eval_failure(r, type))
  BY <1>4, <1>6, <1>7 DEF set_eval_failure
<1>8. ASSUME NEW n PROVE Lasts(r, append_result(r, n))
  <2>1. CASE ~r.streaming
    BY <1>2, <2>1 DEF append_result, Keeps, StreamRecord
  <2>2. CASE r.streaming
    <3>. DEFINE t == append_result(r, n)
                k == r.awaiting_records
    <3>1. Keeps(r, t)
      BY <2>2 DEF append_result, Keeps, StreamRecord
    <3>2. t.records = Append(r.records, n) /\ t.awaiting_records = IF k > 0 THEN k - 1 ELSE k
      BY <2>2 DEF append_result, StreamRecord
    <3>3. Len(t.records) = Len(r.records) + 1
      BY <1>0, <3>2
    <3>. HIDE DEF t
    <3>4. Len(t.records) + t.awaiting_records >= Len(r.records) + k
      BY <1>0, <3>2, <3>3
    <3>5. Lasts(r, t)
      BY <2>2, <3>1, <3>4 DEF Lasts, Coming
    <3>. QED BY <3>5 DEF t
  <2>. QED BY <2>1, <2>2
<1>. QED BY <1>1, <1>4, <1>5, <1>6, <1>7, <1>8

LEMMA LastsTwice ==
  ASSUME NEW r \in StreamRecord, NEW t \in StreamRecord, NEW u \in StreamRecord,
         Lasts(r, t), Lasts(t, u)
  PROVE  Lasts(r, u)
<1>1. Keeps(r, u)
  BY DEF Lasts, Keeps
<1>2. Coming(r) \in Nat /\ Coming(t) \in Nat /\ Coming(u) \in Nat
  BY LastsFields
<1>3. u.streaming => Coming(u) >= Coming(r)
  BY <1>2 DEF Lasts
<1>. QED BY <1>1, <1>3 DEF Lasts

(* What a callback makes of its stream, told by the reply; NULL leaves the  *)
(* failure as it is.                                                        *)
Told(r, c, type) ==
  /\ c.rc >= 0 => Lasts(r, c.stream)
  /\ type = "NULL" => c.rc = 0 /\ c.stream.failure = r.failure
  /\ type \in {"SUCCESS", "RECORD"} /\ c.rc >= 0 => c.stream.failure = r.failure
  /\ IsFailure(type) \/ (type = "IGNORED" /\ c.rc >= 0) => c.stream.failure # "none"

LEMMA RunTold ==
  ASSUME NEW r \in StreamRecord, NEW type \in ReplyTypes, type = "NULL" \/ (r.open /\ r.connection)
  PROVE  LET c == run_callback(r, type)
         IN  /\ Told(r, c, type) /\ c.assert
             /\ type = "IGNORED" => c.rc >= 0
<1>. DEFINE t == [r EXCEPT !.starting = FALSE, !.refcount = @ - 1]
            c == run_callback(r, type)
            k == [r EXCEPT !.starting = FALSE]
<1>1. /\ t \in StreamRecord /\ Lasts(r, t) /\ t.connection = r.connection /\ t.open = r.open
      /\ t.failure = r.failure /\ t.streaming = r.streaming
  BY LastsFields, StreamFields DEF StreamRecord
<1>. HIDE DEF t
<1>2. {"PREVIOUS_FAILURE"} \subseteq FailureCodes
  BY DEF FailureCodes
<1>3. /\ \A y : set_failure(t, y).failure = y /\ ~set_failure(t, y).streaming
      /\ \A y \in FailureCodes : set_failure(t, y) \in StreamRecord
  <2>1. \A y \in FailureCodes : set_failure(t, y) \in StreamRecord
    BY <1>1, StreamFields
  <2>2. \A y : set_failure(t, y).failure = y /\ ~set_failure(t, y).streaming
    BY <1>1 DEF set_failure, StreamRecord
  <2>. QED BY <2>1, <2>2
<1>4. set_eval_failure(t, type) \in StreamRecord /\ set_eval_failure(t, type).failure # "none"
      /\ (set_eval_failure(t, type).streaming => t.streaming)
  <2>1. set_eval_failure(t, type) \in {t} \cup {set_failure(t, y) : y \in {"TIMED_OUT", "EVALUATION_FAILED"}}
    BY DEF set_eval_failure
  <2>2. set_eval_failure(t, type).failure # "none"
    BY <1>3 DEF set_eval_failure
  <2>3. set_eval_failure(t, type) \in StreamRecord
    BY <1>1, StreamFields
  <2>. QED BY <1>3, <2>1, <2>2, <2>3
<1>5. CASE type = "NULL"
  <2>1. c = Result(t, 0)
    BY <1>5 DEF run_callback, t, IsFailure
  <2>. QED BY <1>1, <1>5, <2>1 DEF Told, Result, IsFailure
<1>6. CASE type # "NULL" /\ t.connection /\ t.open
  <2>1. CASE type \in {"FAILURE", "TIMEOUT"}
    <3>1. c = Result(set_eval_failure(t, type), 0)
      BY <1>6, <2>1 DEF run_callback, t, IsFailure
    <3>2. Lasts(t, set_eval_failure(t, type))
      BY <1>1, <1>6, LastsFields
    <3>3. Lasts(r, set_eval_failure(t, type))
      BY <1>1, <1>4, <3>2, LastsTwice
    <3>. QED BY <1>4, <2>1, <3>1, <3>3 DEF Told, Result, IsFailure
  <2>2. CASE type = "IGNORED"
    <3>. DEFINE u == IF t.failure = "none" THEN set_failure(t, "PREVIOUS_FAILURE") ELSE t
    <3>1. c = Result(u, 0)
      BY <1>6, <2>2 DEF run_callback, t, IsFailure
    <3>2. Lasts(t, u) /\ u \in StreamRecord /\ (u.streaming => t.streaming) /\ u.failure # "none"
      <4>1. CASE t.failure = "none"
        <5>1. Lasts(t, set_failure(t, "PREVIOUS_FAILURE"))
          BY <1>1, <1>6, <4>1, LastsFields
        <5>. QED BY <1>2, <1>3, <4>1, <5>1
      <4>2. CASE t.failure # "none"
        BY <1>1, <4>2, LastsFields
      <4>. QED BY <4>1, <4>2
    <3>. HIDE DEF u
    <3>3. Lasts(r, u)
      BY <1>1, <3>2, LastsTwice
    <3>. QED BY <2>2, <3>1, <3>2, <3>3 DEF Told, Result, IsFailure
  <2>3. CASE type = "SUCCESS"
    <3>1. c = Result(t, 0)
      BY <1>6, <2>3 DEF run_callback, t, IsFailure
    <3>. QED BY <1>1, <2>3, <3>1 DEF Told, Result, IsFailure
  <2>4. CASE type \in {"RECORD", "BADRECORD", "INVALID"}
    <3>1. c = Result(set_failure(t, "EPROTO"), -1)
      BY <1>6, <2>4 DEF run_callback, t, IsFailure
    <3>. QED BY <2>4, <3>1 DEF Told, Result, IsFailure
  <2>. QED BY <1>6, <2>1, <2>2, <2>3, <2>4 DEF ReplyTypes
<1>. QED BY <1>1, <1>5, <1>6

(* The assertions of the callbacks of a statement hold when only the reply  *)
(* that is ignored finds a failure.                                         *)
Blameless(r, c, type) ==
  type # "NULL" /\ (type = "IGNORED" <=> r.failure # "none") =>
    c.assert /\ (type = "IGNORED" => c.rc >= 0)

LEMMA EndTold ==
  ASSUME NEW t \in StreamRecord, ~t.streaming, NEW type \in ReplyTypes \ {"RECORD", "BADRECORD"},
         type = "NULL" \/ (t.open /\ t.connection)
  PROVE  LET c == stream_end(t, type)
         IN  /\ Told(t, c, type) /\ Blameless(t, c, type)
             /\ c.rc >= 0 => ~c.stream.streaming
<1>. DEFINE c == stream_end(t, type)
<1>0. Lasts(t, t)
  BY LastsFields
<1>1. CASE type = "NULL"
  <2>1. c = Result(t, 0)
    BY <1>1 DEF stream_end, IsFailure
  <2>2. c.stream = t /\ c.rc = 0
    BY <2>1 DEF Result
  <2>. HIDE DEF c
  <2>3. Told(t, c, type) /\ Blameless(t, c, type) /\ ~c.stream.streaming
    BY <1>0, <1>1, <2>2 DEF Told, Blameless, IsFailure
  <2>. QED BY <2>3 DEF c
<1>2. CASE t.open /\ t.connection /\ type # "NULL"
  <2>1. CASE type = "IGNORED"
    <3>1. c = IF t.failure = "none" THEN Result(set_failure(t, "EPROTO"), -1)
              ELSE Result(t, 0)
      BY <1>2, <2>1 DEF stream_end, IsFailure
    <3>2. CASE t.failure = "none"
      <4>1. c.rc = -1
        BY <3>1, <3>2 DEF Result
      <4>. HIDE DEF c
      <4>2. Told(t, c, type) /\ Blameless(t, c, type) /\ ~(c.rc >= 0)
        BY <2>1, <3>2, <4>1 DEF Told, Blameless, IsFailure
      <4>. QED BY <4>2 DEF c
    <3>3. CASE t.failure # "none"
      <4>1. c.stream = t /\ c.rc = 0 /\ c.assert
        BY <3>1, <3>3 DEF Result
      <4>. HIDE DEF c
      <4>2. Told(t, c, type) /\ Blameless(t, c, type) /\ ~c.stream.streaming
        BY <1>0, <2>1, <3>3, <4>1 DEF Told, Blameless, IsFailure
      <4>. QED BY <4>2 DEF c
    <3>. QED BY <3>2, <3>3
  <2>2. CASE type \in {"FAILURE", "TIMEOUT"}
    <3>1. c = [Result(set_eval_failure(t, type), 0) EXCEPT !.assert = t.failure = "none"]
      BY <1>2, <2>2 DEF stream_end, IsFailure
    <3>2. /\ c.stream = set_eval_failure(t, type) /\ c.rc = 0 /\ c.assert = (t.failure = "none")
      BY <3>1 DEF Result
    <3>3. Lasts(t, set_eval_failure(t, type))
      BY <1>2, LastsFields
    <3>4. set_eval_failure(t, type).failure # "none" /\ ~set_eval_failure(t, type).streaming
      BY DEF set_eval_failure, set_failure, StreamRecord
    <3>. QED BY <2>2, <3>2, <3>3, <3>4 DEF Told, Blameless, IsFailure
  <2>3. CASE type = "SUCCESS"
    <3>. DEFINE u == [t EXCEPT !.statement_type = TRUE]
    <3>1. c = [Result(u, 0) EXCEPT !.assert = t.failure = "none"]
      BY <1>2, <2>3 DEF stream_end, IsFailure
    <3>2. Lasts(t, u) /\ ~u.streaming /\ u.failure = t.failure
      BY LastsFields DEF StreamRecord
    <3>. HIDE DEF u
    <3>3. c.stream = u /\ c.rc = 0 /\ c.assert = (t.failure = "none")
      BY <3>1 DEF Result
    <3>. QED BY <2>3, <3>2, <3>3 DEF Told, Blameless, IsFailure
  <2>4. CASE type = "INVALID"
    <3>1. c = [Result(set_failure(t, "EPROTO"), -1) EXCEPT !.assert = t.failure = "none"]
      BY <1>2, <2>4 DEF stream_end, IsFailure
    <3>2. c.rc = -1 /\ c.assert = (t.failure = "none")
      BY <3>1 DEF Result
    <3>. HIDE DEF c
    <3>3. Told(t, c, type) /\ Blameless(t, c, type) /\ ~(c.rc >= 0)
      <4>1. ~(c.rc >= 0)
        BY <3>2
      <4>2. Told(t, c, type)
        BY <2>4, <4>1 DEF Told, IsFailure
      <4>3. Blameless(t, c, type)
        BY <2>4, <3>2 DEF Blameless
      <4>. QED BY <4>1, <4>2, <4>3
    <3>. QED BY <3>3 DEF c
  <2>. QED BY <1>2, <2>1, <2>2, <2>3, <2>4 DEF ReplyTypes
<1>. QED BY <1>1, <1>2

\* The end of a stream, whichever of the two asked for it.
LEMMA EndedTold ==
  ASSUME NEW r \in StreamRecord, NEW type \in ReplyTypes \ {"RECORD", "BADRECORD"},
         type = "NULL" \/ (r.open /\ r.connection)
  PROVE  LET u == [r EXCEPT !.refcount = @ - 1, !.streaming = FALSE]
             c == stream_end(u, type)
         IN  Told(r, c, type) /\ Blameless(r, c, type)
<1>. DEFINE u == [r EXCEPT !.refcount = @ - 1, !.streaming = FALSE]
            c == stream_end(u, type)
<1>1. /\ u \in StreamRecord /\ Lasts(r, u) /\ ~u.streaming
      /\ u.open = r.open /\ u.connection = r.connection /\ u.failure = r.failure
  <2>1. u \in StreamRecord
    BY StreamFields
  <2>2. Lasts(r, u)
    BY LastsFields
  <2>3. /\ ~u.streaming
        /\ u.open = r.open /\ u.connection = r.connection /\ u.failure = r.failure
    BY DEF StreamRecord
  <2>. QED BY <2>1, <2>2, <2>3
<1>. HIDE DEF u
<1>2. /\ Told(u, c, type) /\ Blameless(u, c, type)
      /\ c.rc >= 0 => ~c.stream.streaming
  BY <1>1, EndTold
<1>3. c.rc >= 0 => Lasts(r, c.stream)
  BY <1>1, <1>2 DEF Told, Lasts, Keeps
<1>. HIDE DEF c
<1>4. Told(r, c, type) /\ Blameless(r, c, type)
  BY <1>1, <1>2, <1>3 DEF Told, Blameless
<1>. QED BY <1>4 DEF c, u

LEMMA PullTold ==
  ASSUME NEW r \in StreamRecord, NEW type \in ReplyTypes \ {"BADRECORD"}, NEW n,
         type = "NULL" \/ (r.open /\ r.connection)
  PROVE  LET c == pull_all_callback(r, type, n)
         IN  Told(r, c, type) /\ Blameless(r, c, type)
<1>. DEFINE u == [r EXCEPT !.refcount = @ - 1, !.streaming = FALSE]
            c == pull_all_callback(r, type, n)
<1>1. CASE type = "RECORD"
  <2>1. c = Result(append_result(r, n), 1)
    BY <1>1 DEF pull_all_callback
  <2>2. Lasts(r, append_result(r, n)) /\ append_result(r, n).failure = r.failure
    BY LastsFields DEF append_result, StreamRecord
  <2>3. c.stream = append_result(r, n) /\ c.rc = 1 /\ c.assert
    BY <2>1 DEF Result
  <2>. QED BY <1>1, <2>2, <2>3 DEF Told, Blameless, IsFailure
<1>2. CASE type # "RECORD"
  <2>1. c = stream_end(u, type)
    BY <1>2 DEF pull_all_callback
  <2>. QED BY <1>2, <2>1, EndedTold
<1>. QED BY <1>1, <1>2

LEMMA DiscardTold ==
  ASSUME NEW r \in StreamRecord, NEW type \in ReplyTypes \ {"RECORD", "BADRECORD"},
         type = "NULL" \/ (r.open /\ r.connection)
  PROVE  LET c == discard_all_callback(r, type)
         IN  Told(r, c, type) /\ Blameless(r, c, type)
<1>. DEFINE u == [r EXCEPT !.refcount = @ - 1, !.streaming = FALSE]
            c == discard_all_callback(r, type)
<1>1. c = stream_end(u, type)
  BY DEF discard_all_callback
<1>. QED BY <1>1, EndedTold

(* When a queue is drained nothing is said to the streams.                  *)
LEMMA DrainedLasts ==
  ASSUME NEW q, NEW st, Recorded(st), NEW s \in Streams
  PROVE  LET d == DrainedStreams(q, st)
         IN  /\ Lasts(st[s], d[s]) /\ d[s].failure = st[s].failure
<1>. DEFINE d == DrainedStreams(q, st)
            After == IF HasRun(q, s) THEN run_callback(st[s], "NULL").stream ELSE st[s]
<1>1. d[s] = IF HasPull(q, s)
             THEN pull_all_callback(After, "NULL", 0).stream ELSE After
  BY DEF DrainedStreams, HasRun, HasPull, Has
<1>2. "NULL" \in ReplyTypes \ {"BADRECORD"} /\ st[s] \in StreamRecord
  BY DEF ReplyTypes, Recorded
<1>3. /\ After \in StreamRecord /\ Lasts(st[s], After) /\ After.failure = st[s].failure
  <2>1. run_callback(st[s], "NULL").stream \in StreamRecord
    BY <1>2, CallbackFields
  <2>2. Told(st[s], run_callback(st[s], "NULL"), "NULL")
    BY <1>2, RunTold
  <2>3. Lasts(st[s], st[s])
    BY <1>2, LastsFields
  <2>4. run_callback(st[s], "NULL").rc = 0
    BY <2>2 DEF Told
  <2>. QED BY <1>2, <2>1, <2>2, <2>3, <2>4 DEF Told
<1>. HIDE DEF After
<1>4. LET c == pull_all_callback(After, "NULL", 0)
      IN  /\ c.stream \in StreamRecord /\ Lasts(After, c.stream) /\ ~c.stream.streaming
          /\ c.stream.failure = After.failure
  <2>1. pull_all_callback(After, "NULL", 0).stream \in StreamRecord
    BY <1>2, <1>3, CallbackFields
  <2>2. Told(After, pull_all_callback(After, "NULL", 0), "NULL")
    BY <1>2, <1>3, PullTold
  <2>3. ~pull_all_callback(After, "NULL", 0).stream.streaming
    BY <1>3 DEF pull_all_callback, stream_end, Result, StreamRecord, IsFailure
  <2>. QED BY <2>1, <2>2, <2>3 DEF Told
<1>. HIDE DEF d
<1>5. Lasts(st[s], d[s]) /\ d[s].failure = st[s].failure
  BY <1>1, <1>2, <1>3, <1>4, LastsTwice
<1>. QED BY <1>5 DEF d

(* Without signals and transactions, and as long as it is not closed, such  *)
(* a program is in a call on a stream it has open, over a connection that   *)
(* works, and no call on a stream fails.                                    *)
Working ==
  /\ ~failed /\ ~closed /\ ~broken /\ ~reset_requested /\ pc["sig"] = "idle"
  /\ pc["app"] \notin {"rrecv", "rfinal", "crecv", "cend"}
  /\ call.fill.type = "ACK"
  /\ \A i \in DOMAIN request_queue : request_queue[i].type \notin TxRequests
  /\ pc["app"] \notin {"idle", "crashed"} => call.rs \in Streams /\ streams[call.rs].open
  /\ pc["app"] \in {"unlock", "done"} => ret.rc = 0
Connected ==
  \A s \in Streams : IF streams[s].open THEN streams[s].connection ELSE streams[s].failure = "none"
WorkInv == Working /\ Connected

Known == RefInv /\ WireInv /\ Serving /\ StreamInv /\ TypeInv

LEMMA Prepared ==
  ASSUME Undisturbed, Known, WorkInv, Alive
  PROVE  Signals /\ Ready /\ Recorded(streams) /\ WireTyped /\ InOrder
<1>1. InUse
  BY DEF WorkInv, Working, InUse
<1>2. Signals /\ Wired /\ Alone
  BY <1>1 DEF Undisturbed, Known, WireInv
<1>. QED BY <1>1, <1>2
         DEF Known, Ready, StreamInv, TypeInv, StreamsTyped, Wired

\* The next reply: who it is for, and what it does to the stream.
Reaction(r, h, m) ==
  /\ h \in Requests /\ Fits(h) /\ m.to = h /\ Accepted(m)
  /\ h.type \in {"RUN", "ACK"} \cup Statements
  /\ failure["app"] => m.type = "IGNORED" /\ h.type # "ACK"
  /\ r.rc < 0 => r.crash
  /\ h.type = "ACK" => r.streams = streams /\ ~r.crash /\ r.rc = 0
  /\ OfStream(h) =>
       /\ h.of \in Streams /\ streams[h.of].open
       /\ \A s \in Streams \ {h.of} : r.streams[s] = streams[s]
       /\ \E c : /\ Told(streams[h.of], c, m.type) /\ r.streams[h.of] = c.stream
                 /\ r.rc = c.rc
                 /\ (r.crash <=> ~c.assert \/ (c.rc < 0 /\ m.type = "IGNORED"))
                 /\ h.type = "RUN" => c.assert /\ (m.type = "IGNORED" => c.rc >= 0)
                 /\ h.type \in Statements => Blameless(streams[h.of], c, m.type)

LEMMA ReceivedTold ==
  ASSUME Undisturbed, Known, WorkInv, Alive, Receives("app"), server' = server
  PROVE  Reaction(Received("app"), Head(request_queue), Head(toClient))
<1>. DEFINE r == Received("app")
            m == Head(toClient)
            h == Head(request_queue)
            cb == Callback(h, m, streams, txs)
<1>1. /\ RefInv /\ Mirrors /\ Records /\ InOrder /\ Recorded(streams) /\ "app" \in Actors
      /\ inflight_requests > 0 /\ Reply /\ toClient # <<>> /\ toClient' = Tail(toClient)
  BY Prepared DEF Ready, Wired, Receives, Reply, Actors
<1>2. /\ h \in Requests /\ Fits(h) /\ 1 \in DOMAIN request_queue /\ h = request_queue[1]
  BY <1>1, HeadFits
<1>3. m \in Messages /\ m.to = h /\ Accepted(m) /\ r.rc \in {-1, 0, 1}
  BY <1>1, ReceivedReply, OrderTail
<1>4. failure["app"] => m.type = "IGNORED" /\ h.type # "ACK"
  BY <1>1, <1>2, FailureFollowed
<1>5. h.type \in {"RUN", "ACK"} \cup Statements
  <2>1. h.type \notin TxRequests
    BY <1>2 DEF WorkInv, Working
  <2>. QED BY <1>2, <2>1 DEF Fits, Answerable
<1>6. r.rc < 0 => r.crash
  <2>1. ~Unexpected("app")
    BY <1>4 DEF Unexpected
  <2>2. h.type \notin TxRequests
    BY <1>5 DEF Statements, TxRequests
  <2>. QED BY <1>1, <1>3, <2>1, <2>2, ReceivedReply
<1>7. /\ r.streams = cb.streams /\ r.rc = cb.rc
      /\ r.crash <=> (~cb.assert \/ (cb.rc < 0 /\ m.type = "IGNORED"))
  BY <1>4 DEF Received
<1>8. m.type \in ReplyTypes \ {"NULL", "BADRECORD"} /\ m.type # "GARBLED"
      /\ (m.type = "RECORD" => h.type = "PULL_ALL")
  <2>1. m.type \in {"SUCCESS", "FAILURE", "TIMEOUT", "IGNORED", "RECORD"}
    BY <1>3 DEF Accepted
  <2>2. m.type = "RECORD" => m \notin FinalReplies
    BY DEF FinalReplies
  <2>3. m = toClient[1] /\ 1 \in DOMAIN toClient
    BY <1>1, WindowKnown, TailOf
  <2>. QED BY <1>1, <1>3, <2>1, <2>2, <2>3 DEF Records, ForStatement, ReplyTypes
<1>9. CASE h.type = "ACK"
  <2>1. m.type = "SUCCESS"
    BY <1>3, <1>9 DEF Accepted, IsReset
  <2>2. /\ cb.streams = streams /\ cb.rc = 0 /\ cb.assert
    BY <1>9, <2>1 DEF Callback, Statements, TxRequests
  <2>3. ~OfStream(h)
    BY <1>9 DEF OfStream, Statements
  <2>4. r.streams = streams /\ ~r.crash /\ r.rc = 0
    BY <1>7, <2>1, <2>2
  <2>. HIDE DEF r, m, h, cb
  <2>. QED BY <1>2, <1>3, <1>4, <1>5, <1>6, <2>3, <2>4 DEF Reaction, r, m, h
<1>10. CASE OfStream(h)
  <2>1. h.of \in Streams /\ streams[h.of] \in StreamRecord
    BY <1>1, <1>2, <1>10 DEF Fits, Recorded
  <2>2. streams[h.of].open /\ streams[h.of].connection
    <3>1. HasRun(request_queue, h.of) \/ HasPull(request_queue, h.of)
      BY <1>2, <1>10 DEF HasRun, HasPull, Has, OfStream
    <3>2. Balance(Pointers(request_queue, h.of), streams[h.of], Own[h.of])
      BY <1>1, <2>1 DEF RefInv, Knows, Accounts, Balanced
    <3>3. streams[h.of].open
      BY <3>1, <3>2 DEF Balance, Pointers, Bit
    <3>. QED BY <2>1, <3>3 DEF WorkInv, Connected
  <2>3. \E c : /\ Told(streams[h.of], c, m.type) /\ cb.streams = [streams EXCEPT ![h.of] = c.stream]
               /\ cb.rc = c.rc /\ (cb.assert <=> c.assert)
               /\ h.type = "RUN" => c.assert /\ (m.type = "IGNORED" => c.rc >= 0)
               /\ h.type \in Statements => Blameless(streams[h.of], c, m.type)
    <3>1. CASE h.type = "RUN"
      <4>. DEFINE c == run_callback(streams[h.of], m.type)
      <4>1. cb.streams = [streams EXCEPT ![h.of] = c.stream] /\ cb.rc = c.rc /\ (cb.assert <=> c.assert)
        BY <3>1 DEF Callback, Statements, TxRequests
      <4>2. Told(streams[h.of], c, m.type) /\ c.assert /\ (m.type = "IGNORED" => c.rc >= 0)
        BY <1>8, <2>1, <2>2, RunTold
      <4>3. h.type \notin Statements
        BY <3>1 DEF Statements
      <4>. HIDE DEF c, cb, h, m
      <4>. QED BY <4>1, <4>2, <4>3
    <3>2. CASE h.type = "PULL_ALL"
      <4>. DEFINE c == pull_all_callback(streams[h.of], m.type, m.n)
      <4>1. cb.streams = [streams EXCEPT ![h.of] = c.stream] /\ cb.rc = c.rc /\ (cb.assert <=> c.assert)
        BY <3>2 DEF Callback, Statements, TxRequests
      <4>2. Told(streams[h.of], c, m.type) /\ Blameless(streams[h.of], c, m.type)
        BY <1>8, <2>1, <2>2, PullTold
      <4>. HIDE DEF c, cb, h, m
      <4>. QED BY <3>2, <4>1, <4>2
    <3>3. CASE h.type = "DISCARD_ALL"
      <4>. DEFINE c == discard_all_callback(streams[h.of], m.type)
      <4>1. cb.streams = [streams EXCEPT ![h.of] = c.stream] /\ cb.rc = c.rc /\ (cb.assert <=> c.assert)
        BY <3>3 DEF Callback, Statements, TxRequests
      <4>2. Told(streams[h.of], c, m.type) /\ Blameless(streams[h.of], c, m.type)
        BY <1>8, <2>1, <2>2, <3>3, DiscardTold
      <4>. HIDE DEF c, cb, h, m
      <4>. QED BY <3>3, <4>1, <4>2
    <3>. QED BY <1>10, <3>1, <3>2, <3>3 DEF OfStream, Statements
  <2>4. h.type # "ACK"
    BY <1>10 DEF OfStream, Statements
  <2>. HIDE DEF r, m, h, cb
  <2>5. PICK c : /\ Told(streams[h.of], c, m.type) /\ cb.streams = [streams EXCEPT ![h.of] = c.stream]
                 /\ cb.rc = c.rc /\ (cb.assert <=> c.assert)
                 /\ h.type = "RUN" => c.assert /\ (m.type = "IGNORED" => c.rc >= 0)
                 /\ h.type \in Statements => Blameless(streams[h.of], c, m.type)
    BY <2>3
  <2>6. /\ r.streams[h.of] = c.stream
        /\ \A s \in Streams \ {h.of} : r.streams[s] = streams[s]
    BY <1>1, <1>7, <2>1, <2>5 DEF Recorded
  <2>7. /\ r.rc = c.rc
        /\ (r.crash <=> ~c.assert \/ (c.rc < 0 /\ m.type = "IGNORED"))
    BY <1>3, <1>7, <2>5
  <2>. QED BY <1>2, <1>3, <1>4, <1>5, <1>6, <2>1, <2>2, <2>4, <2>5, <2>6, <2>7
           DEF Reaction, r, m, h
<1>. QED BY <1>5, <1>9, <1>10 DEF OfStream

LEMMA ReceivedLasts ==
  ASSUME Undisturbed, Known, WorkInv, Alive, Receives("app"), server' = server,
         ~Received("app").crash
  PROVE  /\ Recorded(Received("app").streams)
         /\ Received("app").rc >= 0
         /\ \A s \in Streams : Lasts(streams[s], Received("app").streams[s])
<1>. DEFINE r == Received("app")
            h == Head(request_queue)
<1>1. Reaction(r, h, Head(toClient)) /\ Recorded(streams)
  BY Prepared, ReceivedTold
<1>2. Recorded(r.streams)
  <2>1. r.streams # streams => \E t \in StreamRecord : r.streams = [streams EXCEPT ![h.of] = t]
    BY Prepared, ReceivedRecorded DEF Actors
  <2>. HIDE DEF r, h
  <2>2. \A t \in StreamRecord : Recorded([streams EXCEPT ![h.of] = t])
    BY <1>1, StreamSet
  <2>. QED BY <1>1, <2>1, <2>2
<1>. HIDE DEF r, h
<1>3. \A s \in Streams : Lasts(streams[s], streams[s])
  BY <1>1, LastsFields DEF Recorded
<1>4. r.rc >= 0 /\ r.rc \in {-1, 0, 1}
  <2>1. r.rc \in {-1, 0, 1}
    BY Prepared, ReceivedReply DEF r, Ready, Wired, Receives, Actors
  <2>2. ~(r.rc < 0)
    BY <1>1 DEF Reaction, r
  <2>. QED BY <2>1, <2>2
<1>5. CASE h.type = "ACK"
  BY <1>1, <1>2, <1>3, <1>4, <1>5 DEF Reaction, r
<1>6. CASE OfStream(h)
  <2>1. \A s \in Streams : Lasts(streams[s], r.streams[s])
    BY <1>1, <1>3, <1>4, <1>6 DEF Reaction, Told
  <2>. QED BY <1>2, <1>4, <2>1 DEF r
<1>. QED BY <1>1, <1>5, <1>6 DEF Reaction, OfStream

LEMMA SyncLasts ==
  ASSUME Undisturbed, Known, WorkInv, Alive, Sync
  PROVE  \A s \in Streams : Lasts(streams[s], streams'[s])
<1>0. Ready /\ Recorded(streams) /\ ~broken /\ ~NoReply
  BY Prepared, NoErrors DEF Ready, WorkInv, Working
<1>1. \A s \in Streams : Lasts(streams[s], streams[s])
  BY <1>0, LastsFields DEF Recorded
<1>2. CASE \/ sync_enter \/ sync_lock \/ sync_loop \/ send_requests \/ sync_unlock
           \/ sync_unlock_ack \/ new_request \/ populate
  <2>1. streams' = streams
    BY <1>2 DEF sync_enter, sync_lock, sync_loop, send_requests, sync_unlock,
                sync_unlock_ack, new_request, populate
  <2>. QED BY <1>1, <2>1
<1>3. ~sync_receive_error
  BY <1>0 DEF sync_receive_error
<1>4. CASE send_request
  BY <1>0, <1>1, <1>4 DEF send_request
<1>5. CASE sync_exit
  <2>1. streams' = streams
    BY <1>5 DEF sync_exit, WorkInv, Working
  <2>. QED BY <1>1, <2>1
<1>6. CASE sync_receive
  <2>. DEFINE r == Received("app")
  <2>1. Receives("app") /\ server' = server
    BY <1>6 DEF sync_receive, At, Receives, Reading, Ready, RefInv, WindowInv, Expecting, Known
  <2>2. CASE r.crash
    <3>1. streams' = streams
      BY <1>6, <2>2 DEF sync_receive
    <3>. QED BY <1>1, <3>1
  <2>3. CASE ~r.crash
    <3>1. /\ Recorded(r.streams) /\ r.rc >= 0
          /\ \A s \in Streams : Lasts(streams[s], r.streams[s])
      BY <2>1, <2>3, ReceivedLasts
    <3>2. ~(r.rc < 0)
      <4>1. r.rc \in {-1, 0, 1}
        BY <1>0, <2>1, ReceivedReply DEF Ready, Wired, Receives, Actors
      <4>. QED BY <3>1, <4>1
    <3>3. streams' \in {r.streams, DrainedStreams(r.queue, r.streams)}
      BY <1>6, <2>3, <3>2 DEF sync_receive
    <3>. HIDE DEF r
    <3>4. \A s \in Streams : Lasts(streams[s], DrainedStreams(r.queue, r.streams)[s])
      <4>. SUFFICES ASSUME NEW s \in Streams
                    PROVE  Lasts(streams[s], DrainedStreams(r.queue, r.streams)[s])
        OBVIOUS
      <4>1. Recorded(DrainedStreams(r.queue, r.streams))
        BY <3>1, DrainedRecorded
      <4>2. Lasts(r.streams[s], DrainedStreams(r.queue, r.streams)[s])
        BY <3>1, DrainedLasts
      <4>. QED BY <1>0, <3>1, <4>1, <4>2, LastsTwice DEF Recorded
    <3>. QED BY <3>1, <3>3, <3>4
  <2>. QED BY <2>2, <2>3
<1>. QED BY <1>2, <1>3, <1>4, <1>5, <1>6 DEF Sync

\* The calls of the program, but for opening and freeing a stream.
LEMMA OneKeeps ==
  ASSUME Recorded(streams), NEW s \in Streams, NEW t, Keeps(streams[s], t),
         streams' = [streams EXCEPT ![s] = t]
  PROVE  \A x \in Streams : Keeps(streams[x], streams'[x])
  BY KeepsFields DEF Recorded

LEMMA AllKeeps ==
  ASSUME Undisturbed, Known, WorkInv, Alive, Start \/ Run, ~free_results,
         \A s \in Streams, kind \in Statements, t \in Txs \cup {None} : ~run_open(s, kind, t)
  PROVE  \A s \in Streams : Keeps(streams[s], streams'[s])
<1>0. Recorded(streams) /\ Txs = {} /\ "close" \notin Ops
  BY Prepared DEF Undisturbed
<1>1. \A s \in Streams : streams[s] \in StreamRecord /\ Keeps(streams[s], streams[s])
  BY <1>0, KeepsFields DEF Recorded
<1>2. ASSUME NEW s \in Streams, NEW c, run_rs_close(s, c)
      PROVE  \A x \in Streams : Keeps(streams[x], streams'[x])
  <2>1. streams' = [streams EXCEPT ![s].streaming = FALSE, ![s].refcount = @ - 1]
    BY <1>2 DEF run_rs_close
  <2>2. \A x \in Streams : x # s => streams'[x] = streams[x]
    BY <1>0, <2>1 DEF Recorded
  <2>3. Keeps(streams[s], streams'[s])
    BY <1>0, <1>1, <2>1 DEF Recorded, StreamRecord, Keeps
  <2>. QED BY <1>1, <2>2, <2>3
<1>3. CASE Start
  <2>1. ASSUME NEW s \in Streams, close_results(s)
        PROVE  \A x \in Streams : Keeps(streams[x], streams'[x])
    BY <1>2, <2>1 DEF close_results
  <2>2. ASSUME NEW s \in Streams, check_failure(s) \/ consume(s)
        PROVE  \A x \in Streams : Keeps(streams[x], streams'[x])
    BY <1>1, <2>2 DEF check_failure, consume
  <2>3. ASSUME NEW s \in Streams, fetch_next(s) \/ peek(s)
        PROVE  \A x \in Streams : Keeps(streams[x], streams'[x])
    <3>1. \/ streams' = [streams EXCEPT ![s] = Pop(@)]
          \/ \E n : streams' = [streams EXCEPT ![s] = Await(@, n)]
          \/ streams' = streams
      BY <2>3 DEF fetch_next, peek, AwaitRecords
    <3>2. Keeps(streams[s], Pop(streams[s])) /\ \A n : Keeps(streams[s], Await(streams[s], n))
      BY <1>1, KeepsFields
    <3>3. CASE streams' = [streams EXCEPT ![s] = Pop(@)]
      BY <1>0, <3>2, <3>3, OneKeeps
    <3>4. CASE \E n : streams' = [streams EXCEPT ![s] = Await(@, n)]
      <4>1. PICK n : streams' = [streams EXCEPT ![s] = Await(@, n)]
        BY <3>4
      <4>. QED BY <1>0, <3>2, <4>1, OneKeeps
    <3>. QED BY <1>1, <3>1, <3>3, <3>4
  <2>4. ~close_start
    BY <1>0 DEF close_start
  <2>. QED BY <1>0, <1>3, <2>1, <2>2, <2>3, <2>4 DEF Start
<1>4. CASE Run
  <2>0. pc["app"] \notin {"idle", "crashed"} => call.rs \in Streams
    BY DEF WorkInv, Working
  <2>1. CASE session_run \/ session_pull_all
    BY <1>1, <2>1 DEF session_run, session_pull_all
  <2>2. CASE session_unlock
    <3>1. call.rs \in Streams
      BY <2>0, <2>2 DEF session_unlock, At
    <3>2. Keeps(streams[call.rs], Referenced(streams[call.rs]))
      BY <1>1, <3>1, KeepsFields
    <3>3. CASE streams' = streams
      BY <1>1, <3>3
    <3>4. CASE streams' = [streams EXCEPT ![call.rs] = Referenced(@)]
      BY <1>0, <3>1, <3>2, <3>4, OneKeeps
    <3>. QED BY <2>2, <3>3, <3>4 DEF session_unlock
  <2>3. CASE run_start
    <3>1. call.rs \in Streams
      BY <2>0, <2>3 DEF run_start, At
    <3>2. Keeps(streams[call.rs], Started(streams[call.rs]))
      BY <1>1, <3>1, KeepsFields
    <3>. QED BY <1>0, <2>3, <3>1, <3>2, OneKeeps DEF run_start
  <2>4. CASE abandon
    <3>1. call.rs \in Streams
      BY <2>0, <2>4 DEF abandon, At
    <3>. QED BY <1>2, <2>4, <3>1 DEF abandon
  <2>5. CASE return_to_stream
    <3>. DEFINE s == streams[call.rs]
    <3>1. call.rs \in Streams /\ ret.rc = 0
      BY <2>0, <2>5 DEF return_to_stream, At, WorkInv, Working
    <3>2. Awaited(s) = s
      BY <3>1 DEF Awaited
    <3>3. \E t \in {s, Pop(s), Lost(s)} : streams' = [streams EXCEPT ![call.rs] = t]
      BY <2>5, <3>2 DEF return_to_stream
    <3>4. \A t \in {s, Pop(s), Lost(s)} : Keeps(s, t)
      BY <1>1, <3>1, KeepsFields
    <3>. HIDE DEF s
    <3>5. PICK t \in {s, Pop(s), Lost(s)} : streams' = [streams EXCEPT ![call.rs] = t]
      BY <3>3
    <3>. QED BY <1>0, <3>1, <3>4, <3>5, OneKeeps DEF s
  <2>6. ~return_to_tx
    BY <2>0, NoneAssumption DEF return_to_tx, At
  <2>. QED BY <1>4, <2>1, <2>2, <2>3, <2>4, <2>5, <2>6 DEF Run
<1>. QED BY <1>3, <1>4

\* The conditions on the connection, the queue and the call.
NoTxs(q) == \A i \in DOMAIN q : q[i].type \notin TxRequests

LEMMA NoTxsKept ==
  ASSUME NEW q \in Seq(Requests), NoTxs(q)
  PROVE  /\ NoTxs(<<>>)
         /\ q # <<>> => NoTxs(Tail(q))
         /\ \A x \in Requests : x.type \notin TxRequests => NoTxs(Append(q, x))
         /\ \A x \in Requests : x.type \notin TxRequests => NoTxs([q EXCEPT ![Len(q)] = x])
<1>1. NoTxs(<<>>)
  BY DEF NoTxs
<1>2. ASSUME q # <<>> PROVE NoTxs(Tail(q))
  <2>1. /\ DOMAIN Tail(q) = 1 .. Len(q) - 1 /\ DOMAIN q = 1 .. Len(q) /\ Len(q) \in Nat
        /\ \A i \in 1 .. Len(q) - 1 : Tail(q)[i] = q[i + 1]
    BY <1>2, HeadTailProperties
  <2>. QED BY <2>1 DEF NoTxs
<1>3. ASSUME NEW x \in Requests, x.type \notin TxRequests PROVE NoTxs(Append(q, x))
  <2>1. /\ DOMAIN Append(q, x) = 1 .. Len(q) + 1 /\ DOMAIN q = 1 .. Len(q) /\ Len(q) \in Nat
        /\ \A i \in 1 .. Len(q) + 1 : Append(q, x)[i] = IF i = Len(q) + 1 THEN x ELSE q[i]
    BY AppendProperties
  <2>. QED BY <1>3, <2>1 DEF NoTxs
<1>4. ASSUME NEW x \in Requests, x.type \notin TxRequests PROVE NoTxs([q EXCEPT ![Len(q)] = x])
  BY <1>4 DEF NoTxs
<1>. QED BY <1>1, <1>2, <1>3, <1>4

\* What a step of the program that stays in its call has to keep up.
LEMMA WorkThen ==
  ASSUME Recorded(streams), WorkInv, ~failed', UNCHANGED <<closed, broken, reset_requested>>,
         pc' \in [Actors -> Labels], pc'["sig"] = "idle",
         pc'["app"] \notin {"rrecv", "rfinal", "crecv", "cend"},
         call'.fill.type = "ACK", NoTxs(request_queue'),
         pc'["app"] \notin {"idle", "crashed"} => call'.rs \in Streams /\ streams[call'.rs].open,
         pc'["app"] \in {"unlock", "done"} => ret'.rc = 0,
         \A s \in Streams : Keeps(streams[s], streams'[s])
  PROVE  WorkInv'
<1>1. Connected'
  <2>. SUFFICES ASSUME NEW s \in Streams
                PROVE  IF streams'[s].open THEN streams'[s].connection
                       ELSE streams'[s].failure = "none"
    BY DEF Connected
  <2>1. Keeps(streams[s], streams'[s])
    OBVIOUS
  <2>2. streams[s].open \in BOOLEAN
    BY DEF Recorded, StreamRecord
  <2>3. IF streams[s].open THEN streams[s].connection ELSE streams[s].failure = "none"
    BY DEF WorkInv, Connected
  <2>. QED BY <2>1, <2>2, <2>3 DEF Keeps
<1>2. Working'
  BY DEF WorkInv, Working, NoTxs, Keeps
<1>. QED BY <1>1, <1>2 DEF WorkInv

LEMMA WorkSync ==
  ASSUME Undisturbed, Known, WorkInv, Alive, Sync
  PROVE  WorkInv'
<1>. DEFINE Step(label) == pc' = [pc EXCEPT !["app"] = label]
<1>0. /\ Ready /\ Recorded(streams) /\ ~broken /\ ~NoReply /\ ~failed /\ ~reset_requested
      /\ pc \in [Actors -> Labels] /\ pc["sig"] = "idle" /\ "app" \in Actors /\ "sig" \in Actors
      /\ request_queue \in Seq(Requests) /\ NoTxs(request_queue)
      /\ call \in Calling /\ call.fill.type = "ACK" /\ call.fill \in Requests
  BY Prepared, NoErrors, WindowKnown
     DEF Ready, WorkInv, Working, NoTxs, RefInv, WindowInv, WindowTypes, Calling
<1>1. \A s \in Streams : Keeps(streams[s], streams'[s])
  BY SyncLasts DEF Lasts
<1>2. pc["app"] \notin {"idle", "crashed"} => call.rs \in Streams /\ streams[call.rs].open
  BY DEF WorkInv, Working
<1>3. UNCHANGED <<closed, broken, reset_requested>> /\ call'.rs = call.rs
  BY <1>0 DEF Sync, sync_enter, sync_lock, sync_loop, sync_receive, sync_receive_error,
         send_requests, send_request, sync_exit, sync_unlock, sync_unlock_ack,
         new_request, populate, connVars, wireVars, Calling
<1>4. pc["app"] \notin {"idle", "crashed"}
  BY DEF Sync, sync_enter, sync_lock, sync_loop, sync_receive, sync_receive_error,
         send_requests, send_request, sync_exit, sync_unlock, sync_unlock_ack,
         new_request, populate, At
<1>5. SUFFICES
        /\ ~failed' /\ NoTxs(request_queue') /\ call'.fill.type = "ACK"
        /\ \/ Crash
           \/ \E label \in Labels \ {"rrecv", "rfinal", "crecv", "cend"} :
                 Step(label) /\ (label \in {"unlock", "done"} => ret'.rc = 0)
  <2>. SUFFICES ASSUME ~failed', NoTxs(request_queue'), call'.fill.type = "ACK",
                       \/ Crash
                       \/ \E label \in Labels \ {"rrecv", "rfinal", "crecv", "cend"} :
                             Step(label) /\ (label \in {"unlock", "done"} => ret'.rc = 0)
                PROVE  WorkInv'
    OBVIOUS
  <2>1. CASE Crash
    <3>1. pc' = [pc EXCEPT !["app"] = "crashed", !["sig"] = "idle"] /\ "crashed" \in Labels
          /\ "idle" \in Labels
      BY <2>1 DEF Crash, Labels
    <3>2. pc' \in [Actors -> Labels] /\ pc'["sig"] = "idle" /\ pc'["app"] = "crashed"
      BY <1>0, <3>1 DEF Actors
    <3>. QED BY <1>0, <1>1, <1>3, <3>2, WorkThen
  <2>2. CASE \E label \in Labels \ {"rrecv", "rfinal", "crecv", "cend"} :
               Step(label) /\ (label \in {"unlock", "done"} => ret'.rc = 0)
    <3>1. PICK label \in Labels \ {"rrecv", "rfinal", "crecv", "cend"} :
            Step(label) /\ (label \in {"unlock", "done"} => ret'.rc = 0)
      BY <2>2
    <3>2. pc' \in [Actors -> Labels] /\ pc'["sig"] = "idle" /\ pc'["app"] = label
      BY <1>0, <3>1 DEF Actors
    <3>. HIDE DEF Step
    <3>. QED BY <1>0, <1>1, <1>2, <1>3, <1>4, <3>1, <3>2, WorkThen
  <2>. QED BY <2>1, <2>2
<1>6. CASE sync_enter
  <2>1. call.rs \in Streams /\ streams[call.rs].connection
    BY <1>2, <1>4 DEF WorkInv, Connected
  <2>. QED BY <1>0, <1>6, <2>1 DEF sync_enter, Goto, connVars, Labels
<1>7. CASE sync_lock
  <2>1. ~processing
    <3>1. pc["app"] = "lock"
      BY <1>7 DEF sync_lock, At
    <3>. QED BY <1>0, <3>1 DEF Known, RefInv, WindowInv, LockInv, LockOwned, AppHolds, SigHolds
  <2>. QED BY <1>0, <1>7, <2>1 DEF sync_lock, Goto, Labels
<1>8. CASE sync_loop \/ send_requests
  BY <1>0, <1>8 DEF sync_loop, send_requests, Goto, connVars, Labels
<1>9. CASE sync_receive
  <2>. DEFINE r == Received("app")
  <2>1. Receives("app") /\ server' = server
    BY <1>9 DEF sync_receive, At, Receives, Reading, Ready, RefInv, WindowInv, Expecting, Known
  <2>2. CASE r.crash
    BY <1>0, <1>9, <2>2 DEF sync_receive
  <2>3. CASE ~r.crash
    <3>1. ~(r.rc < 0) /\ r.queue \in {request_queue, Tail(request_queue)}
          /\ request_queue # <<>>
      <4>1. r.rc \in {-1, 0, 1} /\ r.queue \in {request_queue, Tail(request_queue)}
        BY <1>0, <2>1, ReceivedReply DEF Ready, Wired, Receives, Actors
      <4>2. r.rc >= 0
        BY <2>1, <2>3, ReceivedLasts
      <4>3. request_queue # <<>>
        BY <2>1, HeadFits DEF Known, Receives
      <4>. QED BY <4>1, <4>2, <4>3
    <3>2. /\ failed' = failed /\ request_queue' \in {r.queue, <<>>} /\ call' = call
          /\ Crash \/ \E label \in {"unlock_ack", "exit", "reply", "send"} : Step(label)
      BY <1>9, <2>3, <3>1 DEF sync_receive, Goto
    <3>. HIDE DEF r
    <3>3. NoTxs(request_queue')
      BY <1>0, <3>1, <3>2, NoTxsKept
    <3>4. {"unlock_ack", "exit", "reply", "send"}
            \subseteq Labels \ {"rrecv", "rfinal", "crecv", "cend", "unlock", "done"}
      BY DEF Labels
    <3>. HIDE DEF Step
    <3>. QED BY <1>0, <3>2, <3>3, <3>4
  <2>. QED BY <2>2, <2>3
<1>10. ~sync_receive_error
  BY <1>0 DEF sync_receive_error
<1>11. CASE send_request
  BY <1>0, <1>11 DEF send_request, Goto, Labels
<1>12. CASE sync_exit
  BY <1>0, <1>12 DEF sync_exit, Goto, Labels
<1>13. CASE sync_unlock
  <2>1. ret.rc = 0
    BY <1>13 DEF sync_unlock, At, WorkInv, Working
  <2>. QED BY <1>0, <1>13, <2>1 DEF sync_unlock, Goto, Labels
<1>14. CASE sync_unlock_ack
  <2>1. call'.fill = Ack
    BY <1>0, <1>14 DEF sync_unlock_ack, Calling
  <2>2. call'.fill.type = "ACK"
    BY <2>1 DEF Ack, Request
  <2>3. Step("alloc") /\ failed' = failed /\ request_queue' = request_queue
    BY <1>14 DEF sync_unlock_ack, Goto
  <2>4. "alloc" \in Labels \ {"rrecv", "rfinal", "crecv", "cend", "unlock", "done"}
    BY DEF Labels
  <2>. HIDE DEF Step
  <2>. QED BY <1>0, <2>2, <2>3, <2>4
<1>15. CASE new_request
  <2>1. pc["app"] = "alloc"
    BY <1>15 DEF new_request, At
  <2>2. request_queue = <<>>
    BY <1>0, <2>1 DEF Ready, Alone
  <2>3. CanQueue
    BY <1>0, <2>2, SizeAssumption DEF CanQueue
  <2>4. Blank \in Requests /\ Blank.type \notin TxRequests
    BY RequestsTyped DEF Blank, Request, TxRequests
  <2>5. request_queue' = Append(request_queue, Blank) /\ Step("fill") /\ failed' = failed /\ call' = call
    BY <1>15, <2>3 DEF new_request, Queue, Blank, Goto
  <2>6. NoTxs(request_queue')
    BY <1>0, <2>4, <2>5, NoTxsKept
  <2>7. "fill" \in Labels \ {"rrecv", "rfinal", "crecv", "cend", "unlock", "done"}
    BY DEF Labels
  <2>. HIDE DEF Step
  <2>. QED BY <1>0, <2>5, <2>6, <2>7
<1>16. CASE populate
  <2>1. /\ request_queue' = [request_queue EXCEPT ![Len(request_queue)] = call.fill]
        /\ Step("enter") /\ failed' = failed /\ call' = call
    BY <1>16 DEF populate, Goto
  <2>2. NoTxs(request_queue')
    BY <1>0, <2>1, NoTxsKept DEF TxRequests
  <2>3. "enter" \in Labels \ {"rrecv", "rfinal", "crecv", "cend", "unlock", "done"}
    BY DEF Labels
  <2>. HIDE DEF Step
  <2>. QED BY <1>0, <2>1, <2>2, <2>3
<1>. QED BY <1>6, <1>7, <1>8, <1>9, <1>10, <1>11, <1>12, <1>13, <1>14, <1>15, <1>16 DEF Sync

LEMMA WorkStart ==
  ASSUME Undisturbed, Known, WorkInv, Alive, Start
  PROVE  WorkInv'
<1>0. /\ Recorded(streams) /\ Txs = {} /\ "close" \notin Ops /\ ~failed
      /\ pc \in [Actors -> Labels] /\ pc["sig"] = "idle" /\ "app" \in Actors /\ "sig" \in Actors
      /\ NoTxs(request_queue) /\ call.fill.type = "ACK"
  BY Prepared, WindowKnown
     DEF Undisturbed, Known, WorkInv, Working, NoTxs
<1>1. UNCHANGED <<closed, broken, reset_requested, failed, request_queue>>
      /\ "idle" \in Labels /\ "run" \in Labels /\ "enter" \in Labels /\ "free" \in Labels
      /\ pc["app"] = "idle"
  BY <1>0 DEF Start, run_open, close_results, check_failure, consume, fetch_next, peek,
              AwaitRecords, close_start,
              unchangedByCall, wireVars, Labels, Calls, At
<1>2. CASE \E s \in Streams, kind \in Statements, t \in Txs \cup {None} : run_open(s, kind, t)
  <2>1. PICK s \in Streams, kind \in Statements, t \in Txs \cup {None} : run_open(s, kind, t)
    BY <1>2
  <2>2. /\ streams' = [streams EXCEPT ![s] = run_rs_open]
        /\ pc' = [pc EXCEPT !["app"] = "run"]
        /\ call' = [Idle EXCEPT !.op = "run", !.rs = s, !.tx = t, !.kind = kind, !.cond = "starting"]
    BY <1>0, <2>1 DEF run_open, Enter, Goto
  <2>3. run_rs_open.open /\ run_rs_open.connection
    BY DEF run_rs_open, NoStream
  <2>4. Connected'
    BY <1>0, <2>2, <2>3 DEF Connected, WorkInv, Recorded
  <2>5. streams'[s].open /\ call'.rs = s /\ call'.fill = Ack
    BY <1>0, <2>2, <2>3 DEF Recorded, Idle
  <2>6. pc'["sig"] = "idle" /\ pc'["app"] = "run"
    BY <1>0, <2>2 DEF Actors
  <2>7. Working'
    BY <1>0, <1>1, <2>5, <2>6 DEF WorkInv, Working, Ack, Request
  <2>. QED BY <2>4, <2>7 DEF WorkInv
<1>3. CASE ~(\E s \in Streams, kind \in Statements, t \in Txs \cup {None} : run_open(s, kind, t))
  <2>1. \A s \in Streams : Keeps(streams[s], streams'[s])
    <3>1. \A s \in Streams, kind \in Statements, t \in Txs \cup {None} : ~run_open(s, kind, t)
      BY <1>3
    <3>2. ~free_results
      BY <1>1 DEF free_results, At
    <3>. QED BY <3>1, <3>2, AllKeeps
  <2>2. \/ UNCHANGED <<pc, call>>
        \/ \E s \in Streams : /\ streams[s].open /\ call'.rs = s /\ call'.fill = Ack
                              /\ \E label \in {"enter", "free"} : pc' = [pc EXCEPT !["app"] = label]
        \/ Crash /\ UNCHANGED call
    BY <1>0, <1>3 DEF Start, close_results, check_failure, consume, fetch_next, peek,
                      AwaitRecords, close_start,
                      run_rs_close, Enter, Goto, Held, Idle
  <2>3. CASE UNCHANGED <<pc, call>>
    BY <1>0, <1>1, <2>1, <2>3, WorkThen
  <2>4. CASE \E s \in Streams : /\ streams[s].open /\ call'.rs = s /\ call'.fill = Ack
                                /\ \E label \in {"enter", "free"} : pc' = [pc EXCEPT !["app"] = label]
    <3>1. PICK s \in Streams :
            /\ streams[s].open /\ call'.rs = s /\ call'.fill = Ack
            /\ \E label \in {"enter", "free"} : pc' = [pc EXCEPT !["app"] = label]
      BY <2>4
    <3>0. Ack.type = "ACK"
      BY DEF Ack, Request
    <3>4. /\ call'.rs \in Streams /\ streams[call'.rs].open /\ call'.fill.type = "ACK"
      BY <3>0, <3>1
    <3>2. pc' \in [Actors -> Labels] /\ pc'["sig"] = "idle" /\ pc'["app"] \in {"enter", "free"}
      BY <1>0, <1>1, <3>1 DEF Actors
    <3>. QED BY <1>0, <1>1, <2>1, <3>2, <3>4, WorkThen
  <2>5. CASE Crash /\ UNCHANGED call
    <3>1. pc' \in [Actors -> Labels] /\ pc'["sig"] = "idle" /\ pc'["app"] = "crashed"
      BY <1>0, <1>1, <2>5 DEF Crash, Labels, Actors
    <3>. QED BY <1>0, <1>1, <2>1, <2>5, <3>1, WorkThen
  <2>. QED BY <2>2, <2>3, <2>4, <2>5
<1>. QED BY <1>2, <1>3

LEMMA WorkRun ==
  ASSUME Undisturbed, Known, WorkInv, Alive, Run
  PROVE  WorkInv'
<1>. DEFINE Step(label) == pc' = [pc EXCEPT !["app"] = label]
            Plainly == Labels \ {"rrecv", "rfinal", "crecv", "cend", "unlock", "done"}
<1>0. /\ Recorded(streams) /\ Txs = {} /\ "close" \notin Ops /\ ~failed
      /\ pc \in [Actors -> Labels] /\ pc["sig"] = "idle" /\ "app" \in Actors /\ "sig" \in Actors
      /\ NoTxs(request_queue) /\ call.fill.type = "ACK" /\ request_queue \in Seq(Requests)
      /\ call \in Calling /\ call.kind \in Statements
  BY Prepared, WindowKnown
     DEF Undisturbed, Known, WorkInv, Working, NoTxs, RefInv, WindowInv, WindowTypes, Calling
<1>1. UNCHANGED <<closed, broken, reset_requested, failed>>
  BY <1>0 DEF Run, session_run, session_pull_all, session_unlock, run_start, abandon,
              free_results, return_to_stream, return_to_tx, unchangedByCall, wireVars
<1>2. pc["app"] \notin {"idle", "crashed"} /\ call.rs \in Streams /\ streams[call.rs].open
  <2>1. pc["app"] \notin {"idle", "crashed"}
    BY DEF Run, session_run, session_pull_all, session_unlock, run_start, abandon,
           free_results, return_to_stream, return_to_tx, At
  <2>. QED BY <2>1 DEF WorkInv, Working
<1>3. {"idle", "run_unlock", "pull", "pull_unlock", "start", "abandon", "free", "enter", "crashed"}
        \subseteq Plainly
  BY DEF Labels
<1>4. CASE free_results
  <2>1. CASE Crash /\ streams' = streams
    <3>1. pc' = [pc EXCEPT !["app"] = "crashed", !["sig"] = "idle"] /\ "idle" \in Labels
      BY <2>1 DEF Crash, Labels
    <3>2. pc' \in [Actors -> Labels] /\ pc'["sig"] = "idle" /\ pc'["app"] = "crashed"
      BY <1>0, <1>3, <3>1 DEF Actors
    <3>3. call' = call /\ request_queue' = request_queue
      BY <1>0, <1>4, <2>1 DEF free_results, unchangedByCall, Enter, Goto, Crash
    <3>4. \A s \in Streams : Keeps(streams[s], streams'[s])
      BY <1>0, <2>1, KeepsFields DEF Recorded
    <3>. HIDE DEF Plainly
    <3>. QED BY <1>0, <1>1, <3>2, <3>3, <3>4, WorkThen
  <2>2. CASE /\ streams' = [streams EXCEPT ![call.rs] = NoStream] /\ Step("idle") /\ call' = Idle
    <3>1. NoStream.open = FALSE /\ NoStream.failure = "none"
      BY DEF NoStream
    <3>2. Connected'
      BY <1>0, <1>2, <2>2, <3>1 DEF Connected, WorkInv, Recorded
    <3>3. pc'["sig"] = "idle" /\ pc'["app"] = "idle" /\ request_queue' = request_queue
      BY <1>0, <1>4, <2>2 DEF Actors, free_results, unchangedByCall
    <3>4. call'.fill.type = "ACK"
      BY <2>2 DEF Idle, Ack, Request
    <3>5. Working'
      BY <1>1, <3>3, <3>4 DEF WorkInv, Working
    <3>. QED BY <3>2, <3>5 DEF WorkInv
  <2>. QED BY <1>4, <2>1, <2>2 DEF free_results, Enter, Goto
<1>5. CASE ~free_results
  <2>1. \A s \in Streams : Keeps(streams[s], streams'[s])
    <3>1. \A s \in Streams, kind \in Statements, t \in Txs \cup {None} : ~run_open(s, kind, t)
      BY <1>2 DEF run_open, Calls, At
    <3>. QED BY <1>5, <3>1, AllKeeps
  <2>2. SUFFICES
          /\ NoTxs(request_queue')
          /\ \/ \E label \in Plainly : Step(label) /\ call'.rs = call.rs /\ call'.fill = call.fill
             \/ Step("idle") /\ call' = Idle
             \/ Crash /\ call' = call
    <3>. SUFFICES ASSUME NoTxs(request_queue'),
                         \/ \E label \in Plainly :
                              Step(label) /\ call'.rs = call.rs /\ call'.fill = call.fill
                         \/ Step("idle") /\ call' = Idle
                         \/ Crash /\ call' = call
                  PROVE  WorkInv'
      OBVIOUS
    <3>1. CASE \E label \in Plainly : Step(label) /\ call'.rs = call.rs /\ call'.fill = call.fill
      <4>1. PICK label \in Plainly : Step(label) /\ call'.rs = call.rs /\ call'.fill = call.fill
        BY <3>1
      <4>2. pc' \in [Actors -> Labels] /\ pc'["sig"] = "idle" /\ pc'["app"] = label
        BY <1>0, <4>1 DEF Actors
      <4>. HIDE DEF Step
      <4>. QED BY <1>0, <1>1, <1>2, <2>1, <4>1, <4>2, WorkThen
    <3>2. CASE Step("idle") /\ call' = Idle
      <4>1. call'.fill.type = "ACK"
        BY <3>2 DEF Idle, Ack, Request
      <4>2. pc' \in [Actors -> Labels] /\ pc'["sig"] = "idle" /\ pc'["app"] = "idle"
        BY <1>0, <1>3, <3>2 DEF Actors
      <4>. HIDE DEF Step
      <4>. QED BY <1>0, <1>1, <2>1, <4>1, <4>2, WorkThen
    <3>3. CASE Crash /\ call' = call
      <4>1. pc' = [pc EXCEPT !["app"] = "crashed", !["sig"] = "idle"] /\ "idle" \in Labels
        BY <3>3 DEF Crash, Labels
      <4>2. pc' \in [Actors -> Labels] /\ pc'["sig"] = "idle" /\ pc'["app"] = "crashed"
        BY <1>0, <1>3, <4>1 DEF Actors
      <4>. QED BY <1>0, <1>1, <2>1, <3>3, <4>2, WorkThen
    <3>. QED BY <3>1, <3>2, <3>3
  <2>3. ASSUME NEW q \in Requests, q.type \notin TxRequests,
               NEW label \in {"run_unlock", "pull_unlock"}, Enqueue(q, label)
        PROVE  NoTxs(request_queue') /\ Step(label)
    BY <1>0, <2>3, NoTxsKept DEF Enqueue, Queue, Goto
  <2>4. CASE session_run
    <3>. DEFINE q == Request("RUN", call.rs, call.tx)
    <3>1. q \in Requests /\ q.type \notin TxRequests
      BY <1>0, RequestsTyped DEF Calling, Request, TxRequests
    <3>2. call' = call /\ \/ Goto("abandon") /\ request_queue' = request_queue
                          \/ Enqueue(q, "run_unlock")
      BY <2>4 DEF session_run
    <3>. HIDE DEF q
    <3>3. NoTxs(request_queue') /\ \E label \in {"abandon", "run_unlock"} : Step(label)
      BY <1>0, <2>3, <3>1, <3>2 DEF Goto
    <3>. QED BY <1>3, <3>2, <3>3
  <2>5. CASE session_pull_all
    <3>. DEFINE q == Request(call.kind, call.rs, call.tx)
    <3>1. q \in Requests /\ q.type \notin TxRequests
      BY <1>0, RequestsTyped DEF Calling, Request, TxRequests, Statements
    <3>2. call' = call /\ \/ Goto("abandon") /\ request_queue' = request_queue
                          \/ Enqueue(q, "pull_unlock")
      BY <2>5 DEF session_pull_all
    <3>. HIDE DEF q
    <3>3. NoTxs(request_queue') /\ \E label \in {"abandon", "pull_unlock"} : Step(label)
      BY <1>0, <2>3, <3>1, <3>2 DEF Goto
    <3>. QED BY <1>3, <3>2, <3>3
  <2>6. CASE session_unlock
    <3>1. /\ call' = call /\ request_queue' = request_queue
          /\ \E label \in {"abandon", "pull", "start"} : Step(label)
      BY <2>6 DEF session_unlock, Goto
    <3>. QED BY <1>0, <1>3, <3>1
  <2>7. CASE run_start
    <3>1. /\ request_queue' = request_queue
          /\ \/ call' = call /\ Step("enter")
             \/ call' = Idle /\ Step("idle")
      BY <2>7 DEF run_start, Goto, unchangedByCall
    <3>. QED BY <1>0, <1>3, <3>1
  <2>8. CASE abandon
    <3>1. /\ request_queue' = request_queue
          /\ call'.rs = call.rs /\ call'.fill = call.fill
          /\ \E label \in {"enter", "free"} : Step(label)
      BY <1>0, <2>8 DEF abandon, run_rs_close, Enter, Goto, unchangedByCall, Calling
    <3>. QED BY <1>0, <1>3, <3>1
  <2>9. CASE return_to_stream
    <3>1. /\ request_queue' = request_queue
          /\ \/ Crash /\ call' = call
             \/ Step("free") /\ call' = call
             \/ Step("idle") /\ call' = Idle
      BY <2>9 DEF return_to_stream, Enter, Goto, unchangedByCall
    <3>. QED BY <1>0, <1>3, <3>1
  <2>10. ~return_to_tx
    BY <1>2, NoneAssumption DEF return_to_tx
  <2>. QED BY <1>5, <2>4, <2>5, <2>6, <2>7, <2>8, <2>9, <2>10 DEF Run
<1>. QED BY <1>4, <1>5

LEMMA WorkStep ==
  ASSUME Undisturbed, Known, WorkInv, [Next]_vars
  PROVE  WorkInv'
<1>1. CASE Start \/ Sync \/ Run
  <2>1. Alive
    BY <1>1, ProgramAlive DEF Known
  <2>. QED BY <1>1, <2>1, WorkStart, WorkSync, WorkRun
<1>2. ~Close
  BY DEF Close, close_receive, close_receive_error, close_end, At, WorkInv, Working
<1>3. ~neo4j_reset
  <2>1. resets \in Nat
    BY SizeAssumption DEF Known, TypeInv, FlagsTyped
  <2>. QED BY <2>1 DEF neo4j_reset, Undisturbed, Known, TypeInv, FlagsTyped
<1>4. \A a \in Actors : ~ResetBy(a)
  BY DEF ResetBy, reset_receive, reset_reply, reset_error, Resetting, Actors, WorkInv, Working
<1>5. ~Drop
  BY DEF Drop, Undisturbed, Signals
<1>6. CASE ServerStep \/ ServerGoodbye \/ Terminated \/ UNCHANGED vars
  <2>1. UNCHANGED <<connVars, streams, pc, call, ret, broken>>
    BY <1>6 DEF ServerStep, ServerGoodbye, Terminated, vars, ctlVars, wireVars
  <2>2. Working'
    BY <2>1 DEF WorkInv, Working, connVars
  <2>3. Connected'
    BY <2>1 DEF WorkInv, Connected
  <2>. QED BY <2>2, <2>3 DEF WorkInv
<1>. QED BY <1>1, <1>2, <1>3, <1>4, <1>5, <1>6 DEF Next, Continue, Actors

LEMMA WorkInit == Init => WorkInv
<1>. SUFFICES ASSUME Init PROVE WorkInv
  OBVIOUS
<1>1. streams = [s \in Streams |-> NoStream] /\ call = Idle /\ request_queue = <<>>
      /\ pc = [a \in Actors |-> "idle"] /\ ~failed /\ ~closed /\ ~broken /\ ~reset_requested
  BY DEF Init
<1>2. Connected
  BY <1>1 DEF Connected, NoStream
<1>3. pc["app"] = "idle" /\ pc["sig"] = "idle"
  BY <1>1 DEF Actors
<1>4. call.fill.type = "ACK"
  BY <1>1 DEF Idle, Ack, Request
<1>5. Working
  BY <1>1, <1>3, <1>4 DEF Working
<1>. QED BY <1>2, <1>5 DEF WorkInv

LEMMA FailureStep ==
  ASSUME Undisturbed, Known, WorkInv, [Next]_vars, NEW s \in Streams,
         streams[s].failure # "none", ~Closing(s)
  PROVE  streams'[s].failure = streams[s].failure
<1>1. CASE Sync
  <2>1. Lasts(streams[s], streams'[s])
    BY <1>1, ProgramAlive, SyncLasts DEF Known
  <2>. QED BY <2>1 DEF Lasts, Keeps
<1>2. CASE Start \/ Run
  <2>0. Alive /\ Recorded(streams)
    BY <1>2, ProgramAlive, Prepared DEF Known
  <2>1. CASE \E x \in Streams, kind \in Statements, t \in Txs \cup {None} : run_open(x, kind, t)
    <3>1. PICK x \in Streams, kind \in Statements, t \in Txs \cup {None} : run_open(x, kind, t)
      BY <2>1
    <3>2. ~streams[x].open /\ streams' = [streams EXCEPT ![x] = run_rs_open]
      BY <2>0, <3>1, Prepared DEF run_open, WorkInv, Working
    <3>3. x # s
      BY <3>2 DEF WorkInv, Connected
    <3>. QED BY <2>0, <3>2, <3>3 DEF Recorded
  <2>2. CASE free_results
    <3>1. pc["app"] = "free" /\ call.rs # s
      BY <2>0, <2>2 DEF free_results, At, Known, RefInv, Knows, Phases, Closing
    <3>2. \/ streams' = streams
          \/ streams' = [streams EXCEPT ![call.rs] = NoStream]
      BY <2>2 DEF free_results, Crash
    <3>. QED BY <2>0, <3>1, <3>2 DEF Recorded
  <2>3. CASE /\ ~free_results
             /\ ~\E x \in Streams, kind \in Statements, t \in Txs \cup {None} : run_open(x, kind, t)
    <3>1. Keeps(streams[s], streams'[s])
      BY <1>2, <2>0, <2>3, AllKeeps
    <3>. QED BY <3>1 DEF Keeps
  <2>. QED BY <2>1, <2>2, <2>3
<1>3. ~Close
  BY DEF Close, close_receive, close_receive_error, close_end, At, WorkInv, Working
<1>4. ~neo4j_reset
  <2>1. resets \in Nat
    BY SizeAssumption DEF Known, TypeInv, FlagsTyped
  <2>. QED BY <2>1 DEF neo4j_reset, Undisturbed, Known, TypeInv, FlagsTyped
<1>5. \A a \in Actors : ~ResetBy(a)
  BY DEF ResetBy, reset_receive, reset_reply, reset_error, Resetting, Actors, WorkInv, Working
<1>6. ~Drop
  BY DEF Drop, Undisturbed, Signals
<1>7. CASE ServerStep \/ ServerGoodbye \/ Terminated \/ UNCHANGED vars
  BY <1>7 DEF ServerStep, ServerGoodbye, Terminated, vars
<1>. QED BY <1>1, <1>2, <1>3, <1>4, <1>5, <1>6, <1>7 DEF Next, Continue, Actors

(* The first failure of a stream is what the program is told until it       *)
(* closes the stream: a later IGNORED, the failure of another stream or the *)
(* answers to the rest of a pipeline do not replace it.  Proved of a        *)
(* connection that is not closed and not reset and that has no transaction. *)
THEOREM FailureTheorem ==
  ASSUME Undisturbed
  PROVE  Spec => FirstFailureKept
<1>0. Signals
  BY DEF Undisturbed
<1>1. Init => Serving
  BY DEF Init, Serving
<1>2. RefInv /\ WireInv /\ [Next]_vars => WireInv'
  BY <1>0, WireKept
<1>3. RefInv /\ WireInv /\ Serving /\ [Next]_vars => Serving'
  BY <1>0, ServingKept
<1>4. RefInv /\ WireInv /\ Serving /\ StreamInv /\ [Next]_vars => StreamInv'
  BY <1>0, StreamKept
<1>5. RefInv /\ WireInv /\ Serving /\ StreamInv /\ TypeInv /\ [Next]_vars => TypeInv'
  BY <1>0, TypeKept
<1>6. RefInv /\ WireInv /\ Serving /\ StreamInv /\ TypeInv /\ WorkInv /\ [Next]_vars => WorkInv'
  BY WorkStep DEF Known
<1>7. RefInv /\ WireInv /\ Serving /\ StreamInv /\ TypeInv /\ WorkInv /\ [Next]_vars
      => [\A s \in Streams : streams[s].failure # "none" /\ ~Closing(s) =>
            streams'[s].failure = streams[s].failure]_vars
  BY FailureStep DEF Known
<1>. QED BY <1>1, <1>2, <1>3, <1>4, <1>5, <1>6, <1>7, WireInit, StreamInit, TypeInit, WorkInit,
            RefInvariant, PTL DEF Spec, FirstFailureKept
-----------------------------------------------------------------------------
(* Why such a program does not die.  The server ignores a request only      *)
(* because of a failure it has reported before, which the program has read  *)
(* and not dealt with yet, or which is on its way: so no reply IGNORED      *)
(* reaches a statement whose RUN succeeded.                                 *)
Failing == failure["app"] /\ pc["app"] = "reply"
Excused(c) ==
  \A i \in DOMAIN c : c[i].type = "IGNORED" => \E j \in 1 .. i - 1 : IsFailure(c[j].type)
HasFailure(c) == \E j \in DOMAIN c : IsFailure(c[j].type)
Acking ==
  \/ pc["app"] \in {"unlock_ack", "alloc", "fill"}
  \/ \E i \in DOMAIN request_queue : request_queue[i].type = "ACK"
Blamed ==
  /\ ~Failing => Excused(toClient)
  /\ Refusing => Failing \/ HasFailure(toClient) \/ (Acking /\ Answered(toClient) = <<>>)

(* The statement at the head of the queue is that of a stream that has      *)
(* failed exactly when the failure is being dealt with; the others are      *)
(* behind the RUN of their stream, which has not failed.                    *)
Behind(q) ==
  \A i \in DOMAIN q :
    q[i].type \in Statements =>
      IF i = 1 THEN ~HasRun(q, q[1].of) ELSE q[i - 1].type = "RUN" /\ q[i - 1].of = q[i].of
Fated(q, st, f) ==
  /\ \A s \in Streams : HasRun(q, s) => st[s].failure = "none"
  /\ q # <<>> /\ Head(q).type \in Statements => (st[Head(q).of].failure # "none" <=> f)
RunLast ==
  /\ request_queue # <<>>
  /\ request_queue[Len(request_queue)].type = "RUN"
  /\ request_queue[Len(request_queue)].of = call.rs
Prompt ==
  /\ Behind(request_queue) /\ Fated(request_queue, streams, Failing)
  /\ pc["app"] = "pull" \/ (pc["app"] = "run_unlock" /\ ret.rc = 0) => RunLast
  /\ pc["app"] = "run" => streams[call.rs].failure = "none"

(* A call that returns from session_sync has what it waited for: the        *)
(* records neo4j_fetch_next and neo4j_peek lack, unless there are no more,  *)
(* and for a stream to be freed, that no request points to it.              *)
Returning == {"exit", "unlock", "done"}
Needed == IF call.op = "fetch" THEN 1 ELSE 2
Fetching ==
  pc["app"] \notin {"idle", "crashed"} /\ call.op \in {"fetch", "peek"} =>
    /\ call.cond \in {"none", "awaiting_records"}
    /\ streams[call.rs].streaming =>
         /\ Coming(streams[call.rs]) >= Needed
         /\ pc["app"] \in Returning => streams[call.rs].awaiting_records = 0
Freeing ==
  pc["app"] \notin {"idle", "crashed"} /\ call.op \in {"close_rs", "abandon"} =>
    /\ call.cond \in {"none", "refcount"}
    /\ pc["app"] \in Returning \cup {"free"} =>
         ~HasRun(request_queue, call.rs) /\ ~HasPull(request_queue, call.rs)
Sound == Alive /\ Blamed /\ Prompt /\ Fetching /\ Freeing

(* A stream that waits for its statement has not failed: what fails it ends *)
(* the waiting, and a stream starts behind its own RUN, still queued.       *)
Fresh ==
  /\ \A s \in Streams : streams[s].streaming => streams[s].failure = "none"
  /\ pc["app"] = "start" \/ (pc["app"] = "pull_unlock" /\ ret.rc = 0) =>
       streams[call.rs].failure = "none"

(* The requests behind their RUN.                                           *)
LEMMA BehindTail ==
  ASSUME NEW q \in Seq(Requests), q # <<>>, Behind(q), Distinct(q)
  PROVE  Behind(Tail(q))
<1>. DEFINE t == Tail(q)
<1>1. /\ DOMAIN t = 1 .. Len(q) - 1 /\ DOMAIN q = 1 .. Len(q) /\ Len(q) \in Nat
      /\ Len(q) >= 1 /\ \A i \in 1 .. Len(q) - 1 : t[i] = q[i + 1]
  BY HeadTailProperties
<1>. HIDE DEF t
<1>. SUFFICES ASSUME NEW i \in DOMAIN t, t[i].type \in Statements
              PROVE  IF i = 1 THEN ~HasRun(t, t[1].of)
                     ELSE t[i - 1].type = "RUN" /\ t[i - 1].of = t[i].of
  BY DEF Behind, t
<1>2. i + 1 \in DOMAIN q /\ t[i] = q[i + 1] /\ i \in 1 .. Len(q) - 1 /\ i + 1 # 1
      /\ (i + 1) - 1 = i
  BY <1>1
<1>3. q[i].type = "RUN" /\ q[i].of = q[i + 1].of
  BY <1>2 DEF Behind
<1>4. CASE i # 1
  <2>1. i - 1 \in 1 .. Len(q) - 1 /\ (i - 1) + 1 = i
    BY <1>1, <1>2, <1>4
  <2>2. t[i - 1] = q[i]
    BY <1>1, <2>1
  <2>. QED BY <1>2, <1>3, <1>4, <2>2
<1>5. CASE i = 1
  <2>. SUFFICES ASSUME HasRun(t, t[1].of) PROVE FALSE
    BY <1>5
  <2>1. PICK k \in DOMAIN t : t[k].of = t[1].of /\ t[k].type \in {"RUN"}
    BY DEF HasRun, Has
  <2>2. k + 1 \in DOMAIN q /\ t[k] = q[k + 1] /\ k + 1 # 1 /\ 1 \in DOMAIN q
    BY <1>1
  <2>3. q[k + 1].type = "RUN" /\ q[1].type = "RUN" /\ q[k + 1].of = q[1].of
    BY <1>2, <1>3, <1>5, <2>1, <2>2
  <2>. QED BY <2>2, <2>3 DEF Distinct, OfStream
<1>. QED BY <1>4, <1>5

LEMMA BehindAppend ==
  ASSUME NEW q \in Seq(Requests), NEW x \in Requests, Behind(q),
         x.type = "RUN" => ~HasPull(q, x.of),
         x.type \in Statements =>
           q # <<>> /\ q[Len(q)].type = "RUN" /\ q[Len(q)].of = x.of
  PROVE  Behind(Append(q, x))
<1>. DEFINE t == Append(q, x)
<1>1. /\ DOMAIN t = 1 .. Len(q) + 1 /\ DOMAIN q = 1 .. Len(q) /\ Len(q) \in Nat
      /\ t[Len(q) + 1] = x /\ \A i \in 1 .. Len(q) : t[i] = q[i]
  BY AppendProperties
<1>2. \A s : HasRun(t, s) => HasRun(q, s) \/ (x.of = s /\ x.type = "RUN")
  BY HasAppend DEF HasRun
<1>. HIDE DEF t
<1>. SUFFICES ASSUME NEW i \in DOMAIN t, t[i].type \in Statements
              PROVE  IF i = 1 THEN ~HasRun(t, t[1].of)
                     ELSE t[i - 1].type = "RUN" /\ t[i - 1].of = t[i].of
  BY DEF Behind, t
<1>3. CASE i = Len(q) + 1
  <2>1. q # <<>> /\ q[Len(q)].type = "RUN" /\ q[Len(q)].of = x.of /\ t[i] = x
    BY <1>1, <1>3
  <2>2. Len(q) # 0
    BY <2>1, EmptySeq
  <2>3. i # 1 /\ i - 1 = Len(q) /\ Len(q) \in 1 .. Len(q)
    BY <1>1, <1>3, <2>2
  <2>. QED BY <1>1, <2>1, <2>3
<1>4. CASE i \in 1 .. Len(q) /\ i # 1
  <2>1. i - 1 \in 1 .. Len(q)
    BY <1>1, <1>4
  <2>. QED BY <1>1, <1>4, <2>1 DEF Behind
<1>5. CASE i \in 1 .. Len(q) /\ i = 1
  <2>1. t[1] = q[1] /\ ~HasRun(q, q[1].of) /\ 1 \in DOMAIN q
    BY <1>1, <1>5 DEF Behind
  <2>2. HasPull(q, q[1].of)
    BY <1>5, <2>1 DEF HasPull, Has
  <2>. QED BY <1>2, <1>5, <2>1, <2>2
<1>. QED BY <1>1, <1>3, <1>4, <1>5

(* What is sent and not answered is queued and in flight.                   *)
LEMMA ServedQueued ==
  ASSUME RefInv, Mirrors, ~reset_requested, NEW i \in DOMAIN toServer
  PROVE  /\ inflight_requests > 0
         /\ \E k \in 1 .. inflight_requests : toServer[i] = request_queue[k]
<1>1. /\ toServer \in Seq(Requests) /\ Answered(toClient) \in Seq(Requests)
      /\ request_queue \in Seq(Requests) /\ inflight_requests \in 0 .. Len(request_queue)
      /\ Len(request_queue) \in Nat
  BY WindowKnown, AnsweredTyped
<1>. DEFINE w == SubSeq(request_queue, 1, inflight_requests)
            a == Answered(toClient)
<1>2. /\ w \in Seq(Requests) /\ Len(w) = inflight_requests
      /\ \A k \in 1 .. inflight_requests : w[k] = request_queue[k]
  BY <1>1, FrontOf
<1>3. a \o toServer = w
  <2>1. w \o <<>> = w
    BY <1>2
  <2>. QED BY <2>1 DEF Mirrors, Window, Pending
<1>. HIDE DEF w, a
<1>4. a \in Seq(Requests) /\ Len(a) \in Nat /\ Len(toServer) \in Nat /\ i \in 1 .. Len(toServer)
  BY <1>1 DEF a
<1>5. Len(w) = Len(a) + Len(toServer) /\ w[Len(a) + i] = toServer[i]
  BY <1>1, <1>3, <1>4, ConcatProperties
<1>6. Len(a) + i \in 1 .. inflight_requests
  BY <1>2, <1>4, <1>5
<1>. QED BY <1>2, <1>5, <1>6

(* While a failure is being acknowledged the server is sent nothing else.   *)
LEMMA AckServed ==
  ASSUME Undisturbed, Known, WorkInv, Alive, toServer # <<>>,
         Acking \/ \E i \in DOMAIN toServer : IsReset(toServer[i])
  PROVE  IsReset(Head(toServer))
<1>1. RefInv /\ Mirrors /\ Alone /\ ~reset_requested
  BY Prepared DEF Ready, Wired, WorkInv, Working
<1>2. /\ toServer \in Seq(Requests) /\ request_queue \in Seq(Requests)
      /\ inflight_requests \in 0 .. Len(request_queue) /\ Len(request_queue) \in Nat
      /\ 1 \in DOMAIN toServer /\ Head(toServer) = toServer[1]
  <2>1. /\ toServer \in Seq(Requests) /\ request_queue \in Seq(Requests)
        /\ inflight_requests \in 0 .. Len(request_queue) /\ Len(request_queue) \in Nat
    BY <1>1, WindowKnown
  <2>2. Len(toServer) \in Nat \ {0}
    BY <2>1, EmptySeq
  <2>. QED BY <2>1, <2>2
<1>3. inflight_requests > 0
  BY <1>1, <1>2, ServedQueued
<1>4. ASSUME NEW k \in DOMAIN request_queue, request_queue[k].type = "ACK"
      PROVE  IsReset(Head(toServer))
  <2>1. k = 1 /\ k = Len(request_queue)
    BY <1>1, <1>4 DEF Alone, Special
  <2>2. PICK n \in 1 .. inflight_requests : toServer[1] = request_queue[n]
    BY <1>1, <1>2, ServedQueued
  <2>3. n = 1
    BY <1>2, <2>1, <2>2
  <2>. QED BY <1>2, <1>4, <2>1, <2>2, <2>3 DEF IsReset
<1>5. CASE \E i \in DOMAIN toServer : IsReset(toServer[i])
  <2>1. PICK i \in DOMAIN toServer : IsReset(toServer[i])
    BY <1>5
  <2>2. PICK n \in 1 .. inflight_requests : toServer[i] = request_queue[n]
    BY <1>1, <2>1, ServedQueued
  <2>3. n \in DOMAIN request_queue
    BY <1>2
  <2>4. request_queue[n].type # "RESET"
    <3>1. Proper(request_queue, pc["app"] = "fill")
      BY <1>1 DEF RefInv, Knows, Accounts
    <3>. QED BY <2>3, <3>1
             DEF Proper, Answerable, Statements, TxRequests, Blank, Request
  <2>5. request_queue[n].type = "ACK"
    BY <2>1, <2>2, <2>4 DEF IsReset
  <2>. QED BY <1>4, <2>3, <2>5
<1>6. CASE pc["app"] \in {"unlock_ack", "alloc", "fill"}
  <2>1. call.fill.type = "ACK"
    BY DEF WorkInv, Working
  <2>2. pc["app"] # "fill" => request_queue = <<>>
    BY <1>1, <1>6, <2>1 DEF Alone
  <2>3. pc["app"] = "fill" => inflight_requests < Len(request_queue) /\ Len(request_queue) = 1
    BY <1>1, <2>1 DEF Alone, RefInv, Knows, Phases
  <2>4. pc["app"] # "fill" => Len(request_queue) = 0
    BY <1>2, <2>2
  <2>5. Len(request_queue) >= 1
    BY <1>2, <1>3
  <2>. QED BY <1>2, <1>3, <2>3, <2>4, <2>5
<1>. QED BY <1>4, <1>5, <1>6 DEF Acking

\* What the server says of its state.
LEMMA ServerBlames ==
  ASSUME ServerStep
  PROVE  \E m : /\ toServer # <<>> /\ toClient' = Append(toClient, m) /\ m.to = Head(toServer)
                /\ m.type = "IGNORED" =>
                     /\ ~IsReset(Head(toServer))
                     /\ Refusing \/ \E i \in DOMAIN toServer : IsReset(toServer[i])
                /\ Refusing' => IsFailure(m.type) \/ m.type = "IGNORED"
                /\ m.type \in {"SUCCESS", "FAILURE", "TIMEOUT", "IGNORED", "RECORD",
                               "BADRECORD", "INVALID", "GARBLED"}
<1>. DEFINE q == Head(toServer)
            Of(type, n) == [type |-> type, to |-> q, n |-> n]
            Blames(m) ==
              /\ toClient' = Append(toClient, m) /\ m.to = q
              /\ m.type = "IGNORED" =>
                   /\ ~IsReset(q)
                   /\ Refusing \/ \E i \in DOMAIN toServer : IsReset(toServer[i])
              /\ Refusing' => IsFailure(m.type) \/ m.type = "IGNORED"
              /\ m.type \in {"SUCCESS", "FAILURE", "TIMEOUT", "IGNORED", "RECORD",
                             "BADRECORD", "INVALID", "GARBLED"}
<1>1. ASSUME NEW type \in {"SUCCESS", "FAILURE", "TIMEOUT", "IGNORED", "RECORD",
                           "BADRECORD", "INVALID", "GARBLED"}, NEW n, NEW mode, NEW tx,
             Serve(q, type, n, mode, tx),
             mode = "FAILED" => IsFailure(type) \/ type = "IGNORED",
             type = "IGNORED" =>
               /\ ~IsReset(q)
               /\ Refusing \/ \E i \in DOMAIN toServer : IsReset(toServer[i])
      PROVE  \E m : Blames(m)
  <2>1. toClient' = Append(toClient, Of(type, n)) /\ (Refusing' <=> mode = "FAILED")
    BY <1>1 DEF Serve, Refusing
  <2>2. Of(type, n).type = type /\ Of(type, n).to = q
    OBVIOUS
  <2>3. Blames(Of(type, n))
    BY <1>1, <2>1, <2>2
  <2>. QED BY <2>3
<1>. HIDE DEF Blames
<1>2. ASSUME ServerReset(q) PROVE \E m : Blames(m)
  <2>1. Serve(q, "SUCCESS", 0, "READY", None)
    BY <1>2 DEF ServerReset
  <2>. QED BY <1>1, <2>1
<1>3. ASSUME ServerRefuse(q) PROVE \E m : Blames(m)
  <2>1. PICK type \in {"FAILURE", "TIMEOUT"} : Serve(q, type, 0, "FAILED", None)
    BY <1>3 DEF ServerRefuse
  <2>. QED BY <1>1, <2>1 DEF IsFailure
<1>4. ASSUME ServerIgnore(q), ~IsReset(q) PROVE \E m : Blames(m)
  <2>1. Serve(q, "IGNORED", 0, "FAILED", None)
    BY <1>4 DEF ServerIgnore
  <2>2. Refusing \/ \E i \in DOMAIN toServer : IsReset(toServer[i])
    BY <1>4 DEF ServerIgnore, Refusing
  <2>. QED BY <1>1, <1>4, <2>1, <2>2
<1>5. ASSUME ServerRun(q) PROVE \E m : Blames(m)
  <2>1. PICK type \in {"SUCCESS", "INVALID", "GARBLED"} :
          Serve(q, type, 0, "STREAMING", server.tx)
    BY <1>5 DEF ServerRun
  <2>. QED BY <1>1, <2>1
<1>6. ASSUME ServerPull(q) PROVE \E m : Blames(m)
  <2>1. PICK type \in {"SUCCESS", "RECORD", "BADRECORD"}, n \in {server.n, server.n + 1},
             mode \in {"READY", "STREAMING"} : Serve(q, type, n, mode, server.tx)
    BY <1>6 DEF ServerPull
  <2>. QED BY <1>1, <2>1
<1>7. ASSUME ServerTx(q) PROVE \E m : Blames(m)
  <2>1. \E tx : Serve(q, "SUCCESS", 0, "READY", tx)
    BY <1>7 DEF ServerTx
  <2>. QED BY <1>1, <2>1
<1>8. \E m : Blames(m)
  BY <1>2, <1>3, <1>4, <1>5, <1>6, <1>7 DEF ServerStep
<1>9. toServer # <<>>
  BY DEF ServerStep
<1>. QED BY <1>8, <1>9 DEF Blames

LEMMA BlamedServer ==
  ASSUME Undisturbed, Known, WorkInv, Sound, ServerStep
  PROVE  Blamed'
<1>1. PICK m : /\ toServer # <<>> /\ toClient' = Append(toClient, m) /\ m.to = Head(toServer)
               /\ m.type = "IGNORED" =>
                    /\ ~IsReset(Head(toServer))
                    /\ Refusing \/ \E i \in DOMAIN toServer : IsReset(toServer[i])
               /\ Refusing' => IsFailure(m.type) \/ m.type = "IGNORED"
  BY ServerBlames
<1>2. /\ toClient \in Seq(Messages) /\ Len(toClient) \in Nat /\ DOMAIN toClient = 1 .. Len(toClient)
      /\ DOMAIN toClient' = 1 .. Len(toClient) + 1 /\ toClient'[Len(toClient) + 1] = m
      /\ \A i \in 1 .. Len(toClient) : toClient'[i] = toClient[i]
  BY <1>1, WindowKnown DEF Known
<1>3. UNCHANGED <<pc, failure, request_queue>>
  BY DEF ServerStep, connVars, ctlVars
<1>4. Failing' <=> Failing
  BY <1>3 DEF Failing
<1>5. m.type = "IGNORED" /\ ~Failing => HasFailure(toClient)
  <2>. SUFFICES ASSUME m.type = "IGNORED", ~Failing PROVE HasFailure(toClient)
    OBVIOUS
  <2>1. ~(Acking \/ \E i \in DOMAIN toServer : IsReset(toServer[i]))
    BY <1>1, AckServed DEF Sound
  <2>. QED BY <1>1, <2>1 DEF Sound, Blamed
<1>6. HasFailure(toClient) => HasFailure(toClient')
  BY <1>2 DEF HasFailure
<1>7. ASSUME ~Failing PROVE Excused(toClient')
  <2>. SUFFICES ASSUME NEW i \in 1 .. Len(toClient) + 1, toClient'[i].type = "IGNORED"
                PROVE  \E j \in 1 .. i - 1 : IsFailure(toClient'[j].type)
    BY <1>2 DEF Excused
  <2>1. CASE i = Len(toClient) + 1
    <3>1. PICK j \in 1 .. Len(toClient) : IsFailure(toClient[j].type)
      BY <1>2, <1>5, <1>7, <2>1 DEF HasFailure
    <3>2. j \in 1 .. i - 1
      BY <1>2, <2>1
    <3>. QED BY <1>2, <3>1, <3>2
  <2>2. CASE i \in 1 .. Len(toClient)
    <3>1. Excused(toClient)
      BY <1>7 DEF Sound, Blamed
    <3>2. PICK j \in 1 .. i - 1 : IsFailure(toClient[j].type)
      BY <1>2, <2>2, <3>1 DEF Excused
    <3>3. j \in 1 .. Len(toClient)
      BY <1>2, <2>2
    <3>. QED BY <1>2, <3>2, <3>3
  <2>. QED BY <1>2, <2>1, <2>2
<1>8. Refusing' => Failing \/ HasFailure(toClient')
  <2>1. IsFailure(m.type) => HasFailure(toClient')
    <3>1. Len(toClient) + 1 \in DOMAIN toClient'
      BY <1>2
    <3>. QED BY <1>2, <3>1 DEF HasFailure
  <2>. QED BY <1>1, <1>5, <1>6, <2>1
<1>. QED BY <1>4, <1>7, <1>8 DEF Blamed

\* A reply that is ignored finds the failure it comes from already read.
LEMMA ReceivedFate ==
  ASSUME Undisturbed, Known, WorkInv, Sound, Receives("app"), pc["app"] = "reply", server' = server
  PROVE  LET r == Received("app")
         IN  /\ ~r.crash
             /\ r.failure = (failure["app"] \/ IsFailure(Head(toClient).type))
             /\ Behind(r.queue) /\ Fated(r.queue, r.streams, r.failure)
<1>. DEFINE r == Received("app")
            m == Head(toClient)
            h == Head(request_queue)
<1>1. /\ RefInv /\ Alive /\ Mirrors /\ Records /\ inflight_requests > 0 /\ Reply
      /\ request_queue \in Seq(Requests) /\ toClient \in Seq(Messages) /\ toClient # <<>>
      /\ "app" \in Actors /\ Recorded(streams)
  BY Prepared, WindowKnown DEF Ready, Wired, Receives, Reply, Sound
<1>2. Reaction(r, h, m)
  BY <1>1, ReceivedTold
<1>3. /\ r.rc \in {-1, 0, 1} /\ m \in Messages
      /\ r.failure = (failure["app"] \/ IsFailure(m.type))
      /\ r.queue \in {request_queue, Tail(request_queue)}
      /\ (m \in FinalReplies /\ ~Unexpected("app") => r.queue = Tail(request_queue))
  BY <1>1, ReceivedReply
<1>4. /\ request_queue # <<>> /\ h = request_queue[1] /\ 1 \in DOMAIN request_queue
      /\ Distinct(request_queue) /\ Behind(request_queue)
      /\ Fated(request_queue, streams, Failing)
  BY <1>1, HeadFits DEF Sound, Prompt, RefInv, Knows, Accounts
<1>5. m.type \in {"SUCCESS", "FAILURE", "TIMEOUT", "IGNORED", "RECORD"}
      /\ (m.type # "RECORD" => m \in FinalReplies) /\ ~Unexpected("app")
      /\ (m.type = "RECORD" => h.type = "PULL_ALL")
  <2>1. m.type \in {"SUCCESS", "FAILURE", "TIMEOUT", "IGNORED", "RECORD"} /\ ~Unexpected("app")
    BY <1>2 DEF Reaction, Accepted, Unexpected
  <2>2. m \in FinalReplies <=> m.type \notin {"RECORD", "BADRECORD"}
    BY <1>3, FinalOrRecord
  <2>3. m = toClient[1] /\ 1 \in DOMAIN toClient
    BY <1>1, TailOf
  <2>4. m.type = "RECORD" => h.type = "PULL_ALL"
    BY <1>1, <1>2, <2>2, <2>3 DEF Records, ForStatement, Reaction
  <2>. QED BY <2>1, <2>2, <2>4
<1>6. Failing <=> failure["app"]
  BY DEF Failing
<1>7. m.type = "IGNORED" => failure["app"]
  <2>. SUFFICES ASSUME m.type = "IGNORED", ~failure["app"] PROVE FALSE
    OBVIOUS
  <2>1. Excused(toClient)
    BY <1>6 DEF Sound, Blamed
  <2>2. m = toClient[1] /\ 1 \in DOMAIN toClient
    BY <1>1, TailOf
  <2>. QED BY <2>1, <2>2 DEF Excused
<1>8. Behind(r.queue)
  BY <1>1, <1>3, <1>4, BehindTail
<1>. HIDE DEF r, m, h
<1>9. ASSUME NEW s \in Streams, HasRun(r.queue, s) PROVE HasRun(request_queue, s)
  BY <1>1, <1>3, <1>4, <1>9, HasTail DEF HasRun
<1>10. CASE h.type = "ACK"
  <2>1. r.streams = streams /\ ~r.crash /\ r.rc = 0 /\ r.queue = Tail(request_queue)
    BY <1>2, <1>3, <1>5, <1>10 DEF Reaction
  <2>2. Len(request_queue) = 1
    BY <1>4, <1>10, Prepared DEF Ready, Alone, Special, Sound
  <2>3. Len(r.queue) = 0 /\ r.queue \in Seq(Requests)
    BY <1>1, <1>4, <2>1, <2>2, HeadTailProperties
  <2>4. r.queue = <<>>
    BY <2>3, EmptySeq
  <2>5. Fated(r.queue, r.streams, r.failure)
    BY <2>4 DEF Fated, HasRun, Has
  <2>. QED BY <1>3, <1>8, <2>1, <2>5 DEF r, m, h
<1>11. CASE OfStream(h)
  <2>1. PICK c :
          /\ Told(streams[h.of], c, m.type) /\ r.streams[h.of] = c.stream
          /\ r.rc = c.rc
          /\ (r.crash <=> ~c.assert \/ (c.rc < 0 /\ m.type = "IGNORED"))
          /\ h.type = "RUN" => c.assert /\ (m.type = "IGNORED" => c.rc >= 0)
          /\ h.type \in Statements => Blameless(streams[h.of], c, m.type)
    BY <1>2, <1>11 DEF Reaction
  <2>2. h.of \in Streams /\ \A s \in Streams \ {h.of} : r.streams[s] = streams[s]
    BY <1>2, <1>11 DEF Reaction
  <2>3. h.type = "RUN" => streams[h.of].failure = "none"
    <3>1. h.type = "RUN" => HasRun(request_queue, h.of)
      BY <1>4 DEF HasRun, Has
    <3>. QED BY <1>4, <2>2, <3>1 DEF Fated
  <2>4. h.type \in Statements => (streams[h.of].failure # "none" <=> failure["app"])
    BY <1>4, <1>6 DEF Fated, h
  <2>5. failure["app"] => m.type = "IGNORED"
    BY <1>2 DEF Reaction
  <2>6. ~r.crash
    <3>1. CASE h.type = "RUN"
      BY <1>3, <2>1, <3>1
    <3>2. CASE h.type \in Statements
      <4>1. m.type # "NULL"
        BY <1>5
      <4>. QED BY <1>3, <1>7, <2>1, <2>4, <2>5, <3>2, <4>1 DEF Blameless
    <3>. QED BY <1>11, <3>1, <3>2 DEF OfStream
  <2>7. c.rc >= 0
    BY <1>2, <1>3, <2>1, <2>6 DEF Reaction
  <2>8. /\ m.type \in {"SUCCESS", "RECORD"} => c.stream.failure = streams[h.of].failure
        /\ m.type \in {"FAILURE", "TIMEOUT", "IGNORED"} => c.stream.failure # "none"
    BY <2>1, <2>7 DEF Told, IsFailure
  <2>9. ~HasRun(r.queue, h.of)
    <3>1. CASE h.type = "RUN"
      <4>. SUFFICES ASSUME HasRun(r.queue, h.of) PROVE FALSE
        OBVIOUS
      <4>1. r.queue = Tail(request_queue)
        BY <1>3, <1>5, <3>1
      <4>2. /\ DOMAIN r.queue = 1 .. Len(request_queue) - 1
            /\ DOMAIN request_queue = 1 .. Len(request_queue) /\ Len(request_queue) \in Nat
            /\ \A i \in 1 .. Len(request_queue) - 1 : r.queue[i] = request_queue[i + 1]
        BY <1>1, <1>4, <4>1, HeadTailProperties
      <4>3. PICK k \in DOMAIN r.queue : r.queue[k].of = h.of /\ r.queue[k].type \in {"RUN"}
        BY DEF HasRun, Has
      <4>4. k + 1 \in DOMAIN request_queue /\ r.queue[k] = request_queue[k + 1] /\ k + 1 # 1
        BY <4>2
      <4>. QED BY <1>4, <3>1, <4>3, <4>4 DEF Distinct, OfStream
    <3>2. CASE h.type \in Statements
      <4>1. ~HasRun(request_queue, h.of)
        BY <1>4, <3>2 DEF Behind
      <4>. QED BY <1>9, <2>2, <4>1
    <3>. QED BY <1>11, <3>1, <3>2 DEF OfStream
  <2>10. \A s \in Streams : HasRun(r.queue, s) => r.streams[s].failure = "none"
    BY <1>4, <1>9, <2>2, <2>9 DEF Fated
  <2>11. ASSUME r.queue # <<>>, Head(r.queue).type \in Statements
         PROVE  r.streams[Head(r.queue).of].failure # "none" <=> r.failure
    <3>1. CASE r.queue = request_queue
      <4>1. m.type = "RECORD" /\ h.type = "PULL_ALL"
        <5>1. CASE m.type # "RECORD"
          <6>1. Len(Tail(request_queue)) = Len(request_queue) - 1 /\ Len(request_queue) \in Nat
            BY <1>1, <1>4, HeadTailProperties
          <6>2. Len(Tail(request_queue)) # Len(request_queue)
            BY <6>1
          <6>. QED BY <1>3, <1>5, <3>1, <5>1, <6>2
        <5>. QED BY <1>5, <5>1
      <4>2. r.failure <=> failure["app"]
        BY <1>3, <4>1 DEF IsFailure
      <4>. QED BY <2>1, <2>4, <2>8, <2>11, <3>1, <4>1, <4>2 DEF h
    <3>2. CASE r.queue = Tail(request_queue)
      <4>1. /\ DOMAIN request_queue = 1 .. Len(request_queue) /\ Len(request_queue) \in Nat
            /\ Tail(request_queue) \in Seq(Requests)
            /\ Len(Tail(request_queue)) = Len(request_queue) - 1
            /\ \A i \in 1 .. Len(request_queue) - 1 : r.queue[i] = request_queue[i + 1]
        BY <1>1, <1>4, <3>2, HeadTailProperties
      <4>2. Len(r.queue) # 0
        BY <2>11, <3>2, <4>1, EmptySeq
      <4>3. 1 \in 1 .. Len(request_queue) - 1 /\ 2 \in DOMAIN request_queue
        BY <3>2, <4>1, <4>2
      <4>4. Head(r.queue) = request_queue[2]
        <5>1. Head(r.queue) = r.queue[1]
          BY <2>11
        <5>2. r.queue[1] = request_queue[1 + 1]
          BY <4>1, <4>3
        <5>. QED BY <5>1, <5>2
      <4>5. h.type = "RUN" /\ request_queue[2].of = h.of
        <5>1. request_queue[2 - 1].type = "RUN" /\ request_queue[2 - 1].of = request_queue[2].of
          BY <1>4, <2>11, <4>3, <4>4 DEF Behind
        <5>. QED BY <1>4, <5>1
      <4>6. r.streams[h.of].failure # "none" <=> r.failure
        <5>1. m.type # "RECORD"
          BY <1>5, <4>5 DEF Statements
        <5>2. CASE m.type = "SUCCESS"
          BY <1>3, <2>1, <2>3, <2>5, <2>8, <4>5, <5>2 DEF IsFailure
        <5>3. CASE m.type \in {"FAILURE", "TIMEOUT"}
          BY <1>3, <2>1, <2>8, <5>3 DEF IsFailure
        <5>4. CASE m.type = "IGNORED"
          BY <1>3, <1>7, <2>1, <2>8, <5>4 DEF IsFailure
        <5>. QED BY <1>5, <5>1, <5>2, <5>3, <5>4
      <4>. QED BY <4>4, <4>5, <4>6
    <3>. QED BY <1>3, <3>1, <3>2
  <2>12. Fated(r.queue, r.streams, r.failure)
    BY <2>10, <2>11 DEF Fated
  <2>. QED BY <1>3, <1>8, <2>6, <2>12 DEF r, m, h
<1>. QED BY <1>2, <1>10, <1>11 DEF Reaction, OfStream

(* What a call may return with.                                             *)
Attained ==
  /\ call.op \in {"fetch", "peek"} /\ streams[call.rs].streaming =>
       streams[call.rs].awaiting_records = 0
  /\ call.op \in {"close_rs", "abandon"} =>
       ~HasRun(request_queue, call.rs) /\ ~HasPull(request_queue, call.rs)

\* A step of a call that neither reads nor queues anything.
LEMMA SoundMoves ==
  ASSUME Sound, UNCHANGED <<request_queue, streams, toClient, server>>,
         pc \in [Actors -> Labels], NEW label, pc' = [pc EXCEPT !["app"] = label],
         pc["app"] \notin {"idle", "crashed", "reply"},
         label \notin {"idle", "crashed", "run", "pull", "run_unlock"},
         label = "reply" => ~failure'["app"],
         pc["app"] \in {"unlock_ack", "alloc", "fill"} => label \in {"unlock_ack", "alloc", "fill"},
         call'.rs = call.rs, call'.op = call.op, call'.cond \in {call.cond, "none"},
         label \in Returning \cup {"free"} => pc["app"] \in Returning \/ Attained
  PROVE  Sound'
<1>1. pc'["app"] = label
  BY DEF Actors
<1>2. ~Failing /\ ~Failing'
  BY <1>1 DEF Failing
<1>3. Acking => Acking'
  BY <1>1 DEF Acking
<1>4. Blamed'
  BY <1>2, <1>3 DEF Sound, Blamed, Refusing
<1>5. Prompt'
  <2>1. Behind(request_queue') /\ Fated(request_queue', streams', Failing')
    BY <1>2 DEF Sound, Prompt, Fated
  <2>. QED BY <1>1, <2>1 DEF Prompt
<1>6. Fetching'
  BY <1>1 DEF Sound, Fetching, Attained, Needed, Returning
<1>7. Freeing'
  BY <1>1 DEF Sound, Freeing, Attained, Returning
<1>. QED BY <1>1, <1>4, <1>5, <1>6, <1>7 DEF Sound, Alive

\* The end of session_sync's loop.
LEMMA LoopAttains ==
  ASSUME Undisturbed, Known, WorkInv, AttendInv, Sound, pc["app"] = "loop", ~MoreToDo
  PROVE  Attained
<1>0. /\ Alive /\ ~reset_requested /\ call.rs \in Streams /\ streams[call.rs].open
      /\ streams[call.rs].connection
  BY DEF WorkInv, Working, Connected, Alive
<1>1. streams[call.rs] \in StreamRecord
  BY <1>0, Prepared DEF Recorded
<1>2. request_queue = <<>> \/ ~CondHolds(streams)
  BY <1>0 DEF MoreToDo
<1>3. request_queue = <<>> => ~HasRun(request_queue, call.rs) /\ ~HasPull(request_queue, call.rs)
  BY HasNothing DEF HasRun, HasPull
<1>4. ASSUME call.op \in {"fetch", "peek"}, streams[call.rs].streaming
      PROVE  streams[call.rs].awaiting_records = 0
  <2>1. HasPull(request_queue, call.rs)
    BY <1>0, <1>4 DEF AttendInv, Attended
  <2>2. ~CondHolds(streams)
    BY <1>2, <1>3, <2>1
  <2>3. call.cond \in {"none", "awaiting_records"}
    BY <1>4 DEF Sound, Fetching
  <2>4. ~(streams[call.rs].awaiting_records > 0)
    BY <2>2, <2>3 DEF CondHolds
  <2>5. streams[call.rs].awaiting_records \in 0 .. 2
    BY <1>1 DEF StreamRecord, Lacking
  <2>. QED BY <2>4, <2>5
<1>5. ASSUME call.op \in {"close_rs", "abandon"}
      PROVE  ~HasRun(request_queue, call.rs) /\ ~HasPull(request_queue, call.rs)
  <2>1. call.cond \in {"none", "refcount"}
    BY <1>5 DEF Sound, Freeing
  <2>2. CASE ~CondHolds(streams)
    <3>1. ~(streams[call.rs].refcount > 0)
      BY <2>1, <2>2 DEF CondHolds
    <3>2. Balance(Pointers(request_queue, call.rs), streams[call.rs], Own[call.rs])
      BY <1>0 DEF Known, RefInv, Knows, Accounts, Balanced
    <3>3. Own[call.rs] = 0
      BY <1>0, <1>5 DEF Own, Closing, Taking, Bit
    <3>4. "BADRECORD" \notin Faults
      BY DEF Undisturbed, Signals
    <3>5. streams[call.rs].refcount = Pointers(request_queue, call.rs) + 0
      BY <1>0, <3>2, <3>3, <3>4 DEF Balance
    <3>. QED BY <3>1, <3>5 DEF Pointers, Bit
  <2>. QED BY <1>2, <1>3, <2>2
<1>. QED BY <1>4, <1>5 DEF Attained

LEMMA SoundReceive ==
  ASSUME Undisturbed, Known, WorkInv, Sound, sync_receive
  PROVE  Sound'
<1>. DEFINE r == Received("app")
            m == Head(toClient)
            h == Head(request_queue)
<1>0. /\ Ready /\ RefInv /\ Alive /\ Mirrors /\ Records /\ Recorded(streams)
      /\ pc \in [Actors -> Labels] /\ "app" \in Actors /\ ~reset_requested
      /\ toClient \in Seq(Messages) /\ request_queue \in Seq(Requests)
      /\ toServer \in Seq(Requests) /\ pc["app"] = "reply"
  BY Prepared, WindowKnown DEF Ready, Wired, Sound, WorkInv, Working, sync_receive, At
<1>1. Receives("app") /\ server' = server /\ toServer' = toServer /\ call' = call
      /\ toClient' = Tail(toClient) /\ toClient # <<>> /\ inflight_requests > 0 /\ Reply
      /\ inflight_requests \in Nat
  <2>1. inflight_requests > 0 /\ inflight_requests \in Nat
    BY <1>0 DEF RefInv, WindowInv, WindowTypes, Expecting, sync_receive, At
  <2>. QED BY <1>0, <2>1 DEF sync_receive, At, Receives, Reading, Reply
<1>2. ~r.crash /\ r.failure = (failure["app"] \/ IsFailure(m.type))
      /\ Behind(r.queue) /\ Fated(r.queue, r.streams, r.failure)
  BY <1>0, <1>1, ReceivedFate
<1>3. Reaction(r, h, m) /\ Recorded(r.streams)
  BY <1>0, <1>1, <1>2, ReceivedTold, ReceivedLasts
<1>4. /\ r.rc \in {-1, 0, 1} /\ m \in Messages
      /\ \/ r.queue = request_queue /\ r.inflight = inflight_requests
         \/ r.queue = Tail(request_queue) /\ r.inflight = inflight_requests - 1
      /\ (m \in FinalReplies \/ r.rc >= 0) /\ ~Unexpected("app") =>
           Mirror(Tail(toClient), toServer, r.queue, r.inflight, Pending)
  BY <1>0, <1>1, ReceivedReply
<1>5. ~Unexpected("app") /\ r.rc >= 0
  BY <1>2, <1>3, <1>4 DEF Reaction, Unexpected, Accepted
<1>6. \A s \in Streams : Lasts(streams[s], streams'[s])
  <2>1. Sync
    BY DEF Sync
  <2>. QED BY <1>0, <2>1, SyncLasts
<1>7. r.inflight \in Int
  BY <1>1, <1>4
<1>8. /\ m = toClient[1] /\ DOMAIN toClient = 1 .. Len(toClient) /\ Len(toClient) \in Nat \ {0}
      /\ DOMAIN toClient' = 1 .. Len(toClient) - 1 /\ toClient' \in Seq(Messages)
      /\ \A i \in 1 .. Len(toClient) - 1 : toClient'[i] = toClient[i + 1]
  BY <1>0, <1>1, TailOf
<1>9. failure'["app"] = r.failure
  <2>1. DOMAIN failure = Actors
    BY <1>0 DEF Ready, Wired, InOrder
  <2>. QED BY <1>0, <2>1 DEF sync_receive
<1>10. ASSUME pc'["app"] \in {"unlock_ack", "reply", "send"} PROVE Fetching' /\ Freeing'
  <2>1. pc'["app"] \notin Returning \cup {"free"}
    BY <1>10 DEF Returning
  <2>2. call.rs \in Streams
    BY <1>0 DEF WorkInv, Working
  <2>3. /\ streams'[call.rs].streaming =>
             streams[call.rs].streaming /\ Coming(streams'[call.rs]) >= Coming(streams[call.rs])
    BY <1>6, <2>2 DEF Lasts
  <2>4. /\ Coming(streams'[call.rs]) \in Nat /\ Coming(streams[call.rs]) \in Nat
    <3>1. Recorded(streams')
      <4>1. streams' \in {r.streams, DrainedStreams(r.queue, r.streams)}
        BY <1>2, <1>4, <1>5 DEF sync_receive
      <4>2. Recorded(DrainedStreams(r.queue, r.streams))
        BY <1>3, DrainedRecorded
      <4>. QED BY <1>3, <4>1, <4>2
    <3>. QED BY <1>0, <2>2, <3>1, LastsFields DEF Recorded
  <2>5. Needed \in Nat /\ Needed' = Needed
    BY <1>1 DEF Needed
  <2>6. Fetching'
    <3>. SUFFICES ASSUME call.op \in {"fetch", "peek"}
                  PROVE  /\ call.cond \in {"none", "awaiting_records"}
                         /\ streams'[call.rs].streaming => Coming(streams'[call.rs]) >= Needed
      BY <1>1, <2>1, <2>5 DEF Fetching, Coming
    <3>1. /\ call.cond \in {"none", "awaiting_records"}
          /\ streams[call.rs].streaming => Coming(streams[call.rs]) >= Needed
      BY <1>0 DEF Sound, Fetching
    <3>. QED BY <2>3, <2>4, <2>5, <3>1
  <2>7. Freeing'
    BY <1>0, <1>1, <2>1 DEF Sound, Freeing
  <2>. QED BY <2>6, <2>7
<1>. HIDE DEF r, m, h
\* The failure has been dealt with: the queue is drained.
<1>11. CASE r.failure /\ ~((r.failure \/ CondHolds(r.streams)) /\ r.inflight > 0)
  <2>1. /\ request_queue' = <<>> /\ streams' = DrainedStreams(r.queue, r.streams)
        /\ IF DrainCrashes(r.queue) THEN Crash ELSE Goto("unlock_ack")
    BY <1>0, <1>2, <1>4, <1>5, <1>11 DEF sync_receive, r
  <2>2. ~DrainCrashes(r.queue)
    <3>1. Proper(request_queue, FALSE)
      BY <1>0 DEF RefInv, Knows, Accounts
    <3>2. \A i \in DOMAIN request_queue : request_queue[i].type \notin TxRequests \cup {"BLANK"}
      BY <3>1 DEF Proper, Answerable, Statements, TxRequests, WorkInv, Working
    <3>3. request_queue # <<>>
      BY <1>0, <1>1, HeadFits
    <3>4. /\ DOMAIN Tail(request_queue) = 1 .. Len(request_queue) - 1
          /\ DOMAIN request_queue = 1 .. Len(request_queue) /\ Len(request_queue) \in Nat
          /\ \A i \in 1 .. Len(request_queue) - 1 : Tail(request_queue)[i] = request_queue[i + 1]
      BY <1>0, <3>3, HeadTailProperties
    <3>5. \A i \in DOMAIN Tail(request_queue) :
             i + 1 \in DOMAIN request_queue /\ Tail(request_queue)[i] = request_queue[i + 1]
      BY <3>4
    <3>. QED BY <1>4, <3>2, <3>5 DEF DrainCrashes
  <2>3. pc'["app"] = "unlock_ack"
    BY <1>0, <2>1, <2>2 DEF Goto
  <2>4. Answered(toClient') = <<>>
    <3>1. r.inflight = 0
      BY <1>1, <1>4, <1>7, <1>11
    <3>2. Mirror(Tail(toClient), toServer, r.queue, 0, Pending) /\ Pending = <<>>
      BY <1>0, <1>4, <1>5, <3>1 DEF Pending
    <3>3. r.queue \in Seq(Requests) /\ 0 \in 0 .. Len(r.queue)
      <4>1. request_queue # <<>>
        BY <1>0, <1>1, HeadFits
      <4>2. r.queue \in Seq(Requests)
        BY <1>0, <1>4, <4>1, HeadTailProperties
      <4>3. Len(r.queue) \in Nat
        BY <4>2
      <4>. QED BY <4>2, <4>3
    <3>4. Len(SubSeq(r.queue, 1, 0)) = 0 /\ SubSeq(r.queue, 1, 0) \in Seq(Requests)
      BY <3>3, FrontOf
    <3>5. SubSeq(r.queue, 1, 0) \o <<>> = <<>>
      BY <3>4, EmptySeq
    <3>6. Answered(toClient') \o toServer = <<>> /\ Answered(toClient') \in Seq(Requests)
      BY <1>1, <1>8, <3>2, <3>5, AnsweredTyped DEF Mirror
    <3>7. Len(Answered(toClient')) + Len(toServer) = 0
      BY <1>0, <3>6, ConcatProperties
    <3>8. Len(Answered(toClient')) = 0
      BY <1>0, <3>6, <3>7
    <3>. QED BY <3>6, <3>8, EmptySeq
  <2>5. Excused(toClient')
    <3>. SUFFICES ASSUME NEW i \in DOMAIN toClient', toClient'[i].type = "IGNORED" PROVE FALSE
      BY DEF Excused
    <3>1. toClient'[i] \in Messages
      BY <1>8, ElementOfSeq
    <3>2. toClient'[i] \in FinalReplies
      BY <3>1, FinalOrRecord
    <3>3. Elements(Filter(toClient', FinalReplies)) = Elements(toClient') \cap FinalReplies
      BY <1>8, FilterElements
    <3>4. toClient'[i] \in Elements(Filter(toClient', FinalReplies))
      BY <3>2, <3>3 DEF Elements
    <3>5. DOMAIN Filter(toClient', FinalReplies) # {}
      BY <3>4 DEF Elements
    <3>6. DOMAIN Answered(toClient') # {}
      BY <3>5 DEF Answered
    <3>. QED BY <2>4, <3>6
  <2>6. ~Failing' /\ Acking'
    BY <2>3 DEF Failing, Acking
  <2>7. Blamed'
    BY <2>4, <2>5, <2>6 DEF Blamed
  <2>8. Prompt'
    BY <2>1, <2>3 DEF Prompt, Behind, Fated, HasRun, Has
  <2>. QED BY <1>10, <2>3, <2>7, <2>8 DEF Sound, Alive
\* The loop goes on.
<1>12. CASE ~r.failure \/ ((r.failure \/ CondHolds(r.streams)) /\ r.inflight > 0)
  <2>1. /\ request_queue' = r.queue /\ streams' = r.streams
        /\ \/ Goto("reply") /\ r.inflight > 0
           \/ Goto("send") /\ ~r.failure
    BY <1>0, <1>2, <1>4, <1>5, <1>12 DEF sync_receive, r
  <2>2. pc'["app"] \in {"reply", "send"} /\ (Failing' <=> r.failure)
    <3>1. CASE Goto("reply")
      BY <1>0, <1>2, <1>9, <3>1 DEF Goto, Failing
    <3>2. CASE Goto("send") /\ ~r.failure
      BY <1>0, <1>2, <1>9, <3>2 DEF Goto, Failing
    <3>. QED BY <2>1, <3>1, <3>2
  <2>3. Failing <=> failure["app"]
    BY <1>0 DEF Failing
  <2>4. ASSUME ~Failing' PROVE Excused(toClient')
    <3>1. ~IsFailure(m.type) /\ Excused(toClient)
      BY <1>2, <2>2, <2>3, <2>4 DEF Sound, Blamed
    <3>. SUFFICES ASSUME NEW i \in 1 .. Len(toClient) - 1, toClient'[i].type = "IGNORED"
                  PROVE  \E j \in 1 .. i - 1 : IsFailure(toClient'[j].type)
      BY <1>8 DEF Excused
    <3>2. i + 1 \in DOMAIN toClient /\ toClient[i + 1].type = "IGNORED"
      BY <1>8
    <3>3. PICK j \in 1 .. (i + 1) - 1 : IsFailure(toClient[j].type)
      BY <3>1, <3>2 DEF Excused
    <3>4. j # 1
      BY <1>8, <3>1, <3>3
    <3>5. j - 1 \in 1 .. i - 1 /\ j - 1 \in 1 .. Len(toClient) - 1 /\ (j - 1) + 1 = j
      BY <1>8, <3>3, <3>4
    <3>6. toClient'[j - 1] = toClient[j]
      BY <1>8, <3>5
    <3>. QED BY <3>3, <3>5, <3>6
  <2>5. ASSUME Refusing', ~Failing' PROVE HasFailure(toClient')
    <3>1. Refusing /\ ~Failing /\ ~IsFailure(m.type)
      BY <1>1, <1>2, <2>2, <2>3, <2>5 DEF Refusing
    <3>2. ~Acking \/ Answered(toClient) # <<>>
      <4>. SUFFICES ASSUME Acking, Answered(toClient) = <<>> PROVE FALSE
        OBVIOUS
      <4>1. PICK k \in DOMAIN request_queue : request_queue[k].type = "ACK"
        BY <1>0 DEF Acking
      <4>2. k = 1 /\ h = request_queue[1]
        BY <1>0, <1>1, <4>1, HeadFits DEF Ready, Alone, Special, h
      <4>3. m \notin FinalReplies
        <5>1. Answered(toClient) = IF m \in FinalReplies THEN <<m.to>> \o Answered(Tail(toClient))
                                   ELSE Answered(Tail(toClient))
          BY <1>0, <1>1, AnsweredHead DEF m
        <5>2. Answered(Tail(toClient)) \in Seq(Requests) /\ m.to \in Requests
          BY <1>1, <1>4, <1>8, AnsweredTyped DEF Messages
        <5>3. <<m.to>> \o Answered(Tail(toClient)) # <<>>
          BY <5>2
        <5>. QED BY <5>1, <5>3
      <4>4. m.to.type = "PULL_ALL" /\ 1 \in DOMAIN toClient
        BY <1>0, <1>8, <4>3 DEF Records, ForStatement
      <4>5. m.to = h
        BY <1>3 DEF Reaction, h
      <4>. QED BY <4>1, <4>2, <4>4, <4>5
    <3>3. PICK j \in DOMAIN toClient : IsFailure(toClient[j].type)
      BY <3>1, <3>2 DEF Sound, Blamed, HasFailure
    <3>4. j # 1
      BY <1>8, <3>1, <3>3
    <3>5. j - 1 \in 1 .. Len(toClient) - 1 /\ (j - 1) + 1 = j
      BY <1>8, <3>3, <3>4
    <3>6. toClient'[j - 1] = toClient[j] /\ j - 1 \in DOMAIN toClient'
      BY <1>8, <3>5
    <3>. QED BY <3>3, <3>6 DEF HasFailure
  <2>6. Blamed'
    BY <2>4, <2>5 DEF Blamed
  <2>7. Prompt'
    <3>1. Fated(r.queue, r.streams, Failing')
      BY <1>2, <2>2 DEF Fated
    <3>. QED BY <1>2, <2>1, <2>2, <3>1 DEF Prompt
  <2>. QED BY <1>10, <2>2, <2>6, <2>7 DEF Sound, Alive
<1>. QED BY <1>11, <1>12

LEMMA SoundSync ==
  ASSUME Undisturbed, Known, WorkInv, AttendInv, Sound, Sync
  PROVE  Sound'
<1>. DEFINE Step(label) == pc' = [pc EXCEPT !["app"] = label]
<1>0. /\ Alive /\ Ready /\ ~broken /\ ~NoReply /\ ~reset_requested
      /\ pc \in [Actors -> Labels] /\ "app" \in Actors /\ request_queue \in Seq(Requests)
      /\ call \in Calling /\ call.fill.type = "ACK"
  BY Prepared, NoErrors, WindowKnown
     DEF Sound, Ready, WorkInv, Working, RefInv, WindowInv, WindowTypes
<1>1. pc'["app"] = "done" => ret'.rc = 0
  <2>1. WorkInv'
    BY <1>0, WorkSync
  <2>. QED BY <2>1 DEF WorkInv, Working
<1>2. ~(Return(-1, "EINVAL") \/ Return(-1, "SESSION_FAILED") \/ Return(-1, "SESSION_BUSY")
        \/ Return(-1, QueueError))
  BY <1>0, <1>1 DEF Return, Goto
<1>3. CASE sync_enter
  <2>1. Step("lock") /\ pc["app"] = "enter"
        /\ UNCHANGED <<request_queue, streams, toClient, server, call, failure>>
    BY <1>2, <1>3 DEF sync_enter, At, Goto, connVars, wireVars
  <2>. HIDE DEF Step
  <2>. QED BY <1>0, <2>1, SoundMoves DEF Step, Returning
<1>4. CASE sync_lock
  <2>1. Step("loop") /\ pc["app"] = "lock"
        /\ UNCHANGED <<request_queue, streams, toClient, server, call, failure>>
    BY <1>2, <1>4 DEF sync_lock, At, Goto, wireVars
  <2>. QED BY <1>0, <2>1, SoundMoves DEF Returning
<1>5. CASE sync_loop
  <2>1. /\ pc["app"] = "loop" /\ failure' = [failure EXCEPT !["app"] = FALSE]
        /\ UNCHANGED <<request_queue, streams, toClient, server, call>>
        /\ \/ Step("reply") \/ Step("send")
           \/ Step("exit") /\ ~MoreToDo
    BY <1>5 DEF sync_loop, At, Goto, connVars, wireVars
  <2>2. ~failure'["app"]
    BY <1>0, <2>1 DEF Ready, Wired, InOrder
  <2>3. CASE Step("reply") \/ Step("send")
    BY <1>0, <2>1, <2>2, <2>3, SoundMoves DEF Returning
  <2>4. CASE Step("exit") /\ ~MoreToDo
    <3>1. Attained
      BY <2>1, <2>4, LoopAttains
    <3>. QED BY <1>0, <2>1, <2>4, <3>1, SoundMoves
  <2>. QED BY <2>1, <2>3, <2>4
<1>6. CASE sync_receive
  BY <1>6, SoundReceive
<1>7. ~sync_receive_error
  BY <1>0 DEF sync_receive_error
<1>8. CASE send_requests
  <2>1. /\ pc["app"] = "send"
        /\ UNCHANGED <<request_queue, streams, toClient, server, call>>
        /\ Step("xmit") \/ Step("loop")
    BY <1>8 DEF send_requests, At, Goto, connVars, wireVars
  <2>. QED BY <1>0, <2>1, SoundMoves DEF Returning
<1>9. CASE send_request
  <2>1. /\ pc["app"] = "xmit" /\ Step("send")
        /\ UNCHANGED <<request_queue, streams, toClient, server, call>>
    BY <1>0, <1>9 DEF send_request, At, Goto
  <2>. QED BY <1>0, <2>1, SoundMoves DEF Returning
<1>10. CASE sync_exit
  <2>1. /\ pc["app"] = "exit" /\ Step("unlock")
        /\ UNCHANGED <<request_queue, streams, toClient, server, call>>
    BY <1>0, <1>10 DEF sync_exit, At, Goto, wireVars
  <2>. QED BY <1>0, <2>1, SoundMoves DEF Returning
<1>11. CASE sync_unlock
  <2>1. /\ pc["app"] = "unlock" /\ Step("done")
        /\ UNCHANGED <<request_queue, streams, toClient, server, call>>
    BY <1>0, <1>11 DEF sync_unlock, At, Goto, wireVars
  <2>. QED BY <1>0, <2>1, SoundMoves DEF Returning
<1>12. CASE sync_unlock_ack
  <2>1. /\ pc["app"] = "unlock_ack" /\ Step("alloc")
        /\ UNCHANGED <<request_queue, streams, toClient, server>>
        /\ call' = [call EXCEPT !.cond = "none", !.fill = Ack]
    BY <1>0, <1>12 DEF sync_unlock_ack, At, Goto, wireVars
  <2>2. call'.rs = call.rs /\ call'.op = call.op /\ call'.cond = "none"
    BY <1>0, <2>1 DEF Calling
  <2>. HIDE DEF Step
  <2>. QED BY <1>0, <2>1, <2>2, SoundMoves DEF Step, Returning
<1>13. CASE new_request \/ populate
  <2>1. /\ UNCHANGED <<streams, toClient, server, call, failure>>
        /\ pc["app"] \in {"alloc", "fill"} /\ pc'["app"] \in {"fill", "enter"}
        /\ \E x : /\ request_queue' = <<x>> /\ x.type \in {"BLANK", "ACK"}
                  /\ pc'["app"] = "enter" => x.type = "ACK"
    <3>1. CASE new_request
      <4>1. pc["app"] = "alloc" /\ request_queue' = Append(request_queue, Blank) /\ Step("fill")
            /\ UNCHANGED <<streams, toClient, server, call, failure>>
        BY <1>2, <3>1 DEF new_request, At, Goto, Queue, Blank, wireVars
      <4>2. request_queue = <<>>
        BY <1>0, <4>1 DEF Ready, Alone
      <4>3. request_queue' = <<Blank>> /\ Blank.type = "BLANK"
        BY <4>1, <4>2 DEF Blank, Request
      <4>. QED BY <1>0, <4>1, <4>3
    <3>2. CASE populate
      <4>1. /\ pc["app"] = "fill" /\ Step("enter")
            /\ request_queue' = [request_queue EXCEPT ![Len(request_queue)] = call.fill]
            /\ UNCHANGED <<streams, toClient, server, call, failure>>
        BY <3>2 DEF populate, At, Goto, wireVars
      <4>2. Len(request_queue) = 1
        BY <1>0, <4>1 DEF Ready, Alone
      <4>3. request_queue' = <<call.fill>>
        BY <1>0, <4>1, <4>2
      <4>. QED BY <1>0, <4>1, <4>3
    <3>. QED BY <1>13, <3>1, <3>2
  <2>2. PICK x : /\ request_queue' = <<x>> /\ x.type \in {"BLANK", "ACK"}
                 /\ pc'["app"] = "enter" => x.type = "ACK"
    BY <2>1
  <2>3. ~Failing /\ ~Failing'
    BY <2>1 DEF Failing
  <2>4. Acking'
    <3>1. request_queue'[1] = x /\ 1 \in DOMAIN request_queue'
      BY <2>2
    <3>. QED BY <2>1, <2>2, <3>1 DEF Acking
  <2>5. Blamed'
    <3>1. Acking
      BY <2>1 DEF Acking
    <3>. QED BY <2>1, <2>3, <2>4, <3>1 DEF Sound, Blamed, Refusing
  <2>6. Prompt'
    <3>1. DOMAIN request_queue' = {1} /\ request_queue'[1] = x /\ Head(request_queue') = x
      BY <2>2
    <3>2. x.type \notin Statements /\ x.type # "RUN"
      BY <2>2 DEF Statements
    <3>. QED BY <2>1, <3>1, <3>2 DEF Prompt, Behind, Fated, HasRun, Has
  <2>7. Fetching' /\ Freeing'
    BY <2>1 DEF Sound, Fetching, Freeing, Needed, Returning
  <2>. QED BY <2>1, <2>5, <2>6, <2>7 DEF Sound, Alive
<1>. QED BY <1>3, <1>4, <1>5, <1>6, <1>7, <1>8, <1>9, <1>10, <1>11, <1>12, <1>13 DEF Sync

\* What the steps outside session_sync that queue nothing keep.
LEMMA SoundKept ==
  ASSUME Known, Sound, UNCHANGED <<request_queue, toClient, server>>,
         pc["app"] \notin {"reply", "unlock_ack", "alloc", "fill"}, pc'["app"] # "reply",
         \A s \in Streams : HasRun(request_queue, s) \/ HasPull(request_queue, s) =>
           streams'[s].failure = streams[s].failure
  PROVE  Blamed' /\ Behind(request_queue') /\ Fated(request_queue', streams', Failing')
<1>1. ~Failing /\ ~Failing' /\ (Acking => Acking')
  BY DEF Failing, Acking
<1>2. Blamed'
  BY <1>1 DEF Sound, Blamed, Refusing
<1>3. Fated(request_queue, streams', Failing')
  <2>1. ASSUME request_queue # <<>>, Head(request_queue).type \in Statements
        PROVE  /\ Head(request_queue).of \in Streams
               /\ HasPull(request_queue, Head(request_queue).of)
    <3>1. Len(request_queue) \in Nat \ {0} /\ DOMAIN request_queue = 1 .. Len(request_queue)
      BY <2>1, WindowKnown, EmptySeq DEF Known
    <3>2. Head(request_queue) = request_queue[1] /\ 1 \in DOMAIN request_queue
      BY <3>1
    <3>3. Proper(request_queue, FALSE)
      BY DEF Known, RefInv, Knows, Accounts, Sound
    <3>. QED BY <2>1, <3>2, <3>3 DEF Proper, OfStream, HasPull, Has
  <2>. QED BY <1>1, <2>1 DEF Sound, Prompt, Fated
<1>. QED BY <1>2, <1>3 DEF Sound, Prompt

\* The last reference to a stream that is closed is the program's own.
LEMMA CloseFrees ==
  ASSUME Undisturbed, Known, Alive, NEW s \in Streams, streams[s].open,
         ~Closing(s), ~Taking(s), ~(streams[s].refcount > 1)
  PROVE  ~HasRun(request_queue, s) /\ ~HasPull(request_queue, s)
<1>1. Balance(Pointers(request_queue, s), streams[s], Own[s])
  BY DEF Known, RefInv, Knows, Accounts, Balanced
<1>2. Own[s] = 1
  BY DEF Own, Bit
<1>3. "BADRECORD" \notin Faults
  BY DEF Undisturbed, Signals
<1>4. streams[s].refcount = Pointers(request_queue, s) + 1
  BY <1>1, <1>2, <1>3 DEF Balance
<1>. QED BY <1>4 DEF Pointers, Bit

\* What the program does to its streams outside session_sync does not fail them.
LEMMA FailureFields ==
  ASSUME NEW r \in StreamRecord
  PROVE  /\ Pop(r).failure = r.failure /\ \A n : Await(r, n).failure = r.failure
         /\ Lost(r).failure = r.failure /\ Referenced(r).failure = r.failure
         /\ Started(r).failure = r.failure
         /\ [r EXCEPT !.streaming = FALSE, !.refcount = @ - 1].failure = r.failure
  BY DEF StreamRecord, Pop, Await, Lost, Referenced, Started

LEMMA SoundStart ==
  ASSUME Undisturbed, Known, WorkInv, Sound, Fresh, Start
  PROVE  Sound'
<1>0. /\ Alive /\ Recorded(streams) /\ Txs = {} /\ "close" \notin Ops /\ ~failed
      /\ pc \in [Actors -> Labels] /\ "app" \in Actors /\ RefInv
  BY Prepared, WindowKnown DEF Undisturbed, Known, Sound, WorkInv, Working
<1>1. UNCHANGED <<request_queue, toClient, server>> /\ pc["app"] = "idle"
  BY <1>0 DEF Start, run_open, close_results, check_failure, consume, fetch_next, peek,
              AwaitRecords, close_start,
              unchangedByCall, wireVars, Calls, At
<1>2. \A s \in Streams : ~Closing(s) /\ ~Taking(s)
  BY <1>0, <1>1, NoneAssumption DEF RefInv, Knows, Phases, Closing, Taking
<1>3. CASE \E s \in Streams, kind \in Statements, t \in Txs \cup {None} : run_open(s, kind, t)
  <2>1. PICK s \in Streams, kind \in Statements, t \in Txs \cup {None} : run_open(s, kind, t)
    BY <1>3
  <2>2. /\ streams' = [streams EXCEPT ![s] = run_rs_open] /\ ~streams[s].open
        /\ pc' = [pc EXCEPT !["app"] = "run"]
        /\ call' = [Idle EXCEPT !.op = "run", !.rs = s, !.tx = t, !.kind = kind, !.cond = "starting"]
    BY <1>0, <2>1 DEF run_open, Enter, Goto
  <2>3. ~HasRun(request_queue, s) /\ ~HasPull(request_queue, s)
    <3>1. Balance(Pointers(request_queue, s), streams[s], Own[s])
      BY <1>0 DEF RefInv, Knows, Accounts, Balanced
    <3>. QED BY <2>2, <3>1 DEF Balance, Pointers, Bit
  <2>4. /\ pc'["app"] = "run" /\ call'.rs = s /\ call'.op = "run"
        /\ streams'[s].failure = "none" /\ \A x \in Streams \ {s} : streams'[x] = streams[x]
    BY <1>0, <2>2 DEF Idle, Recorded, run_rs_open, NoStream
  <2>5. Blamed' /\ Behind(request_queue') /\ Fated(request_queue', streams', Failing')
    BY <1>0, <1>1, <2>3, <2>4, SoundKept
  <2>. QED BY <2>4, <2>5 DEF Sound, Alive, Prompt, Fetching, Freeing
<1>4. CASE ~(\E s \in Streams, kind \in Statements, t \in Txs \cup {None} : run_open(s, kind, t))
  <2>1. \A s \in Streams : Keeps(streams[s], streams'[s])
    <3>1. \A s \in Streams, kind \in Statements, t \in Txs \cup {None} : ~run_open(s, kind, t)
      BY <1>4
    <3>2. ~free_results
      BY <1>1 DEF free_results, At
    <3>. QED BY <1>0, <3>1, <3>2, AllKeeps
  <2>2. \A s \in Streams :
          HasRun(request_queue, s) \/ HasPull(request_queue, s) =>
            streams'[s].failure = streams[s].failure
    <3>. SUFFICES \A s \in Streams : streams'[s].failure = streams[s].failure
      OBVIOUS
    <3>1. ASSUME NEW x \in Streams, NEW t, t.failure = streams[x].failure,
                 streams' = [streams EXCEPT ![x] = t]
          PROVE  \A s \in Streams : streams'[s].failure = streams[s].failure
      BY <1>0, <3>1 DEF Recorded
    <3>2. CASE \E x \in Streams : close_results(x)
      <4>1. PICK x \in Streams : close_results(x)
        BY <3>2
      <4>2. streams' = [streams EXCEPT ![x] =
                          [streams[x] EXCEPT !.streaming = FALSE, !.refcount = @ - 1]]
        BY <1>0, <4>1 DEF close_results, run_rs_close, Recorded, StreamRecord
      <4>3. streams[x] \in StreamRecord
        BY <1>0 DEF Recorded
      <4>. QED BY <3>1, <4>2, <4>3, FailureFields
    <3>3. CASE \E x \in Streams : fetch_next(x) \/ peek(x)
      <4>1. PICK x \in Streams : fetch_next(x) \/ peek(x)
        BY <3>3
      <4>2. streams[x] \in StreamRecord
        BY <1>0 DEF Recorded
      <4>3. \/ streams' = [streams EXCEPT ![x] = Pop(streams[x])]
            \/ \E n : streams' = [streams EXCEPT ![x] = Await(streams[x], n)]
        BY <4>1 DEF fetch_next, peek, AwaitRecords, Fresh
      <4>4. Pop(streams[x]).failure = streams[x].failure
            /\ \A n : Await(streams[x], n).failure = streams[x].failure
        BY <4>2, FailureFields
      <4>. QED BY <3>1, <4>3, <4>4
    <3>4. CASE \E x \in Streams : check_failure(x) \/ consume(x)
      BY <3>4 DEF check_failure, consume
    <3>5. ~close_start
      BY <1>0 DEF close_start
    <3>. QED BY <1>0, <1>4, <3>2, <3>3, <3>4, <3>5 DEF Start
  <2>3. /\ pc'["app"] \in {"idle", "enter", "free"}
        /\ pc'["app"] # "idle" =>
             \E s \in Streams :
               \/ /\ call' \in {[Idle EXCEPT !.op = "close_rs", !.rs = s, !.cond = "refcount"]}
                  /\ streams[s].open
                  /\ pc'["app"] = "free" => ~(streams[s].refcount > 1)
               \/ /\ call' \in {[Idle EXCEPT !.op = "check", !.rs = s, !.cond = "starting"],
                                [Idle EXCEPT !.op = "consume", !.rs = s, !.cond = "streaming"]}
               \/ /\ pc'["app"] = "enter"
                  /\ \/ /\ call' = [Idle EXCEPT !.op = "fetch", !.rs = s, !.cond = "awaiting_records"]
                        /\ streams' = [streams EXCEPT ![s] = Await(@, 1)]
                     \/ /\ call' = [Idle EXCEPT !.op = "peek", !.rs = s, !.cond = "awaiting_records"]
                        /\ streams' = [streams EXCEPT ![s] = Await(@, 2 - Len(streams[s].records))]
    BY <1>0, <1>1, <1>4
       DEF Start, close_results, check_failure, consume, fetch_next, peek, AwaitRecords,
           close_start, run_rs_close, Enter, Goto, Held, Idle, Fresh
  <2>4. Blamed' /\ Behind(request_queue') /\ Fated(request_queue', streams', Failing')
    BY <1>0, <1>1, <2>2, <2>3, SoundKept
  <2>5. Prompt'
    BY <2>3, <2>4 DEF Prompt
  <2>6. Fetching' /\ Freeing'
    <3>1. CASE pc'["app"] = "idle"
      BY <3>1 DEF Fetching, Freeing
    <3>2. CASE pc'["app"] # "idle"
      <4>1. PICK s \in Streams :
               \/ /\ call' \in {[Idle EXCEPT !.op = "close_rs", !.rs = s, !.cond = "refcount"]}
                  /\ streams[s].open
                  /\ pc'["app"] = "free" => ~(streams[s].refcount > 1)
               \/ /\ call' \in {[Idle EXCEPT !.op = "check", !.rs = s, !.cond = "starting"],
                                [Idle EXCEPT !.op = "consume", !.rs = s, !.cond = "streaming"]}
               \/ /\ pc'["app"] = "enter"
                  /\ \/ /\ call' = [Idle EXCEPT !.op = "fetch", !.rs = s, !.cond = "awaiting_records"]
                        /\ streams' = [streams EXCEPT ![s] = Await(@, 1)]
                     \/ /\ call' = [Idle EXCEPT !.op = "peek", !.rs = s, !.cond = "awaiting_records"]
                        /\ streams' = [streams EXCEPT ![s] = Await(@, 2 - Len(streams[s].records))]
        BY <2>3, <3>2
      <4>2. CASE /\ call' \in {[Idle EXCEPT !.op = "close_rs", !.rs = s, !.cond = "refcount"]}
                 /\ streams[s].open
                 /\ pc'["app"] = "free" => ~(streams[s].refcount > 1)
        <5>1. call'.op = "close_rs" /\ call'.rs = s /\ call'.cond = "refcount"
          BY <4>2 DEF Idle
        <5>2. pc'["app"] = "free" => ~HasRun(request_queue, s) /\ ~HasPull(request_queue, s)
          BY <1>0, <1>2, <4>2, CloseFrees
        <5>. QED BY <1>1, <2>3, <5>1, <5>2 DEF Fetching, Freeing, Returning
      <4>3. CASE call' \in {[Idle EXCEPT !.op = "check", !.rs = s, !.cond = "starting"],
                            [Idle EXCEPT !.op = "consume", !.rs = s, !.cond = "streaming"]}
        <5>1. call'.op \in {"check", "consume"}
          BY <4>3 DEF Idle
        <5>. QED BY <5>1 DEF Fetching, Freeing
      <4>4. CASE /\ pc'["app"] = "enter"
                 /\ call' = [Idle EXCEPT !.op = "fetch", !.rs = s, !.cond = "awaiting_records"]
                 /\ streams' = [streams EXCEPT ![s] = Await(@, 1)]
        <5>1. call'.op = "fetch" /\ call'.rs = s /\ call'.cond = "awaiting_records"
          BY <4>4 DEF Idle
        <5>2. /\ streams'[s].records = streams[s].records
              /\ streams'[s].awaiting_records = 1 /\ Len(streams[s].records) \in Nat
          BY <1>0, <4>4 DEF Await, Recorded, StreamRecord, Lists
        <5>3. Coming(streams'[s]) >= 1
          BY <5>2 DEF Coming
        <5>. QED BY <4>4, <5>1, <5>3 DEF Fetching, Freeing, Returning, Needed, Coming
      <4>5. CASE /\ pc'["app"] = "enter"
                 /\ call' = [Idle EXCEPT !.op = "peek", !.rs = s, !.cond = "awaiting_records"]
                 /\ streams' = [streams EXCEPT ![s] = Await(@, 2 - Len(streams[s].records))]
        <5>1. call'.op = "peek" /\ call'.rs = s /\ call'.cond = "awaiting_records"
          BY <4>5 DEF Idle
        <5>2. /\ streams'[s].records = streams[s].records /\ Len(streams[s].records) \in Nat
              /\ streams'[s].awaiting_records = 2 - Len(streams[s].records)
          BY <1>0, <4>5 DEF Await, Recorded, StreamRecord, Lists
        <5>3. Coming(streams'[s]) >= 2
          BY <5>2 DEF Coming
        <5>. QED BY <4>5, <5>1, <5>3 DEF Fetching, Freeing, Returning, Needed, Coming
      <4>. QED BY <4>1, <4>2, <4>3, <4>4, <4>5
    <3>. QED BY <3>1, <3>2
  <2>. QED BY <2>3, <2>4, <2>5, <2>6 DEF Sound, Alive
<1>. QED BY <1>3, <1>4

\* A request of a stream that has not failed, queued in its place.
LEMMA SoundAppend ==
  ASSUME Known, Sound, NEW x \in Requests, request_queue' = Append(request_queue, x),
         UNCHANGED <<toClient, server, streams>>,
         pc["app"] \in {"run", "pull"}, pc'["app"] \in {"run_unlock", "pull_unlock"},
         x.type \in {"RUN"} \cup Statements,
         x.type = "RUN" => ~HasPull(request_queue, x.of) /\ streams[x.of].failure = "none",
         x.type \in Statements =>
           /\ request_queue # <<>> /\ request_queue[Len(request_queue)].type = "RUN"
           /\ request_queue[Len(request_queue)].of = x.of
  PROVE  Blamed' /\ Behind(request_queue') /\ Fated(request_queue', streams', Failing')
<1>. DEFINE q == request_queue
            t == request_queue'
<1>1. /\ q \in Seq(Requests) /\ Len(q) \in Nat /\ DOMAIN q = 1 .. Len(q)
      /\ t = Append(q, x) /\ DOMAIN t = 1 .. Len(q) + 1
      /\ t[Len(q) + 1] = x /\ \A i \in 1 .. Len(q) : t[i] = q[i]
  BY WindowKnown, AppendProperties DEF Known
<1>2. \A s : HasRun(t, s) => HasRun(q, s) \/ (x.of = s /\ x.type = "RUN")
  BY <1>1, HasAppend DEF HasRun
<1>3. "RUN" \notin Statements
  BY DEF Statements
<1>. HIDE DEF q, t
<1>4. ~Failing /\ ~Failing' /\ (Acking => Acking')
  <2>1. ~Failing /\ ~Failing'
    BY DEF Failing
  <2>2. ASSUME Acking PROVE Acking'
    <3>1. PICK i \in DOMAIN q : q[i].type = "ACK"
      BY <2>2 DEF Acking, q
    <3>2. i \in DOMAIN t /\ t[i].type = "ACK"
      BY <1>1, <3>1
    <3>. QED BY <3>2 DEF Acking, t
  <2>. QED BY <2>1, <2>2
<1>5. Blamed'
  BY <1>4 DEF Sound, Blamed, Refusing
<1>6. Behind(t)
  <2>1. Behind(q)
    BY DEF Sound, Prompt, q
  <2>. QED BY <1>1, <2>1, BehindAppend DEF q
<1>7. Fated(t, streams', Failing')
  <2>1. Fated(q, streams, Failing)
    BY DEF Sound, Prompt, q
  <2>2. \A s \in Streams : HasRun(t, s) => streams[s].failure = "none"
    BY <1>2, <2>1 DEF Fated
  <2>3. ASSUME Head(t).type \in Statements
        PROVE  streams[Head(t).of].failure # "none" <=> Failing'
    <3>1. Head(t) = t[1]
      BY <1>1
    <3>2. q # <<>>
      BY <1>1, <1>3, <2>3, <3>1 DEF q
    <3>3. Head(t) = Head(q)
      BY <1>1, <3>1, <3>2
    <3>. QED BY <1>4, <2>1, <2>3, <3>2, <3>3 DEF Fated
  <2>. QED BY <2>2, <2>3 DEF Fated
<1>. QED BY <1>5, <1>6, <1>7 DEF t

LEMMA SoundOpening ==
  ASSUME Undisturbed, Known, WorkInv, Sound, session_run \/ session_pull_all
  PROVE  Sound'
<1>0. /\ Alive /\ call \in Calling /\ pc \in [Actors -> Labels] /\ "app" \in Actors
      /\ pc["app"] \in {"run", "pull"} /\ Phases
      /\ UNCHANGED <<toClient, server, streams, call>>
  BY WindowKnown DEF Known, Sound, RefInv, WindowInv, WindowTypes, Knows,
                     session_run, session_pull_all, At, wireVars
<1>1. /\ call.rs \in Streams /\ call.op = "run" /\ ~HasPull(request_queue, call.rs)
      /\ request_queue \in Seq(Requests) /\ Len(request_queue) \in Nat
  BY <1>0, WindowKnown DEF Phases, Opening, Known
<1>2. Fetching' /\ Freeing'
  BY <1>0, <1>1 DEF Fetching, Freeing
<1>3. CASE pc' = [pc EXCEPT !["app"] = "abandon"] /\ request_queue' = request_queue
  <2>1. pc'["app"] = "abandon"
    BY <1>0, <1>3
  <2>2. Blamed' /\ Behind(request_queue') /\ Fated(request_queue', streams', Failing')
    BY <1>0, <1>3, <2>1, SoundKept
  <2>. QED BY <1>2, <2>1, <2>2 DEF Sound, Alive, Prompt
<1>4. CASE session_run /\ Enqueue(Request("RUN", call.rs, call.tx), "run_unlock")
  <2>. DEFINE x == Request("RUN", call.rs, call.tx)
  <2>1. x \in Requests /\ x.type = "RUN" /\ x.of = call.rs
    BY <1>0, RequestsTyped DEF Calling, Request
  <2>2. pc["app"] = "run" /\ pc'["app"] = "run_unlock"
    BY <1>0, <1>4 DEF session_run, At, Enqueue, Goto
  <2>3. streams[call.rs].failure = "none"
    BY <2>2 DEF Sound, Prompt
  <2>4. CASE CanQueue
    <3>1. request_queue' = Append(request_queue, x)
      BY <1>4, <2>4 DEF Enqueue, Queue
    <3>2. "RUN" \notin Statements
      BY DEF Statements
    <3>. HIDE DEF x
    <3>3. Blamed' /\ Behind(request_queue') /\ Fated(request_queue', streams', Failing')
      BY <1>0, <1>1, <2>1, <2>2, <2>3, <3>1, <3>2, SoundAppend
    <3>4. RunLast'
      BY <1>0, <1>1, <2>1, <3>1 DEF RunLast
    <3>. QED BY <1>2, <2>2, <3>3, <3>4 DEF Sound, Alive, Prompt
  <2>5. CASE ~CanQueue
    <3>1. request_queue' = request_queue /\ ret'.rc = -1
      BY <1>4, <2>5 DEF Enqueue
    <3>2. Blamed' /\ Behind(request_queue') /\ Fated(request_queue', streams', Failing')
      BY <1>0, <2>2, <3>1, SoundKept
    <3>. QED BY <1>2, <2>2, <3>1, <3>2 DEF Sound, Alive, Prompt
  <2>. QED BY <2>4, <2>5
<1>5. CASE session_pull_all /\ Enqueue(Request(call.kind, call.rs, call.tx), "pull_unlock")
  <2>. DEFINE x == Request(call.kind, call.rs, call.tx)
  <2>1. x \in Requests /\ x.type \in Statements /\ x.of = call.rs
    BY <1>0, RequestsTyped DEF Calling, Request
  <2>2. pc["app"] = "pull" /\ pc'["app"] = "pull_unlock"
    BY <1>0, <1>5 DEF session_pull_all, At, Enqueue, Goto
  <2>3. RunLast
    BY <2>2 DEF Sound, Prompt
  <2>4. CASE CanQueue
    <3>1. request_queue' = Append(request_queue, x)
      BY <1>5, <2>4 DEF Enqueue, Queue
    <3>2. "RUN" \notin Statements
      BY DEF Statements
    <3>. HIDE DEF x
    <3>3. Blamed' /\ Behind(request_queue') /\ Fated(request_queue', streams', Failing')
      BY <1>0, <1>1, <2>1, <2>2, <2>3, <3>1, <3>2, SoundAppend DEF RunLast
    <3>. QED BY <1>2, <2>2, <3>3 DEF Sound, Alive, Prompt
  <2>5. CASE ~CanQueue
    <3>1. request_queue' = request_queue
      BY <1>5, <2>5 DEF Enqueue
    <3>2. Blamed' /\ Behind(request_queue') /\ Fated(request_queue', streams', Failing')
      BY <1>0, <2>2, <3>1, SoundKept
    <3>. QED BY <1>2, <2>2, <3>2 DEF Sound, Alive, Prompt
  <2>. QED BY <2>4, <2>5
<1>. QED BY <1>3, <1>4, <1>5 DEF session_run, session_pull_all, Goto

\* The rest of a call that runs a statement.
LEMMA SoundLeaving ==
  ASSUME Undisturbed, Known, WorkInv, Sound, session_unlock \/ run_start \/ abandon
  PROVE  Sound'
<1>0. /\ Alive /\ call \in Calling /\ pc \in [Actors -> Labels] /\ "app" \in Actors
      /\ pc["app"] \in Opening /\ Phases /\ Txs = {} /\ Recorded(streams)
      /\ UNCHANGED <<toClient, server, request_queue>>
  BY Prepared, WindowKnown
     DEF Known, Sound, RefInv, WindowInv, WindowTypes, Knows, Opening, Undisturbed,
         session_unlock, run_start, abandon, At, wireVars, unchangedByCall
<1>1. /\ call.rs \in Streams /\ call.op = "run" /\ streams[call.rs].open
      /\ streams[call.rs] \in StreamRecord
  BY <1>0 DEF Phases, Recorded
<1>2. /\ pc["app"] \in Opening /\ pc["app"] \notin {"reply", "unlock_ack", "alloc", "fill"}
  BY <1>0 DEF Opening
<1>3. ASSUME NEW t, t.failure = streams[call.rs].failure,
             streams' = [streams EXCEPT ![call.rs] = t], pc'["app"] # "reply"
      PROVE  Blamed' /\ Behind(request_queue') /\ Fated(request_queue', streams', Failing')
  <2>1. \A s \in Streams : streams'[s].failure = streams[s].failure
    BY <1>0, <1>3 DEF Recorded
  <2>. QED BY <1>0, <1>2, <1>3, <2>1, SoundKept
<1>4. CASE session_unlock
  <2>1. ret' = ret /\ call' = call
    BY <1>4 DEF session_unlock
  <2>2. Fetching' /\ Freeing'
    BY <1>1, <2>1 DEF Fetching, Freeing
  <2>3. CASE pc' = [pc EXCEPT !["app"] = "abandon"] /\ streams' = streams
    <3>1. pc'["app"] = "abandon"
      BY <1>0, <2>3
    <3>2. Blamed' /\ Behind(request_queue') /\ Fated(request_queue', streams', Failing')
      BY <1>0, <1>2, <2>3, <3>1, SoundKept
    <3>. QED BY <2>2, <3>1, <3>2 DEF Sound, Alive, Prompt
  <2>4. CASE /\ ~(ret.rc < 0) /\ streams' = [streams EXCEPT ![call.rs] = Referenced(@)]
             /\ pc' = [pc EXCEPT !["app"] = IF pc["app"] = "run_unlock" THEN "pull" ELSE "start"]
    <3>1. pc'["app"] = IF pc["app"] = "run_unlock" THEN "pull" ELSE "start"
      BY <1>0, <2>4
    <3>2. streams' = [streams EXCEPT ![call.rs] = Referenced(streams[call.rs])]
      BY <1>0, <1>1, <2>4
    <3>3. Referenced(streams[call.rs]).failure = streams[call.rs].failure
      BY <1>1, FailureFields
    <3>4. Blamed' /\ Behind(request_queue') /\ Fated(request_queue', streams', Failing')
      BY <1>3, <3>1, <3>2, <3>3
    <3>5. pc'["app"] = "pull" => RunLast'
      <4>. SUFFICES ASSUME pc["app"] = "run_unlock" PROVE RunLast
        BY <1>0, <2>1, <3>1 DEF RunLast
      <4>1. ret.rc = 0
        BY <1>0, <2>4 DEF Phases
      <4>. QED BY <4>1 DEF Sound, Prompt
    <3>. QED BY <2>2, <3>1, <3>4, <3>5 DEF Sound, Alive, Prompt
  <2>. QED BY <1>4, <2>3, <2>4 DEF session_unlock, Goto
<1>5. CASE run_start
  <2>1. call.tx = None
    BY <1>0 DEF Calling
  <2>2. pc' = [pc EXCEPT !["app"] = "idle"]
        /\ streams' = [streams EXCEPT ![call.rs] = Started(@)]
    BY <1>5, <2>1 DEF run_start, Goto
  <2>3. pc'["app"] = "idle" /\ Started(streams[call.rs]).failure = streams[call.rs].failure
    BY <1>0, <1>1, <2>2, FailureFields
  <2>4. streams' = [streams EXCEPT ![call.rs] = Started(streams[call.rs])]
    BY <1>0, <1>1, <2>2
  <2>5. Blamed' /\ Behind(request_queue') /\ Fated(request_queue', streams', Failing')
    BY <1>3, <2>3, <2>4
  <2>. QED BY <2>3, <2>5 DEF Sound, Alive, Prompt, Fetching, Freeing
<1>6. CASE abandon
  <2>. DEFINE r == streams[call.rs]
              t == [r EXCEPT !.streaming = FALSE, !.refcount = @ - 1]
  <2>1. /\ pc["app"] = "abandon"
        /\ streams' = [streams EXCEPT ![call.rs] = t]
        /\ call' = [call EXCEPT !.op = "abandon", !.cond = "refcount"]
        /\ pc' = [pc EXCEPT !["app"] = IF r.refcount > 1 THEN "enter" ELSE "free"]
    BY <1>0, <1>1, <1>6 DEF abandon, run_rs_close, Enter, Goto, At, Recorded, StreamRecord, Calling
  <2>2. t.failure = r.failure
    BY <1>1, FailureFields
  <2>3. call'.op = "abandon" /\ call'.cond = "refcount" /\ call'.rs = call.rs
    BY <1>0, <2>1 DEF Calling
  <2>4. pc'["app"] = IF r.refcount > 1 THEN "enter" ELSE "free"
    BY <1>0, <2>1
  <2>5. pc'["app"] = "free" =>
          ~HasRun(request_queue, call.rs) /\ ~HasPull(request_queue, call.rs)
    <3>1. ~Closing(call.rs) /\ ~Taking(call.rs)
      BY <1>1, <2>1 DEF Closing, Taking
    <3>. QED BY <1>0, <1>1, <2>4, <3>1, CloseFrees
  <2>6. Blamed' /\ Behind(request_queue') /\ Fated(request_queue', streams', Failing')
    <3>1. \A s \in Streams : streams'[s].failure = streams[s].failure
      BY <1>0, <2>1, <2>2 DEF Recorded
    <3>. QED BY <1>0, <1>2, <2>4, <3>1, SoundKept
  <2>. HIDE DEF r, t
  <2>7. Fetching'
    BY <2>3 DEF Fetching
  <2>8. Freeing'
    BY <1>0, <2>3, <2>4, <2>5 DEF Freeing, Returning
  <2>. QED BY <2>4, <2>6, <2>7, <2>8 DEF Sound, Alive, Prompt
<1>. QED BY <1>4, <1>5, <1>6

\* The end of the calls.  fetch_next and peek have the records they asserted.
LEMMA SoundReturn ==
  ASSUME Undisturbed, Known, WorkInv, Sound, free_results \/ return_to_stream
  PROVE  Sound'
<1>0. /\ Alive /\ call \in Calling /\ pc \in [Actors -> Labels] /\ "app" \in Actors
      /\ pc["app"] \in {"free", "done"} /\ Phases /\ Recorded(streams) /\ ~closed
      /\ UNCHANGED <<toClient, server, request_queue>>
      /\ call.rs \in Streams /\ streams[call.rs].open /\ streams[call.rs] \in StreamRecord
  <2>1. pc["app"] \in {"free", "done"} /\ UNCHANGED <<toClient, server, request_queue>>
    BY DEF free_results, return_to_stream, At, wireVars, unchangedByCall
  <2>2. /\ Alive /\ call \in Calling /\ pc \in [Actors -> Labels] /\ "app" \in Actors
        /\ Phases /\ Recorded(streams) /\ ~closed
    BY Prepared, WindowKnown
       DEF Known, Sound, RefInv, WindowInv, WindowTypes, Knows, WorkInv, Working
  <2>3. call.rs \in Streams /\ streams[call.rs].open
    BY <2>1 DEF WorkInv, Working
  <2>. QED BY <2>1, <2>2, <2>3 DEF Recorded
<1>1. CASE free_results
  <2>1. pc["app"] = "free" /\ Closing(call.rs)
    BY <1>0, <1>1 DEF free_results, At, Phases
  <2>2. ~HasRun(request_queue, call.rs) /\ ~HasPull(request_queue, call.rs)
    BY <2>1 DEF Sound, Freeing, Closing
  <2>3. streams[call.rs].refcount = 0
    <3>1. Balance(Pointers(request_queue, call.rs), streams[call.rs], Own[call.rs])
      BY <1>0 DEF Known, RefInv, Knows, Accounts, Balanced
    <3>2. Own[call.rs] = 0
      BY <1>0, <2>1 DEF Own, Taking, Bit
    <3>3. Pointers(request_queue, call.rs) = 0 /\ "BADRECORD" \notin Faults
      BY <2>2 DEF Pointers, Bit, Undisturbed, Signals
    <3>. QED BY <1>0, <3>1, <3>2, <3>3 DEF Balance
  <2>4. streams' = [streams EXCEPT ![call.rs] = NoStream] /\ pc' = [pc EXCEPT !["app"] = "idle"]
    BY <1>0, <1>1, <2>3 DEF free_results, Enter, Goto
  <2>5. pc'["app"] = "idle" /\ \A s \in Streams \ {call.rs} : streams'[s] = streams[s]
    BY <1>0, <2>4 DEF Recorded
  <2>6. Blamed' /\ Behind(request_queue') /\ Fated(request_queue', streams', Failing')
    BY <1>0, <2>1, <2>2, <2>5, SoundKept
  <2>. QED BY <2>5, <2>6 DEF Sound, Alive, Prompt, Fetching, Freeing
<1>2. CASE return_to_stream
  <2>. DEFINE s == streams[call.rs]
              lacking == \/ call.op = "fetch" /\ s.records = <<>>
                         \/ call.op = "peek" /\ Len(s.records) <= 1
  <2>1. pc["app"] = "done" /\ ret.rc = 0
    BY <1>2 DEF return_to_stream, At, WorkInv, Working
  <2>2. Awaited(s) = s
    BY <2>1 DEF Awaited
  <2>3. ~(lacking /\ s.streaming)
    <3>. SUFFICES ASSUME lacking, s.streaming PROVE FALSE
      OBVIOUS
    <3>1. call.op \in {"fetch", "peek"}
      OBVIOUS
    <3>2. Coming(s) >= Needed /\ s.awaiting_records = 0
      BY <2>1, <3>1 DEF Sound, Fetching, Returning
    <3>3. Len(s.records) \in Nat /\ (s.records = <<>> => Len(s.records) = 0)
      BY <1>0 DEF StreamRecord, Lists
    <3>. QED BY <3>1, <3>2, <3>3 DEF Coming, Needed
  <2>4. /\ streams' = [streams EXCEPT ![call.rs] =
                          IF call.op = "fetch" /\ ret.rc = 0 /\ ~lacking THEN Pop(s)
                          ELSE IF call.op = "run" /\ s.failure = "TIMED_OUT" THEN Lost(s) ELSE s]
        /\ IF call.op \in {"close_rs", "abandon"}
           THEN pc' = [pc EXCEPT !["app"] = "free"] /\ call' = call
           ELSE pc' = [pc EXCEPT !["app"] = "idle"]
    BY <1>2, <2>2, <2>3 DEF return_to_stream, Enter, Goto
  <2>5. Pop(s).failure = s.failure /\ Lost(s).failure = s.failure
    BY <1>0, FailureFields
  <2>6. \A x \in Streams : streams'[x].failure = streams[x].failure
    <3>. HIDE DEF lacking
    <3>1. \E t : t.failure = s.failure /\ streams' = [streams EXCEPT ![call.rs] = t]
      BY <2>4, <2>5
    <3>. QED BY <1>0, <3>1 DEF Recorded
  <2>7. pc'["app"] = IF call.op \in {"close_rs", "abandon"} THEN "free" ELSE "idle"
    BY <1>0, <2>4
  <2>8. Blamed' /\ Behind(request_queue') /\ Fated(request_queue', streams', Failing')
    BY <1>0, <2>1, <2>6, <2>7, SoundKept
  <2>9. Fetching' /\ Freeing'
    <3>1. CASE call.op \in {"close_rs", "abandon"}
      <4>1. call' = call
        BY <2>4, <3>1
      <4>. QED BY <1>0, <2>1, <3>1, <4>1 DEF Sound, Fetching, Freeing, Returning
    <3>2. CASE call.op \notin {"close_rs", "abandon"}
      BY <2>7, <3>2 DEF Fetching, Freeing
    <3>. QED BY <3>1, <3>2
  <2>. QED BY <2>7, <2>8, <2>9 DEF Sound, Alive, Prompt
<1>. QED BY <1>1, <1>2

LEMMA SoundRun ==
  ASSUME Undisturbed, Known, WorkInv, Sound, Run
  PROVE  Sound'
<1>1. ~return_to_tx
  BY NoneAssumption DEF return_to_tx, At, WorkInv, Working
<1>. QED BY <1>1, SoundOpening, SoundLeaving, SoundReturn DEF Run
-----------------------------------------------------------------------------
LEMMA SoundStep ==
  ASSUME Undisturbed, Known, WorkInv, AttendInv, Sound, Fresh, [Next]_vars
  PROVE  Sound'
<1>1. CASE Start \/ Sync \/ Run
  BY <1>1, SoundStart, SoundSync, SoundRun
<1>2. ~Close
  BY DEF Close, close_receive, close_receive_error, close_end, At, WorkInv, Working
<1>3. ~neo4j_reset
  <2>1. resets \in Nat
    BY SizeAssumption DEF Known, TypeInv, FlagsTyped
  <2>. QED BY <2>1 DEF neo4j_reset, Undisturbed, Known, TypeInv, FlagsTyped
<1>4. \A a \in Actors : ~ResetBy(a)
  BY DEF ResetBy, reset_receive, reset_reply, reset_error, Resetting, Actors, WorkInv, Working
<1>5. ~Drop
  BY DEF Drop, Undisturbed, Signals
<1>6. CASE ServerStep \/ ServerGoodbye \/ Terminated \/ UNCHANGED vars
  <2>1. UNCHANGED <<request_queue, streams, pc, call, ret, failure>>
    BY <1>6 DEF ServerStep, ServerGoodbye, Terminated, vars, ctlVars, connVars, wireVars
  <2>2. Alive' /\ Prompt' /\ Fetching' /\ Freeing'
    BY <2>1 DEF Sound, Alive, Prompt, Failing, RunLast, Fetching, Needed, Freeing
  <2>3. Blamed'
    <3>1. CASE ServerStep
      BY <3>1, BlamedServer
    <3>2. CASE ServerGoodbye
      <4>1. toClient' = toClient /\ ~Refusing'
        BY <3>2 DEF ServerGoodbye, Refusing
      <4>. QED BY <2>1, <4>1 DEF Sound, Blamed, Failing
    <3>3. CASE Terminated \/ UNCHANGED vars
      <4>1. UNCHANGED <<toClient, server>>
        BY <3>3 DEF Terminated, vars, wireVars
      <4>. QED BY <2>1, <4>1 DEF Sound, Blamed, Failing, Refusing, Acking
    <3>. QED BY <1>6, <3>1, <3>2, <3>3
  <2>. QED BY <2>2, <2>3 DEF Sound
<1>. QED BY <1>1, <1>2, <1>3, <1>4, <1>5, <1>6 DEF Next, Continue, Actors

LEMMA FreshRun ==
  ASSUME Undisturbed, Known, WorkInv, AttendInv, Sound, Fresh, Run
  PROVE  Fresh'
<1>0. /\ RefInv /\ Alive /\ FramedIn(streams) /\ Recorded(streams)
      /\ pc \in [Actors -> Labels] /\ "app" \in Actors
      /\ pc["app"] \in Opening => call.rs \in Streams /\ streams[call.rs] \in StreamRecord
  <2>1. RefInv /\ Alive /\ FramedIn(streams) /\ Recorded(streams)
        /\ pc \in [Actors -> Labels] /\ "app" \in Actors
    BY Prepared, WindowKnown DEF Known, Sound, AttendInv
  <2>2. pc["app"] \in Opening => call.rs \in Streams
    BY <2>1 DEF RefInv, Knows, Phases
  <2>. QED BY <2>1, <2>2 DEF Recorded
<1>1. CASE session_pull_all
  <2>1. pc["app"] = "pull" /\ UNCHANGED <<streams, call>>
    BY <1>1 DEF session_pull_all, At
  <2>2. RunLast /\ Fated(request_queue, streams, Failing)
    BY <2>1 DEF Sound, Prompt
  <2>3. HasRun(request_queue, call.rs)
    <3>1. request_queue \in Seq(Requests) /\ request_queue # <<>>
      BY <2>2, WindowKnown DEF Known, RunLast
    <3>2. Len(request_queue) \in DOMAIN request_queue
      BY <3>1, EmptySeq
    <3>. QED BY <2>2, <3>2 DEF RunLast, HasRun, Has
  <2>4. streams[call.rs].failure = "none"
    BY <1>0, <2>1, <2>2, <2>3 DEF Fated, Opening
  <2>. QED BY <2>1, <2>4 DEF Fresh
<1>2. CASE session_unlock
  <2>1. /\ pc["app"] \in {"run_unlock", "pull_unlock"} /\ call.rs \in Streams
        /\ streams[call.rs] \in StreamRecord /\ UNCHANGED <<call, ret>>
    BY <1>0, <1>2 DEF session_unlock, At, Opening
  <2>2. /\ pc'["app"] \in {"abandon", "pull", "start"}
        /\ pc'["app"] = "start" => pc["app"] = "pull_unlock" /\ ~(ret.rc < 0)
    BY <1>0, <1>2, <2>1 DEF session_unlock, Goto
  <2>3. \A s \in Streams : /\ streams'[s].failure = streams[s].failure
                          /\ streams'[s].streaming = streams[s].streaming
    <3>1. /\ Referenced(streams[call.rs]).failure = streams[call.rs].failure
          /\ Referenced(streams[call.rs]).streaming = streams[call.rs].streaming
      BY <2>1 DEF Referenced, StreamRecord
    <3>2. CASE streams' = streams
      BY <3>2
    <3>3. CASE streams' = [streams EXCEPT ![call.rs] = Referenced(streams[call.rs])]
      BY <1>0, <3>1, <3>3 DEF Recorded
    <3>. QED BY <1>2, <3>2, <3>3 DEF session_unlock
  <2>4. pc["app"] = "pull_unlock" => ret.rc \in {-1, 0}
    BY <1>0 DEF RefInv, Knows, Phases
  <2>. QED BY <2>1, <2>2, <2>3, <2>4 DEF Fresh
<1>3. CASE run_start
  <2>1. pc["app"] = "start" /\ call.rs \in Streams /\ streams[call.rs] \in StreamRecord
    BY <1>0, <1>3 DEF run_start, At, Opening
  <2>2. pc'["app"] \in {"idle", "enter"}
    BY <1>0, <1>3 DEF run_start, Goto
  <2>3. streams' = [streams EXCEPT ![call.rs] = Started(streams[call.rs])]
    BY <1>3 DEF run_start
  <2>4. Started(streams[call.rs]).failure = "none"
    BY <2>1, FailureFields DEF Fresh
  <2>. QED BY <1>0, <2>2, <2>3, <2>4 DEF Fresh, Recorded
<1>4. CASE free_results
  <2>1. pc'["app"] \in {"idle", "crashed"}
    BY <1>0, <1>4 DEF free_results, Enter, Goto, Crash
  <2>2. CASE streams' = streams
    BY <2>1, <2>2 DEF Fresh
  <2>3. CASE streams' = [streams EXCEPT ![call.rs] = NoStream]
    <3>1. NoStream.streaming = FALSE
      BY DEF NoStream
    <3>. QED BY <1>0, <2>1, <2>3, <3>1 DEF Fresh, Recorded
  <2>. QED BY <1>4, <2>2, <2>3 DEF free_results
<1>5. CASE session_run \/ abandon \/ return_to_stream \/ return_to_tx
  <2>1. pc'["app"] \notin {"start", "pull_unlock"}
    BY <1>0, <1>5 DEF session_run, abandon, return_to_stream, return_to_tx, run_rs_close,
                      Enqueue, Enter, Goto, Crash
  <2>2. ~run_start /\ ~free_results
    BY <1>5 DEF session_run, abandon, return_to_stream, return_to_tx, run_start,
                free_results, At
  <2>3. AllFade(streams, streams')
    BY <1>0, <2>2, GentleRun DEF Gentle, Tends
  <2>. QED BY <2>1, <2>3 DEF Fresh, AllFade, Fades
<1>. QED BY <1>1, <1>2, <1>3, <1>4, <1>5 DEF Run

LEMMA FreshStep ==
  ASSUME Undisturbed, Known, WorkInv, AttendInv, Sound, Fresh, [Next]_vars
  PROVE  Fresh'
<1>0. /\ RefInv /\ Alive /\ FramedIn(streams) /\ Recorded(streams)
      /\ pc \in [Actors -> Labels] /\ "app" \in Actors /\ "sig" \in Actors
  BY Prepared, WindowKnown DEF Known, Sound, AttendInv, RefInv, WindowInv, LockInv, Actors
<1>1. CASE Start
  <2>1. pc'["app"] \notin {"start", "pull_unlock"}
    BY <1>0, <1>1 DEF Start, run_open, close_results, check_failure, consume, fetch_next, peek,
               AwaitRecords, begin_tx, tx_commit, tx_rollback, free_tx, close_start, Calls, At,
               Enter, Goto, run_rs_close, unchangedByCall, Crash
  <2>2. ASSUME NEW s \in Streams, NEW kind \in Statements, NEW t \in Txs \cup {None},
               run_open(s, kind, t)
        PROVE  Fresh'
    <3>1. run_rs_open.streaming = FALSE
      BY DEF run_rs_open, NoStream
    <3>2. streams' = streams \/ streams' = [streams EXCEPT ![s] = run_rs_open]
      BY <2>2 DEF run_open
    <3>. QED BY <1>0, <2>1, <3>1, <3>2 DEF Fresh, Recorded
  <2>3. CASE \A s \in Streams, kind \in Statements, t \in Txs \cup {None} : ~run_open(s, kind, t)
    <3>1. AllFade(streams, streams')
      BY <1>0, <1>1, <2>3, GentleStart DEF Gentle, Tends
    <3>. QED BY <2>1, <3>1 DEF Fresh, AllFade, Fades
  <2>. QED BY <2>2, <2>3
<1>2. CASE Sync
  <2>1. pc'["app"] \notin Opening
    BY <1>0, <1>2
       DEF Sync, sync_enter, sync_lock, sync_loop, sync_receive, sync_receive_error,
           send_requests, send_request, sync_exit, sync_unlock, sync_unlock_ack,
           new_request, populate, Return, FailSync, Goto, ResetFrom, Crash, Opening
  <2>2. AllFade(streams, streams')
    BY <1>0, <1>2, GentleSync DEF Gentle, Tends
  <2>. QED BY <2>1, <2>2 DEF Fresh, AllFade, Fades, Opening
<1>3. CASE Run
  BY <1>3, FreshRun
<1>4. ~Close /\ ~Drop
  BY DEF Close, close_receive, close_receive_error, close_end, At, WorkInv, Working, Drop,
         Undisturbed, Signals
<1>5. ~neo4j_reset
  <2>1. resets \in Nat
    BY SizeAssumption DEF Known, TypeInv, FlagsTyped
  <2>. QED BY <2>1 DEF neo4j_reset, Undisturbed, Known, TypeInv, FlagsTyped
<1>6. \A a \in Actors : ~ResetBy(a)
  BY DEF ResetBy, reset_receive, reset_reply, reset_error, Resetting, Actors, WorkInv, Working
<1>7. CASE ServerStep \/ ServerGoodbye \/ Terminated \/ UNCHANGED vars
  BY <1>7 DEF ServerStep, ServerGoodbye, Terminated, vars, ctlVars, connVars, Fresh
<1>. QED BY <1>1, <1>2, <1>3, <1>4, <1>5, <1>6, <1>7 DEF Next, Continue, Actors

LEMMA FreshInit == Init => Fresh
  BY DEF Init, Fresh, NoStream, Actors

LEMMA SoundInit == Init => Sound
<1>. SUFFICES ASSUME Init PROVE Sound
  OBVIOUS
<1>1. /\ streams = [s \in Streams |-> NoStream] /\ request_queue = <<>> /\ toClient = <<>>
      /\ pc = [a \in Actors |-> "idle"] /\ server.mode = "READY"
  BY DEF Init
<1>2. pc["app"] = "idle"
  BY <1>1 DEF Actors
<1>3. Blamed
  BY <1>1, <1>2 DEF Blamed, Excused, Refusing
<1>4. Prompt
  BY <1>1, <1>2 DEF Prompt, Behind, Fated, HasRun, Has
<1>. QED BY <1>2, <1>3, <1>4 DEF Sound, Alive, Fetching, Freeing

(* No assertion of the client fails and no NULL pointer is dereferenced,    *)
(* whatever the server answers within the protocol and however many streams *)
(* the program pipelines, closes early or abandons: the assertions of       *)
(* neo4j_fetch_next and neo4j_peek, those of the callbacks that a stream    *)
(* has not failed yet, the one that a stream is freed with no reference,    *)
(* and the code IGNORED is looked up with.  Proved of a connection that is  *)
(* not closed and not reset and that has no transaction; with those the     *)
(* client does crash.                                                       *)
THEOREM SoundTheorem ==
  ASSUME Undisturbed
  PROVE  Spec => []NotCrashed
<1>0. Signals
  BY DEF Undisturbed
<1>1. Init => Serving
  BY DEF Init, Serving
<1>2. RefInv /\ WireInv /\ [Next]_vars => WireInv'
  BY <1>0, WireKept
<1>3. RefInv /\ WireInv /\ Serving /\ [Next]_vars => Serving'
  BY <1>0, ServingKept
<1>4. RefInv /\ WireInv /\ Serving /\ StreamInv /\ [Next]_vars => StreamInv'
  BY <1>0, StreamKept
<1>5. RefInv /\ WireInv /\ Serving /\ StreamInv /\ TypeInv /\ [Next]_vars => TypeInv'
  BY <1>0, TypeKept
<1>6. RefInv /\ WireInv /\ Serving /\ StreamInv /\ TypeInv /\ WorkInv /\ [Next]_vars => WorkInv'
  BY WorkStep DEF Known
<1>7. RefInv /\ WireInv /\ Serving /\ StreamInv /\ TypeInv /\ WorkInv /\ AttendInv /\ Sound
        /\ Fresh /\ [Next]_vars => Sound' /\ Fresh'
  BY SoundStep, FreshStep DEF Known
<1>8. Sound => NotCrashed
  BY DEF Sound, Alive, NotCrashed
<1>. QED BY <1>1, <1>2, <1>3, <1>4, <1>5, <1>6, <1>7, <1>8, WireInit, StreamInit, TypeInit,
            WorkInit, SoundInit, FreshInit, RefInvariant, AttendInvariant, PTL DEF Spec
=============================================================================
