---------------------------- MODULE ConnectProofs ----------------------------
(* What a call of neo4j_connect holds at each point, whom a descriptor         *)
(* belongs to, what was found out about the certificate and what the file of   *)
(* known hosts is made of: the inductive invariant of Connect, and the three   *)
(* properties its run checks.                                                  *)
EXTENDS Connect, SequenceLemmas

TlsSteps == {"handshake", "look up", "decide", "read file", "rename", "tls"}
Steps ==
  TlsSteps \cup
  {"idle", "uri", "establish", "socket", "connecting", "stream", "buffer", "negotiate",
   "initialize", "leaving", "connected", "closing", "closing both", "close again",
   "failing", "returned"}

CallRecords ==
  [pc : Steps, plan : Plans \cup {NoPlan}, held : SUBSET Parts,
   fd : Descriptors \cup {NoDescriptor}, cert : Certs \cup {NoCert},
   stored : Fingerprints, answer : Answers \cup {None}, temp : Seq(Lines)]

TypeOK ==
  /\ file \in Seq(Lines)
  /\ fds \in [Descriptors -> Clients \cup {Leaked, None}]
  /\ call \in [Clients -> CallRecords]
  /\ \A c \in Clients : call[c].pc # "idle" => Plan(c) \in Plans
-----------------------------------------------------------------------------
(* What is held.                                                            *)
Made == {"config", "uri", "connection", "buffers"}
TlsOf(plan) == IF plan.secure THEN {"tls"} ELSE {}
BufferingOf(plan) == IF plan.buffered THEN {"buffering"} ELSE {}
AllOf(plan) == Made \cup {"posix"} \cup TlsOf(plan) \cup BufferingOf(plan)
But(held, parts) == held \ {"password"} = parts

\* A call holds what the steps so far have made; the password goes before the
\* connection is returned.
HeldFor(pc, plan, held) ==
  /\ pc \in {"idle", "returned"} => held = {}
  /\ pc = "uri" => But(held, {"config"})
  /\ pc = "establish" => But(held, {"config", "uri"})
  /\ pc \in {"socket", "connecting", "stream"} => But(held, Made)
  /\ pc \in TlsSteps => But(held, Made \cup {"posix"}) /\ plan.secure
  /\ pc = "buffer" => But(held, Made \cup {"posix"} \cup TlsOf(plan))
  /\ pc \in {"negotiate", "initialize"} => But(held, AllOf(plan))
  /\ pc = "leaving" => held = AllOf(plan)
  /\ pc = "connected" => held = AllOf(plan) \ {"uri"}
  /\ pc = "closing" => "posix" \in held
  /\ pc \in {"close again", "failing"} => held \cap Streams = {}
HeldAt(c) == HeldFor(call[c].pc, call[c].plan, call[c].held)

\* A descriptor that is a thread's is the one its call has, and the call is at
\* a step that still closes it.
OwnsNothing == {"idle", "uri", "establish", "socket", "failing", "returned"}
Owned ==
  \A d \in Descriptors, c \in Clients :
    fds[d] = c => call[c].fd = d /\ call[c].pc \notin OwnsNothing

HeldOK == Owned /\ \A c \in Clients : HeldAt(c)
-----------------------------------------------------------------------------
(* What was found out about the certificate.                                *)
Verified(c) == call[c].cert.status = "ok" /\ call[c].cert.names = "match"
LeftToUser(c) ==
  Plan(c).trustKnown /\ call[c].cert.status \in UnknownIssuer \cup {"ok"}
Admitted(c) ==
  \/ call[c].stored = call[c].cert.print
  \/ Truncated(call[c].stored, call[c].cert.print)
  \/ Plan(c).asks /\ call[c].answer \in {"trust", "accept once"}
Trusted(c) == Verified(c) \/ (LeftToUser(c) /\ Admitted(c))

AfterTls == {"buffer", "negotiate", "initialize", "leaving", "connected"}
TrustedAt(c) ==
  /\ call[c].pc \in {"look up", "decide"} => LeftToUser(c)
  /\ call[c].pc \in {"read file", "rename", "tls"} => Trusted(c)
  /\ call[c].pc \in AfterTls /\ Plan(c).secure => Trusted(c)
TrustedOK == \A c \in Clients : TrustedAt(c)
-----------------------------------------------------------------------------
(* The file of known hosts.                                                 *)
KnownPair(pair) == \E k \in known : k.pair = pair

\* Every line is known, and every host of the first file has a line.
Kept(lines, pairs) ==
  /\ \A line \in Elements(lines) : \E k \in pairs : k.pair = <<line.host, line.print>>
  /\ \A k \in pairs :
       k.at = "start" => \E line \in Elements(lines) : line.host = k.pair[1]

\* A thread that is going to write the file has a pair that is known, then a file
\* that is as good as the one it was made of.
FileAt(c) ==
  /\ At(c, "read file") => KnownPair(<<Plan(c).host, call[c].cert.print>>)
  /\ At(c, "rename") => Kept(call[c].temp, known)
FileOK == Kept(file, known) /\ \A c \in Clients : FileAt(c)
-----------------------------------------------------------------------------
(* What the steps do, pointwise.                                            *)

\* The other calls stay as they are; the findings of a call are its
\* certificate, what was on record and the answer of the user.
OnlyOf(c) == \A x \in Clients \ {c} : call'[x] = call[x]
KeepsPlan(c) == call'[c].plan = call[c].plan
KeepsFindings(c) ==
  /\ KeepsPlan(c) /\ call'[c].cert = call[c].cert
  /\ call'[c].stored = call[c].stored /\ call'[c].answer = call[c].answer

LEMMA GoesEffect ==
  ASSUME TypeOK, NEW c \in Clients, NEW pc \in Steps, NEW parts \in SUBSET Parts,
         Goes(c, pc, parts)
  PROVE  /\ call' \in [Clients -> CallRecords] /\ OnlyOf(c) /\ KeepsFindings(c)
         /\ call'[c].pc = pc /\ call'[c].held = call[c].held \cup parts
         /\ call'[c].fd = call[c].fd /\ call'[c].temp = call[c].temp
<1>1. call \in [Clients -> CallRecords]
  BY DEF TypeOK
<1>. QED
  BY <1>1 DEF CallRecords, Goes, OnlyOf, KeepsPlan, KeepsFindings

LEMMA UpdatedElements ==
  ASSUME NEW lines \in Seq(Lines), NEW host \in Hosts, NEW print \in Fingerprints
  PROVE  /\ Updated(lines, host, print) \in Seq(Lines)
         /\ Elements(Updated(lines, host, print)) =
              {line \in Elements(lines) : line.host # host \/ line.indented}
                \cup {Line(host, print, FALSE)}
<1>. DEFINE others == {line \in Elements(lines) : line.host # host \/ line.indented}
            new == Line(host, print, FALSE)
<1>1. new \in Lines
  BY DEF Line, Lines
<1>2. /\ Filter(lines, others) \in Seq(Lines)
      /\ Elements(Filter(lines, others)) = Elements(lines) \cap others
  BY FilterElements
<1>3. Updated(lines, host, print) = Append(Filter(lines, others), new)
  BY DEF Updated, Elements
<1>4. Elements(lines) \cap others = others
  OBVIOUS
<1>. HIDE DEF others, new
<1>5. /\ Append(Filter(lines, others), new) \in Seq(Lines)
      /\ Elements(Append(Filter(lines, others), new)) =
           Elements(Filter(lines, others)) \cup {new}
  BY <1>1, <1>2, ElementsAppend
<1>. QED BY <1>2, <1>3, <1>4, <1>5 DEF others, new

\* What is on record of a host is what one of its lines says.
LEMMA StoredInLine ==
  ASSUME NEW lines \in Seq(Lines), NEW host, LinesOf(lines, host) # {}
  PROVE  \E i \in LinesOf(lines, host) : Stored(lines, host) = lines[i].print
<1>. DEFINE I == LinesOf(lines, host)
<1>1. I \in SUBSET Nat
  BY DEF LinesOf
<1>2. \E i \in I : \A j \in I : i <= j
  BY <1>1, LeastOfSet
<1>. DEFINE first == CHOOSE i \in I : \A j \in I : i <= j
<1>3. first \in I
  BY <1>2
<1>4. Stored(lines, host) = lines[first].print
  BY DEF Stored
<1>. QED BY <1>3, <1>4

LEMMA NoFingerprintType == NoFingerprint \in Fingerprints
BY DEF NoFingerprint, Fingerprint, Fingerprints

LEMMA StoredType ==
  ASSUME NEW lines \in Seq(Lines), NEW host
  PROVE  Stored(lines, host) \in Fingerprints
<1>1. CASE LinesOf(lines, host) = {}
  BY <1>1, NoFingerprintType DEF Stored
<1>2. CASE LinesOf(lines, host) # {}
  <2>1. PICK i \in LinesOf(lines, host) : Stored(lines, host) = lines[i].print
    BY <1>2, StoredInLine
  <2>2. lines[i] \in Lines
    BY DEF LinesOf
  <2>. QED BY <2>1, <2>2 DEF Lines
<1>. QED BY <1>1, <1>2

\* socket takes a descriptor that is free.
LEMMA LowestFree ==
  ASSUME FreeDescriptors # {}
  PROVE  \E d \in FreeDescriptors :
           d = CHOOSE x \in FreeDescriptors : \A y \in FreeDescriptors : x <= y
<1>1. FreeDescriptors \in SUBSET Nat
  BY ConnectAssumption DEF FreeDescriptors
<1>2. \E d \in FreeDescriptors : \A y \in FreeDescriptors : d <= y
  BY <1>1, LeastOfSet
<1>. QED BY <1>2
-----------------------------------------------------------------------------
LEMMA IdleType == Idle \in CallRecords
BY DEF Idle, CallRecords, Steps, Fingerprints, NoFingerprint, Fingerprint

LEMMA PlanTypes ==
  ASSUME TypeOK, NEW c \in Clients, call[c].pc # "idle"
  PROVE  Plan(c) \in Plans /\ Plan(c).host \in Hosts /\ call[c].cert.print \in Fingerprints
<1>1. Plan(c) \in Plans /\ call[c] \in CallRecords
  BY DEF TypeOK
<1>2. Plan(c).host \in Hosts
  BY <1>1, ConnectAssumption
<1>3. call[c].cert \in Certs \cup {NoCert}
  BY <1>1 DEF CallRecords
<1>4. call[c].cert.print \in Fingerprints
  <2>1. CASE call[c].cert \in Certs
    BY <2>1, ConnectAssumption
  <2>2. CASE call[c].cert = NoCert
    BY <2>2, NoFingerprintType DEF NoCert
  <2>. QED BY <1>3, <2>1, <2>2
<1>. QED BY <1>1, <1>2, <1>4

LEMMA InitType == Init => TypeOK
<1>. SUFFICES ASSUME Init PROVE TypeOK
  OBVIOUS
<1>1. file \in Seq(Lines)
  BY ConnectAssumption DEF Init
<1>2. \A c \in Clients : call[c] = Idle /\ call[c].pc = "idle"
  BY DEF Init, Idle
<1>. QED BY <1>1, <1>2, IdleType DEF Init, TypeOK

\* A step of a thread changes its call only, to one of the right type.
CallMoves(c) ==
  /\ call' \in [Clients -> CallRecords] /\ OnlyOf(c)
  /\ call'[c].plan \in Plans \/ call'[c].pc = "idle"

LEMMA StepOfCall ==
  ASSUME TypeOK, NEW c \in Clients, Step(c)
  PROVE  CallMoves(c)
<1>. USE DEF At, Plan
<1>0. /\ call \in [Clients -> CallRecords] /\ file \in Seq(Lines)
      /\ call[c].pc # "idle" => call[c].plan \in Plans
  BY DEF TypeOK
<1>g. ASSUME NEW pc \in Steps, NEW parts \in SUBSET Parts, Goes(c, pc, parts),
             call[c].pc # "idle"
      PROVE  CallMoves(c)
  BY <1>g, GoesEffect DEF CallMoves, TypeOK, KeepsFindings, KeepsPlan
<1>u. ASSUME call' = call
      PROVE  CallMoves(c)
  BY <1>u, <1>0 DEF CallMoves, OnlyOf
<1>r. ASSUME NEW record \in CallRecords, call' = [call EXCEPT ![c] = record],
             record.plan \in Plans \/ record.pc = "idle"
      PROVE  CallMoves(c)
  BY <1>r, <1>0 DEF CallMoves, OnlyOf
<1>s. /\ {"socket", "connecting", "stream", "decide", "rename", "tls"} \subseteq Steps
      /\ {"connected", "closing both", "failing", "returned"} \subseteq Steps
      /\ {} \in SUBSET Parts
  BY DEF Steps, TlsSteps
<1>f. ASSUME FailsInSetup(c), call[c].pc # "idle" PROVE CallMoves(c)
  BY <1>g, <1>f, <1>s DEF FailsInSetup
<1>. USE DEF FailsAtOnce, FailsOpen
<1>1. ASSUME NEW list \in Lists, SetSupportedVersions(c, list) PROVE call' = call
  BY <1>1 DEF SetSupportedVersions
<1>2. ASSUME NEW plan \in Plans, Begin(c, plan)
      PROVE  \E record \in CallRecords :
               call' = [call EXCEPT ![c] = record] /\ record.plan \in Plans
  <2>. DEFINE held == {"config"} \cup IF plan.credentials THEN {"password"} ELSE {}
              record == [Idle EXCEPT !.pc = "uri", !.plan = plan, !.held = held]
  <2>1. held \in SUBSET Parts
    BY DEF Parts
  <2>. HIDE DEF held
  <2>2. record \in CallRecords /\ record.plan = plan
    BY <2>1, IdleType DEF CallRecords, Steps
  <2>3. call' = [call EXCEPT ![c] = record]
    BY <1>2 DEF Begin, held
  <2>. QED BY <2>2, <2>3
<1>3. CASE BeginFails(c)
  BY <1>u, <1>3 DEF BeginFails
<1>4. CASE ParseUri(c)
  BY <1>g, <1>4 DEF ParseUri, Steps, Parts
<1>5. CASE Establish(c)
  BY <1>g, <1>5 DEF Establish, Steps, Parts
<1>6. CASE OpenSocket(c)
  <2>1. PICK d \in FreeDescriptors :
          call' = [call EXCEPT ![c].pc = "connecting", ![c].fd = d]
    BY <1>6, LowestFree DEF OpenSocket
  <2>2. d \in Descriptors /\ call[c].pc # "idle"
    BY <1>6 DEF OpenSocket, FreeDescriptors
  <2>. QED BY <1>0, <1>s, <2>1, <2>2 DEF CallMoves, CallRecords, OnlyOf
<1>7. CASE NoAddress(c)
  BY <1>g, <1>7 DEF NoAddress, Steps, Parts
<1>8. CASE ConnectSocket(c)
  <2>1. call[c].pc # "idle"
    BY <1>8 DEF ConnectSocket
  <2>2. CASE Goes(c, "stream", {})
    BY <1>g, <1>s, <2>1, <2>2
  <2>3. CASE call' = [call EXCEPT ![c].pc = "socket", ![c].fd = NoDescriptor]
    BY <1>0, <1>s, <2>1, <2>3 DEF CallMoves, CallRecords, OnlyOf
  <2>. QED BY <1>8, <2>2, <2>3 DEF ConnectSocket
<1>9. CASE ConnectBreaks(c)
  <2>1. /\ call' = [call EXCEPT ![c].pc = "failing", ![c].fd = NoDescriptor]
        /\ call[c].pc # "idle" /\ "failing" \in Steps
    BY <1>9 DEF ConnectBreaks, Steps
  <2>. QED BY <1>0, <2>1 DEF CallMoves, CallRecords, OnlyOf
<1>10. CASE OpenStream(c)
  BY <1>g, <1>f, <1>s, <1>10 DEF OpenStream, Steps, TlsSteps, Parts
<1>11. CASE Handshake(c)
  <2>1. call[c].pc # "idle"
    BY <1>11 DEF Handshake
  <2>2. CASE FailsInSetup(c)
    BY <1>f, <2>1, <2>2
  <2>3. CASE ~FailsInSetup(c)
    <3>1. PICK cert \in Certs :
            call' = [call EXCEPT ![c].cert = cert,
                      ![c].pc = CASE Verdict(cert, Plan(c).trustKnown) = "verified" -> "tls"
                                  [] Verdict(cert, Plan(c).trustKnown) = "look up" -> "look up"
                                  [] OTHER -> "closing both"]
      BY <1>11, <2>3 DEF Handshake
    <3>2. PICK pc \in Steps : call' = [call EXCEPT ![c].cert = cert, ![c].pc = pc]
      BY <3>1 DEF Steps, TlsSteps
    <3>. QED BY <1>0, <2>1, <3>2 DEF CallMoves, CallRecords, OnlyOf
  <2>. QED BY <2>2, <2>3
<1>12. CASE LookUp(c)
  <2>1. call[c].pc # "idle"
    BY <1>12 DEF LookUp
  <2>2. CASE FailsInSetup(c)
    BY <1>f, <2>1, <2>2
  <2>3. CASE ~FailsInSetup(c)
    <3>1. PICK stored \in {Stored(file, Plan(c).host), NoFingerprint} :
            call' = [call EXCEPT ![c].pc = "decide", ![c].stored = stored]
      BY <1>12, <2>3 DEF LookUp
    <3>2. stored \in Fingerprints
      BY <1>0, <3>1, StoredType, NoFingerprintType
    <3>. QED BY <1>0, <1>s, <2>1, <3>1, <3>2 DEF CallMoves, CallRecords, OnlyOf
  <2>. QED BY <2>2, <2>3
<1>13. ASSUME NEW answer \in Answers, DecideHost(c, answer)
       PROVE  CallMoves(c)
  <2>1. call[c].pc # "idle"
    BY <1>13 DEF DecideHost
  <2>. DEFINE next == Decide(call[c].stored, call[c].cert.print, Plan(c).asks, answer)
              pc == CASE next = "accept" -> "tls" [] next = "update" -> "read file"
                      [] OTHER -> "closing both"
  <2>2. call' = [call EXCEPT ![c].answer = answer, ![c].pc = pc]
    BY <1>13 DEF DecideHost
  <2>3. pc \in Steps
    BY DEF Steps, TlsSteps
  <2>. HIDE DEF pc
  <2>. QED BY <1>0, <2>1, <2>2, <2>3 DEF CallMoves, CallRecords, OnlyOf
<1>14. CASE ReadFile(c)
  <2>1. call[c].pc # "idle"
    BY <1>14 DEF ReadFile
  <2>2. CASE FailsInSetup(c)
    BY <1>f, <2>1, <2>2
  <2>3. CASE ~FailsInSetup(c)
    <3>. DEFINE lines == Updated(file, Plan(c).host, call[c].cert.print)
    <3>1. call' = [call EXCEPT ![c].pc = "rename", ![c].temp = lines]
      BY <1>14, <2>3 DEF ReadFile
    <3>2. lines \in Seq(Lines)
      BY <1>0, <2>1, PlanTypes, UpdatedElements
    <3>. HIDE DEF lines
    <3>. QED BY <1>0, <1>s, <2>1, <3>1, <3>2 DEF CallMoves, CallRecords, OnlyOf
  <2>. QED BY <2>2, <2>3
<1>15. CASE RenameFile(c)
  BY <1>g, <1>f, <1>s, <1>15 DEF RenameFile
<1>16. CASE OpenTls(c)
  BY <1>g, <1>f, <1>s, <1>16 DEF OpenTls, Steps, Parts
<1>17. CASE OpenBuffering(c)
  BY <1>g, <1>f, <1>s, <1>17 DEF OpenBuffering, Steps, Parts
<1>18. CASE Negotiate(c)
  <2>1. call[c].pc # "idle" /\ \E pc \in Steps : Goes(c, pc, {})
    BY <1>18 DEF Negotiate, Steps
  <2>. QED BY <1>g, <2>1
<1>19. CASE Declined(c)
  BY <1>g, <1>19 DEF Declined, Steps, Parts
<1>20. ASSUME NEW accepted \in BOOLEAN, Initialize(c, accepted)
       PROVE  CallMoves(c)
  <2>. DEFINE pc == IF accepted THEN "leaving" ELSE "closing"
  <2>1. /\ call' = [call EXCEPT ![c].pc = pc, ![c].held = @ \ {"password"}]
        /\ call[c].pc # "idle" /\ pc \in Steps
    BY <1>20 DEF Initialize, Steps
  <2>. HIDE DEF pc
  <2>. QED BY <1>0, <2>1 DEF CallMoves, CallRecords, OnlyOf
<1>21. CASE Return(c)
  <2>1. /\ call' = [call EXCEPT ![c].pc = "connected", ![c].held = @ \ {"uri"}]
        /\ call[c].pc # "idle"
    BY <1>21 DEF Return
  <2>. QED BY <1>0, <1>s, <2>1 DEF CallMoves, CallRecords, OnlyOf
<1>22. CASE CloseStream(c)
  <2>. DEFINE pc == IF call[c].pc = "closing" THEN "failing" ELSE "close again"
  <2>1. /\ call' = [call EXCEPT ![c].held = @ \ Streams, ![c].pc = pc]
        /\ call[c].pc # "idle" /\ pc \in Steps
    BY <1>22 DEF CloseStream, StreamsClosed, Steps
  <2>. HIDE DEF pc
  <2>. QED BY <1>0, <2>1 DEF CallMoves, CallRecords, OnlyOf
<1>23. CASE CloseAgain(c)
  BY <1>g, <1>23 DEF CloseAgain, Steps, Parts
<1>n. ASSUME NEW held \in SUBSET Parts, call[c].pc # "idle",
             call' = [call EXCEPT ![c].pc = "returned", ![c].fd = NoDescriptor,
                                  ![c].held = held]
      PROVE  CallMoves(c)
  <2>. DEFINE f == [call EXCEPT ![c].pc = "returned", ![c].fd = NoDescriptor]
  <2>1. /\ f \in [Clients -> CallRecords] /\ f[c].plan = call[c].plan
        /\ \A x \in Clients \ {c} : f[x] = call[x]
    BY <1>0, <1>s DEF CallRecords
  <2>2. call' = [f EXCEPT ![c].held = held]
    BY <1>n
  <2>. HIDE DEF f
  <2>3. call' \in [Clients -> CallRecords] /\ call'[c].plan = f[c].plan
    BY <2>1, <2>2 DEF CallRecords
  <2>4. \A x \in Clients \ {c} : call'[x] = f[x]
    BY <2>1, <2>2
  <2>. QED BY <1>0, <1>n, <2>1, <2>3, <2>4 DEF CallMoves, OnlyOf
<1>24. CASE ReturnNull(c)
  <2>. DEFINE held ==
         call[c].held \ {"connection", "buffers", "uri", "config", "password"}
  <2>1. /\ call' = [call EXCEPT ![c].pc = "returned", ![c].fd = NoDescriptor,
                               ![c].held = held]
        /\ call[c].pc # "idle"
    BY <1>24 DEF ReturnNull
  <2>2. held \in SUBSET Parts
    BY <1>0 DEF CallRecords
  <2>. HIDE DEF held
  <2>. QED BY <1>n, <2>1, <2>2
<1>25. CASE Close(c)
  BY <1>n, <1>s, <1>25 DEF Close
<1>26. CASE Again(c)
  <2>1. call' = [call EXCEPT ![c] = Idle] /\ Idle.pc = "idle"
    BY <1>26 DEF Again, Idle
  <2>. QED BY <2>1, <1>r, IdleType
<1>. QED
  BY <1>u, <1>r, <1>1, <1>2, <1>3, <1>4, <1>5, <1>6, <1>7, <1>8, <1>9, <1>10, <1>11, <1>12,
     <1>13, <1>14, <1>15, <1>16, <1>17, <1>18, <1>19, <1>20, <1>21, <1>22, <1>23, <1>24,
     <1>25, <1>26
     DEF Step

LEMMA StepType ==
  ASSUME TypeOK, NEW c \in Clients, Step(c)
  PROVE  TypeOK'
<1>1. CallMoves(c)
  BY StepOfCall
<1>2. file' \in Seq(Lines)
  <2>1. file \in Seq(Lines) /\ call[c].temp \in Seq(Lines)
    BY DEF TypeOK, CallRecords
  <2>2. file' = file \/ file' = call[c].temp
    BY DEF Step, SetSupportedVersions, Begin, BeginFails, ParseUri, Establish, OpenSocket,
           NoAddress, ConnectSocket, ConnectBreaks, OpenStream, Handshake, LookUp,
           DecideHost, ReadFile, RenameFile, OpenTls, OpenBuffering, Negotiate, Declined,
           Initialize, Return, CloseStream, CloseAgain, ReturnNull, Close, Again, Others
  <2>. QED BY <2>1, <2>2
<1>3. fds' \in [Descriptors -> Clients \cup {Leaked, None}]
  <2>0. fds \in [Descriptors -> Clients \cup {Leaked, None}]
    BY DEF TypeOK
  <2>1. CASE OpenSocket(c)
    BY <2>0, <2>1 DEF OpenSocket
  <2>2. CASE ConnectBreaks(c)
    BY <2>0, <2>2 DEF ConnectBreaks
  <2>3. CASE ~OpenSocket(c) /\ ~ConnectBreaks(c)
    <3>1. fds' = fds \/ fds' = Closed(call[c].fd)
      BY <2>3
         DEF Step, SetSupportedVersions, Begin, BeginFails, ParseUri, Establish,
             NoAddress, ConnectSocket, OpenStream, Handshake, LookUp,
             DecideHost, ReadFile, RenameFile, OpenTls, OpenBuffering, Negotiate, Declined,
             Initialize, Return, CloseStream, CloseAgain, ReturnNull, Close, Again, Others
    <3>. QED BY <2>0, <3>1 DEF Closed
  <2>. QED BY <2>1, <2>2, <2>3
<1>. QED BY <1>1, <1>2, <1>3 DEF TypeOK, CallMoves, OnlyOf, Plan

LEMMA NextType == TypeOK /\ [Next]_vars => TypeOK'
<1>. SUFFICES ASSUME TypeOK, [Next]_vars PROVE TypeOK'
  OBVIOUS
<1>1. CASE UNCHANGED vars
  BY <1>1 DEF TypeOK, vars, Plan
<1>2. CASE Crash
  <2>1. \A c \in Clients : call'[c] = Idle /\ call'[c].pc = "idle"
    BY <1>2 DEF Crash, Idle
  <2>. QED BY <1>2, <2>1, IdleType DEF Crash, TypeOK, Plan
<1>3. CASE \E c \in Clients : Step(c)
  BY <1>3, StepType
<1>. QED BY <1>1, <1>2, <1>3 DEF Next

\* A thread's call, and what it holds, have their types.
THEOREM TypeTheorem == Spec => []TypeOK
<1>. QED BY InitType, NextType, PTL DEF Spec
-----------------------------------------------------------------------------
\* A step of a thread leaves what it holds in agreement with where it is.
LEMMA StepHeld ==
  ASSUME TypeOK, NEW c \in Clients, HeldAt(c), Step(c)
  PROVE  HeldAt(c)'
<1>. USE DEF At, Plan
<1>. DEFINE plan == call[c].plan
            held == call[c].held
<1>0. call \in [Clients -> CallRecords] /\ held \subseteq Parts
  BY DEF TypeOK, CallRecords
<1>m. /\ HeldFor(call[c].pc, plan, held)
  BY DEF HeldAt
<1>s. {} \in SUBSET Parts
  OBVIOUS
<1>g. ASSUME NEW pc \in Steps, NEW parts \in SUBSET Parts, Goes(c, pc, parts),
             HeldFor(pc, plan, held \cup parts)
      PROVE  HeldAt(c)'
  BY <1>g, GoesEffect DEF HeldAt, KeepsFindings, KeepsPlan
<1>f. ASSUME FailsInSetup(c) PROVE HeldAt(c)'
  <2>1. HeldFor("closing both", plan, held \cup {}) /\ "closing both" \in Steps
    BY DEF HeldFor, TlsSteps, Steps
  <2>. QED BY <1>f, <1>g, <1>s, <2>1 DEF FailsInSetup
<1>a. ASSUME FailsAtOnce(c), held \cap Streams = {} PROVE HeldAt(c)'
  <2>1. HeldFor("failing", plan, held \cup {}) /\ "failing" \in Steps
    BY <1>a DEF HeldFor, TlsSteps, Steps
  <2>. QED BY <1>a, <1>g, <1>s, <2>1 DEF FailsAtOnce
<1>u. ASSUME call' = call PROVE HeldAt(c)'
  BY <1>u, <1>m DEF HeldAt
<1>1. ASSUME NEW list \in Lists, SetSupportedVersions(c, list) PROVE call' = call
  BY <1>1 DEF SetSupportedVersions
<1>2. ASSUME NEW p \in Plans, Begin(c, p) PROVE HeldAt(c)'
  <2>. DEFINE h == {"config"} \cup IF p.credentials THEN {"password"} ELSE {}
  <2>1. call'[c].pc = "uri" /\ call'[c].plan = p /\ call'[c].held = h
    BY <1>0, <1>2 DEF Begin, Idle
  <2>2. HeldFor("uri", p, h)
    BY DEF HeldFor, But, TlsSteps
  <2>. HIDE DEF h
  <2>. QED BY <2>1, <2>2 DEF HeldAt
<1>3. CASE BeginFails(c)
  BY <1>u, <1>3 DEF BeginFails
<1>4. CASE ParseUri(c)
  <2>1. held \ {"password"} = {"config"}
    BY <1>4, <1>m DEF ParseUri, HeldFor, But
  <2>2. /\ HeldFor("failing", plan, held \cup {"uri"})
        /\ HeldFor("establish", plan, held \cup {"uri"})
        /\ {"failing", "establish"} \subseteq Steps /\ {"uri"} \in SUBSET Parts
        /\ held \cap Streams = {}
    BY <2>1 DEF HeldFor, But, TlsSteps, Steps, Parts, Streams
  <2>. QED BY <1>4, <1>g, <1>a, <2>2 DEF ParseUri
<1>5. CASE Establish(c)
  <2>1. held \ {"password"} = {"config", "uri"}
    BY <1>5, <1>m DEF Establish, HeldFor, But
  <2>2. /\ HeldFor("socket", plan, held \cup {"connection", "buffers"})
        /\ "socket" \in Steps /\ {"connection", "buffers"} \in SUBSET Parts
        /\ held \cap Streams = {}
    BY <2>1 DEF HeldFor, But, TlsSteps, Steps, Parts, Streams, Made
  <2>. QED BY <1>5, <1>g, <1>a, <2>2 DEF Establish
<1>6. CASE OpenSocket(c)
  <2>1. /\ call'[c].pc = "connecting" /\ call'[c].held = held /\ call'[c].plan = plan
        /\ call[c].pc = "socket"
    BY <1>0, <1>6 DEF OpenSocket, CallRecords
  <2>2. HeldFor("connecting", plan, held)
    BY <1>m, <2>1 DEF HeldFor, TlsSteps
  <2>. QED BY <2>1, <2>2 DEF HeldAt
<1>7. CASE NoAddress(c)
  <2>1. held \ {"password"} = Made
    BY <1>7, <1>m DEF NoAddress, HeldFor, But
  <2>2. held \cap Streams = {}
    BY <2>1 DEF Made, Streams
  <2>. QED BY <1>7, <1>a, <2>2 DEF NoAddress
<1>8. CASE ConnectSocket(c)
  <2>1. held \ {"password"} = Made
    BY <1>8, <1>m DEF ConnectSocket, HeldFor, But
  <2>2. CASE Goes(c, "stream", {})
    <3>1. HeldFor("stream", plan, held \cup {}) /\ "stream" \in Steps
      BY <2>1 DEF HeldFor, But, TlsSteps, Steps
    <3>. QED BY <1>g, <1>s, <2>2, <3>1
  <2>3. CASE call' = [call EXCEPT ![c].pc = "socket", ![c].fd = NoDescriptor]
    <3>1. call'[c].pc = "socket" /\ call'[c].held = held /\ call'[c].plan = plan
      BY <1>0, <2>3 DEF CallRecords
    <3>2. HeldFor("socket", plan, held)
      BY <2>1 DEF HeldFor, But, TlsSteps
    <3>. QED BY <3>1, <3>2 DEF HeldAt
  <2>. QED BY <1>8, <2>2, <2>3 DEF ConnectSocket
<1>9. CASE ConnectBreaks(c)
  <2>1. /\ call'[c].pc = "failing" /\ call'[c].held = held /\ call'[c].plan = plan
        /\ call[c].pc = "connecting"
    BY <1>0, <1>9 DEF ConnectBreaks, CallRecords
  <2>2. HeldFor("failing", plan, held)
    <3>1. held \ {"password"} = Made
      BY <2>1, <1>m DEF HeldFor, But
    <3>. QED BY <3>1 DEF HeldFor, TlsSteps, Made, Streams
  <2>. QED BY <2>1, <2>2 DEF HeldAt
<1>10. CASE OpenStream(c)
  <2>1. held \ {"password"} = Made
    BY <1>10, <1>m DEF OpenStream, HeldFor, But
  <2>2. /\ plan.secure => HeldFor("handshake", plan, held \cup {"posix"})
        /\ ~plan.secure => HeldFor("buffer", plan, held \cup {"posix"})
        /\ {"handshake", "buffer"} \subseteq Steps /\ {"posix"} \in SUBSET Parts
    BY <2>1 DEF HeldFor, But, TlsSteps, Steps, Parts, Made, TlsOf
  <2>. QED BY <1>10, <1>g, <1>f, <2>2 DEF OpenStream
<1>t. ASSUME NEW pc \in TlsSteps \cup {"closing both"}, call[c].pc \in TlsSteps,
             call'[c].pc = pc, call'[c].held = held, call'[c].plan = plan
      PROVE  HeldAt(c)'
  <2>1. held \ {"password"} = Made \cup {"posix"} /\ plan.secure
    BY <1>m, <1>t DEF HeldFor, But
  <2>2. HeldFor(pc, plan, held)
    BY <2>1 DEF HeldFor, But, TlsSteps
  <2>. QED BY <1>t, <2>2 DEF HeldAt
<1>11. CASE Handshake(c)
  <2>1. CASE ~FailsInSetup(c)
    <3>1. PICK cert \in Certs, pc \in {"tls", "look up", "closing both"} :
            call' = [call EXCEPT ![c].cert = cert, ![c].pc = pc]
      BY <1>11, <2>1 DEF Handshake
    <3>2. /\ call'[c].pc = pc /\ call'[c].held = held /\ call'[c].plan = plan
      BY <1>0, <3>1 DEF CallRecords
    <3>3. call[c].pc = "handshake"
      BY <1>11 DEF Handshake
    <3>. QED BY <1>t, <3>2, <3>3 DEF TlsSteps
  <2>. QED BY <1>f, <2>1
<1>12. CASE LookUp(c)
  <2>1. CASE ~FailsInSetup(c)
    <3>1. PICK stored : call' = [call EXCEPT ![c].pc = "decide", ![c].stored = stored]
      BY <1>12, <2>1 DEF LookUp
    <3>2. /\ call'[c].pc = "decide" /\ call'[c].held = held /\ call'[c].plan = plan
          /\ call[c].pc = "look up"
      BY <1>0, <1>12, <3>1 DEF LookUp, CallRecords
    <3>. QED BY <1>t, <3>2 DEF TlsSteps
  <2>. QED BY <1>f, <2>1
<1>13. ASSUME NEW answer \in Answers, DecideHost(c, answer) PROVE HeldAt(c)'
  <2>1. PICK pc \in {"tls", "read file", "closing both"} :
          call' = [call EXCEPT ![c].answer = answer, ![c].pc = pc]
    BY <1>13 DEF DecideHost
  <2>2. /\ call'[c].pc = pc /\ call'[c].held = held /\ call'[c].plan = plan
    BY <1>0, <2>1 DEF CallRecords
  <2>3. call[c].pc = "decide"
    BY <1>13 DEF DecideHost
  <2>. QED BY <1>t, <2>2, <2>3 DEF TlsSteps
<1>14. CASE ReadFile(c)
  <2>1. CASE ~FailsInSetup(c)
    <3>1. PICK lines : call' = [call EXCEPT ![c].pc = "rename", ![c].temp = lines]
      BY <1>14, <2>1 DEF ReadFile
    <3>2. /\ call'[c].pc = "rename" /\ call'[c].held = held /\ call'[c].plan = plan
          /\ call[c].pc = "read file"
      BY <1>0, <1>14, <3>1 DEF ReadFile, CallRecords
    <3>. QED BY <1>t, <3>2 DEF TlsSteps
  <2>. QED BY <1>f, <2>1
<1>15. CASE RenameFile(c)
  <2>1. CASE Goes(c, "tls", {})
    <3>1. /\ call'[c].pc = "tls" /\ call'[c].held = held /\ call'[c].plan = plan
          /\ call[c].pc = "rename"
      BY <1>0, <1>15, <2>1 DEF RenameFile, Goes, CallRecords
    <3>. QED BY <1>t, <3>1 DEF TlsSteps
  <2>. QED BY <1>f, <1>15, <2>1 DEF RenameFile
<1>16. CASE OpenTls(c)
  <2>1. held \ {"password"} = Made \cup {"posix"} /\ plan.secure
    BY <1>16, <1>m DEF OpenTls, HeldFor, But, TlsSteps
  <2>2. /\ HeldFor("buffer", plan, held \cup {"tls"})
        /\ "buffer" \in Steps /\ {"tls"} \in SUBSET Parts
    BY <2>1 DEF HeldFor, But, TlsSteps, Steps, Parts, Made, TlsOf
  <2>. QED BY <1>16, <1>g, <1>f, <2>2 DEF OpenTls
<1>17. CASE OpenBuffering(c)
  <2>1. held \ {"password"} = Made \cup {"posix"} \cup TlsOf(plan)
    BY <1>17, <1>m DEF OpenBuffering, HeldFor, But, TlsSteps
  <2>2. /\ plan.buffered => HeldFor("negotiate", plan, held \cup {"buffering"})
        /\ ~plan.buffered => HeldFor("negotiate", plan, held \cup {})
        /\ "negotiate" \in Steps /\ {"buffering"} \in SUBSET Parts
    BY <2>1 DEF HeldFor, But, TlsSteps, Steps, Parts, Made, TlsOf, AllOf, BufferingOf
  <2>. QED BY <1>17, <1>g, <1>f, <1>s, <2>2 DEF OpenBuffering
<1>o. ASSUME FailsOpen(c), "posix" \in held PROVE HeldAt(c)'
  <2>1. HeldFor("closing", plan, held \cup {}) /\ "closing" \in Steps
    BY <1>o DEF HeldFor, TlsSteps, Steps
  <2>. QED BY <1>o, <1>g, <1>s, <2>1 DEF FailsOpen
<1>18. CASE Negotiate(c)
  <2>1. held \ {"password"} = AllOf(plan)
    BY <1>18, <1>m DEF Negotiate, HeldFor, But
  <2>2. /\ HeldFor("initialize", plan, held \cup {})
        /\ HeldFor("closing", plan, held \cup {})
        /\ {"initialize", "closing"} \subseteq Steps /\ "posix" \in held
    BY <2>1 DEF HeldFor, But, TlsSteps, Steps, AllOf
  <2>3. FailsOpen(c) \/ \E pc \in {"initialize", "closing"} : Goes(c, pc, {})
    BY <1>18 DEF Negotiate
  <2>. QED BY <1>g, <1>o, <1>s, <2>2, <2>3
<1>19. CASE Declined(c)
  <2>1. "posix" \in held
    BY <1>19, <1>m DEF Declined, HeldFor, But, AllOf
  <2>. QED BY <1>19, <1>o, <2>1 DEF Declined
<1>20. ASSUME NEW accepted \in BOOLEAN, Initialize(c, accepted) PROVE HeldAt(c)'
  <2>1. PICK pc \in {"leaving", "closing"} :
          call' = [call EXCEPT ![c].pc = pc, ![c].held = @ \ {"password"}]
    BY <1>20 DEF Initialize
  <2>2. /\ call'[c].pc = pc /\ call'[c].held = held \ {"password"} /\ call'[c].plan = plan
        /\ call[c].pc = "initialize"
    BY <1>0, <1>20, <2>1 DEF Initialize, CallRecords
  <2>3. held \ {"password"} = AllOf(plan)
    BY <1>m, <2>2 DEF HeldFor, But
  <2>4. HeldFor(pc, plan, held \ {"password"})
    BY <2>3 DEF HeldFor, TlsSteps, AllOf
  <2>. QED BY <2>2, <2>4 DEF HeldAt
<1>21. CASE Return(c)
  <2>1. /\ call'[c].pc = "connected" /\ call'[c].held = held \ {"uri"}
        /\ call'[c].plan = plan /\ call[c].pc = "leaving"
    BY <1>0, <1>21 DEF Return, CallRecords
  <2>2. held = AllOf(plan)
    BY <1>m, <2>1 DEF HeldFor
  <2>3. HeldFor("connected", plan, held \ {"uri"})
    BY <2>2 DEF HeldFor, TlsSteps
  <2>. QED BY <2>1, <2>3 DEF HeldAt
<1>22. CASE CloseStream(c)
  <2>1. PICK pc \in {"failing", "close again"} :
          call' = [call EXCEPT ![c].held = @ \ Streams, ![c].pc = pc]
    BY <1>22 DEF CloseStream, StreamsClosed
  <2>2. call'[c].pc = pc /\ call'[c].held = held \ Streams /\ call'[c].plan = plan
    BY <1>0, <2>1 DEF CallRecords
  <2>3. HeldFor(pc, plan, held \ Streams)
    BY DEF HeldFor, TlsSteps
  <2>. QED BY <2>2, <2>3 DEF HeldAt
<1>23. CASE CloseAgain(c)
  <2>1. held \cap Streams = {}
    BY <1>23, <1>m DEF CloseAgain, HeldFor
  <2>. QED BY <1>23, <1>a, <2>1 DEF CloseAgain, FailsAtOnce
<1>24. CASE ReturnNull(c)
  <2>1. /\ call'[c].pc = "returned" /\ call'[c].plan = plan
        /\ call'[c].held = held \ {"connection", "buffers", "uri", "config", "password"}
        /\ call[c].pc = "failing"
    BY <1>0, <1>24 DEF ReturnNull, CallRecords
  <2>2. held \cap Streams = {}
    BY <1>m, <2>1 DEF HeldFor
  <2>3. call'[c].held = {}
    BY <1>0, <2>1, <2>2 DEF Parts, Streams
  <2>. QED BY <2>1, <2>3 DEF HeldAt, HeldFor, TlsSteps
<1>25. CASE Close(c)
  <2>1. call'[c].pc = "returned" /\ call'[c].plan = plan /\ call'[c].held = {}
    BY <1>0, <1>25 DEF Close, CallRecords
  <2>. QED BY <2>1 DEF HeldAt, HeldFor, TlsSteps
<1>26. CASE Again(c)
  <2>1. call'[c].pc = "idle" /\ call'[c].held = {}
    BY <1>0, <1>26 DEF Again, Idle
  <2>. QED BY <2>1 DEF HeldAt, HeldFor, TlsSteps
<1>. HIDE DEF plan, held
<1>. QED
  BY <1>u, <1>1, <1>2, <1>3, <1>4, <1>5, <1>6, <1>7, <1>8, <1>9, <1>10, <1>11, <1>12,
     <1>13, <1>14, <1>15, <1>16, <1>17, <1>18, <1>19, <1>20, <1>21, <1>22, <1>23, <1>24,
     <1>25, <1>26
     DEF Step

\* A step of a thread takes or closes a descriptor of its own, or any of another
\* thread it had closed before; it never gives one away.
LEMMA StepOwned ==
  ASSUME TypeOK, Owned, NEW c \in Clients, HeldAt(c), Step(c)
  PROVE  Owned'
<1>. USE DEF At, Plan
<1>0. call \in [Clients -> CallRecords] /\ fds \in [Descriptors -> Clients \cup {Leaked, None}]
  BY DEF TypeOK
<1>1. OnlyOf(c)
  BY StepOfCall DEF CallMoves
<1>2. /\ None \notin Clients /\ Leaked \notin Clients
      /\ \A d \in Descriptors : d # NoDescriptor
  BY ConnectAssumption
<1>k. ASSUME fds' = fds, call'[c].fd = call[c].fd, call'[c].pc \notin OwnsNothing
      PROVE  Owned'
  BY <1>1, <1>k DEF Owned, OnlyOf
<1>n. ASSUME fds' = fds, call[c].pc \in OwnsNothing
      PROVE  Owned'
  BY <1>1, <1>n DEF Owned, OnlyOf
<1>c. ASSUME fds' = Closed(call[c].fd)
      PROVE  Owned'
  <2>1. \A d \in Descriptors : fds'[d] # c /\ (fds'[d] = fds[d] \/ fds'[d] = None)
    BY <1>0, <1>2, <1>c DEF Closed, Owned
  <2>. QED BY <1>1, <1>2, <2>1 DEF Owned, OnlyOf
<1>g. ASSUME NEW pc, NEW parts, Goes(c, pc, parts)
      PROVE  call'[c].pc = pc /\ call'[c].fd = call[c].fd
  BY <1>0, <1>g DEF Goes, CallRecords
<1>f. ASSUME FailsInSetup(c) \/ FailsOpen(c), fds' = fds PROVE Owned'
  <2>1. Goes(c, "closing", {}) \/ Goes(c, "closing both", {})
    BY <1>f DEF FailsInSetup, FailsOpen
  <2>2. call'[c].pc \in {"closing", "closing both"} /\ call'[c].fd = call[c].fd
    BY <1>g, <2>1
  <2>. QED BY <1>f, <1>k, <2>2 DEF OwnsNothing
<1>3. ASSUME NEW list \in Lists, SetSupportedVersions(c, list) PROVE Owned'
  BY <1>n, <1>3 DEF SetSupportedVersions, OwnsNothing
<1>4. ASSUME NEW plan \in Plans, Begin(c, plan) PROVE Owned'
  BY <1>n, <1>4 DEF Begin, OwnsNothing
<1>5. CASE BeginFails(c) \/ ParseUri(c) \/ Establish(c) \/ NoAddress(c) \/ ReturnNull(c) \/ Again(c)
  BY <1>n, <1>5
     DEF BeginFails, ParseUri, Establish, NoAddress, ReturnNull, Again, OwnsNothing, Others
<1>6. CASE OpenSocket(c)
  <2>1. PICK d \in FreeDescriptors :
          /\ fds' = [fds EXCEPT ![d] = c]
          /\ call' = [call EXCEPT ![c].pc = "connecting", ![c].fd = d]
    BY <1>6, LowestFree DEF OpenSocket
  <2>2. call'[c].fd = d /\ call'[c].pc = "connecting" /\ call[c].pc = "socket"
    BY <1>0, <1>6, <2>1 DEF OpenSocket, CallRecords
  <2>3. \A e \in Descriptors : fds[e] # c
    BY <2>2 DEF Owned, OwnsNothing
  <2>4. \A e \in Descriptors : fds'[e] = IF e = d THEN c ELSE fds[e]
    BY <1>0, <2>1
  <2>. QED BY <1>1, <2>2, <2>3, <2>4 DEF Owned, OnlyOf, OwnsNothing
<1>7. CASE ConnectSocket(c)
  BY <1>c, <1>k, <1>g, <1>7 DEF ConnectSocket, OwnsNothing
<1>8. CASE ConnectBreaks(c)
  <2>1. fds' = [fds EXCEPT ![call[c].fd] = Leaked]
    BY <1>8 DEF ConnectBreaks
  <2>2. \A d \in Descriptors : fds'[d] # c /\ (fds'[d] = fds[d] \/ fds'[d] = Leaked)
    BY <1>0, <1>2, <2>1 DEF Owned
  <2>. QED BY <1>1, <1>2, <2>2 DEF Owned, OnlyOf
<1>9. CASE OpenStream(c)
  BY <1>f, <1>g, <1>k, <1>9 DEF OpenStream, OwnsNothing, Others
<1>10. CASE Handshake(c)
  <2>1. CASE ~FailsInSetup(c)
    <3>1. PICK cert \in Certs, pc \in {"tls", "look up", "closing both"} :
            call' = [call EXCEPT ![c].cert = cert, ![c].pc = pc]
      BY <1>10, <2>1 DEF Handshake
    <3>2. call'[c].pc = pc /\ call'[c].fd = call[c].fd
      BY <1>0, <3>1 DEF CallRecords
    <3>. QED BY <1>k, <1>10, <3>2 DEF Handshake, OwnsNothing, Others
  <2>. QED BY <1>f, <1>10, <2>1 DEF Handshake, Others
<1>11. CASE LookUp(c)
  <2>1. CASE ~FailsInSetup(c)
    <3>1. PICK stored : call' = [call EXCEPT ![c].pc = "decide", ![c].stored = stored]
      BY <1>11, <2>1 DEF LookUp
    <3>2. call'[c].pc = "decide" /\ call'[c].fd = call[c].fd
      BY <1>0, <3>1 DEF CallRecords
    <3>. QED BY <1>k, <1>11, <3>2 DEF LookUp, OwnsNothing, Others
  <2>. QED BY <1>f, <1>11, <2>1 DEF LookUp, Others
<1>12. ASSUME NEW answer \in Answers, DecideHost(c, answer) PROVE Owned'
  <2>1. PICK pc \in {"tls", "read file", "closing both"} :
          call' = [call EXCEPT ![c].answer = answer, ![c].pc = pc]
    BY <1>12 DEF DecideHost
  <2>2. call'[c].pc = pc /\ call'[c].fd = call[c].fd
    BY <1>0, <2>1 DEF CallRecords
  <2>. QED BY <1>k, <1>12, <2>2 DEF DecideHost, OwnsNothing
<1>13. CASE ReadFile(c)
  <2>1. CASE ~FailsInSetup(c)
    <3>1. PICK lines : call' = [call EXCEPT ![c].pc = "rename", ![c].temp = lines]
      BY <1>13, <2>1 DEF ReadFile
    <3>2. call'[c].pc = "rename" /\ call'[c].fd = call[c].fd
      BY <1>0, <3>1 DEF CallRecords
    <3>. QED BY <1>k, <1>13, <3>2 DEF ReadFile, OwnsNothing, Others
  <2>. QED BY <1>f, <1>13, <2>1 DEF ReadFile, Others
<1>14. CASE RenameFile(c) \/ OpenTls(c) \/ OpenBuffering(c)
  BY <1>f, <1>g, <1>k, <1>14 DEF RenameFile, OpenTls, OpenBuffering, OwnsNothing, Others
<1>15. CASE Negotiate(c) \/ Declined(c)
  <2>1. fds' = fds /\ (FailsOpen(c) \/ \E pc \in {"initialize", "closing"} : Goes(c, pc, {}))
    BY <1>15 DEF Negotiate, Declined, Others
  <2>. QED BY <1>f, <1>g, <1>k, <2>1 DEF OwnsNothing
<1>16. ASSUME NEW accepted \in BOOLEAN, Initialize(c, accepted) PROVE Owned'
  <2>1. PICK pc \in {"leaving", "closing"} :
          call' = [call EXCEPT ![c].pc = pc, ![c].held = @ \ {"password"}]
    BY <1>16 DEF Initialize
  <2>2. call'[c].pc = pc /\ call'[c].fd = call[c].fd
    BY <1>0, <2>1 DEF CallRecords
  <2>. QED BY <1>k, <1>16, <2>2 DEF Initialize, OwnsNothing, Others
<1>17. CASE Return(c)
  <2>1. call'[c].pc = "connected" /\ call'[c].fd = call[c].fd
    BY <1>0, <1>17 DEF Return, CallRecords
  <2>. QED BY <1>k, <1>17, <2>1 DEF Return, OwnsNothing, Others
<1>18. CASE CloseStream(c)
  <2>1. CASE Holds(c, "posix")
    BY <1>c, <1>18, <2>1 DEF CloseStream
  <2>2. CASE ~Holds(c, "posix")
    <3>1. call[c].pc = "closing both"
      BY <1>18, <2>2 DEF CloseStream, HeldAt, HeldFor, Holds
    <3>2. call' = [call EXCEPT ![c].held = @ \ Streams, ![c].pc = "close again"] /\ fds' = fds
      BY <1>18, <2>2, <3>1 DEF CloseStream, StreamsClosed
    <3>3. call'[c].pc = "close again" /\ call'[c].fd = call[c].fd
      BY <1>0, <3>2 DEF CallRecords
    <3>. QED BY <1>k, <3>2, <3>3 DEF OwnsNothing
  <2>. QED BY <2>1, <2>2
<1>19. CASE CloseAgain(c) \/ Close(c)
  BY <1>c, <1>19 DEF CloseAgain, Close
<1>. QED
  BY <1>3, <1>4, <1>5, <1>6, <1>7, <1>8, <1>9, <1>10, <1>11, <1>12, <1>13, <1>14, <1>15,
     <1>16, <1>17, <1>18, <1>19
     DEF Step

LEMMA InitHeld == Init => HeldOK
<1>. SUFFICES ASSUME Init PROVE HeldOK
  OBVIOUS
<1>1. \A c \in Clients : call[c].pc = "idle" /\ call[c].held = {}
  BY DEF Init, Idle
<1>2. \A c \in Clients : HeldAt(c)
  BY <1>1 DEF HeldAt, HeldFor, TlsSteps
<1>3. \A d \in Descriptors : fds[d] \notin Clients
  BY ConnectAssumption DEF Init
<1>. QED BY <1>2, <1>3 DEF HeldOK, Owned

LEMMA NextHeld == TypeOK /\ HeldOK /\ [Next]_vars => HeldOK'
<1>. SUFFICES ASSUME TypeOK, HeldOK, [Next]_vars PROVE HeldOK'
  OBVIOUS
<1>1. CASE UNCHANGED vars
  BY <1>1 DEF HeldOK, Owned, HeldAt, vars
<1>2. CASE Crash
  <2>1. \A c \in Clients : call'[c].pc = "idle" /\ call'[c].held = {}
    BY <1>2 DEF Crash, Idle
  <2>2. \A c \in Clients : HeldAt(c)'
    BY <2>1 DEF HeldAt, HeldFor, TlsSteps
  <2>3. \A d \in Descriptors : fds'[d] \notin Clients
    BY <1>2, ConnectAssumption DEF Crash
  <2>. QED BY <2>2, <2>3 DEF HeldOK, Owned
<1>3. ASSUME NEW c \in Clients, Step(c) PROVE HeldOK'
  <2>1. Owned' /\ HeldAt(c)'
    BY <1>3, StepOwned, StepHeld DEF HeldOK
  <2>2. ASSUME NEW x \in Clients \ {c} PROVE HeldAt(x)'
    <3>1. call'[x] = call[x]
      BY <1>3, StepOfCall DEF CallMoves, OnlyOf
    <3>. QED BY <3>1 DEF HeldOK, HeldAt
  <2>. QED BY <2>1, <2>2 DEF HeldOK
<1>. QED BY <1>1, <1>2, <1>3 DEF Next

\* Whatever fails and in whichever order the threads go: a call of neo4j_connect
\* that returned NULL has released what it acquired, and one that returned a
\* connection kept what the connection needs and no password.
THEOREM NothingLeaksTheorem == Spec => []NothingLeaks
<1>1. TypeOK /\ HeldOK => NothingLeaks
  <2>. SUFFICES ASSUME TypeOK, HeldOK, NEW c \in Clients
                PROVE  /\ At(c, "returned") =>
                            call[c].held = {} /\ \A d \in Descriptors : fds[d] # c
                       /\ Connected(c) =>
                            call[c].held = {"config", "connection", "buffers", "posix"}
                              \cup (IF Plan(c).secure THEN {"tls"} ELSE {})
                              \cup (IF Plan(c).buffered THEN {"buffering"} ELSE {})
    BY DEF NothingLeaks
  <2>1. HeldFor(call[c].pc, call[c].plan, call[c].held)
    BY DEF HeldOK, HeldAt
  <2>2. CASE At(c, "returned")
    BY <2>1, <2>2 DEF At, Connected, HeldFor, HeldOK, Owned, OwnsNothing
  <2>3. CASE Connected(c)
    <3>1. call[c].held = AllOf(Plan(c)) \ {"uri"}
      BY <2>1, <2>3 DEF Connected, At, Plan, HeldFor
    <3>. QED BY <2>3, <3>1 DEF AllOf, Made, TlsOf, BufferingOf, Connected, At
  <2>. QED BY <2>2, <2>3
<1>. QED BY <1>1, InitType, NextType, InitHeld, NextHeld, PTL DEF Spec
-----------------------------------------------------------------------------
LEMMA StepTrusted ==
  ASSUME TypeOK, NEW c \in Clients, TrustedAt(c), Step(c)
  PROVE  TrustedAt(c)'
<1>. USE DEF At
<1>0. call \in [Clients -> CallRecords]
  BY DEF TypeOK
<1>. DEFINE Told == {"look up", "decide", "read file", "rename", "tls"} \cup AfterTls
<1>n. ASSUME call'[c].pc \notin Told PROVE TrustedAt(c)'
  BY <1>n DEF TrustedAt
<1>k. ASSUME KeepsFindings(c), Trusted(c), call'[c].pc \notin {"look up", "decide"}
      PROVE  TrustedAt(c)'
  <2>1. Trusted(c)'
    BY <1>k DEF KeepsFindings, KeepsPlan, Trusted, Verified, LeftToUser, Admitted, Plan
  <2>. QED BY <1>k, <2>1 DEF TrustedAt, AfterTls
<1>p. ASSUME KeepsFindings(c), ~Plan(c).secure, call'[c].pc \in AfterTls
      PROVE  TrustedAt(c)'
  BY <1>p DEF KeepsFindings, KeepsPlan, TrustedAt, AfterTls, Plan
<1>g. ASSUME NEW pc, NEW parts, Goes(c, pc, parts)
      PROVE  call'[c].pc = pc /\ KeepsFindings(c)
  BY <1>0, <1>g DEF Goes, CallRecords, KeepsFindings, KeepsPlan
<1>f. ASSUME FailsAtOnce(c) \/ FailsInSetup(c) \/ FailsOpen(c) PROVE TrustedAt(c)'
  <2>1. Goes(c, "failing", {}) \/ Goes(c, "closing", {}) \/ Goes(c, "closing both", {})
    BY <1>f DEF FailsAtOnce, FailsInSetup, FailsOpen
  <2>2. call'[c].pc \in {"failing", "closing", "closing both"}
    BY <1>g, <2>1
  <2>. QED BY <1>n, <2>2 DEF AfterTls
<1>1. ASSUME NEW list \in Lists, SetSupportedVersions(c, list) PROVE TrustedAt(c)'
  BY <1>n, <1>1 DEF SetSupportedVersions, AfterTls
<1>2. ASSUME NEW plan \in Plans, Begin(c, plan) PROVE TrustedAt(c)'
  <2>1. call'[c].pc = "uri"
    BY <1>0, <1>2 DEF Begin, Idle
  <2>. QED BY <1>n, <2>1 DEF AfterTls
<1>3. CASE BeginFails(c)
  BY <1>n, <1>3 DEF BeginFails, AfterTls
<1>4. CASE ParseUri(c) \/ Establish(c) \/ NoAddress(c)
  <2>1. \/ FailsAtOnce(c)
        \/ \E pc \in {"failing", "establish", "socket"} : \E parts : Goes(c, pc, parts)
    BY <1>4 DEF ParseUri, Establish, NoAddress
  <2>2. ASSUME NEW pc \in {"failing", "establish", "socket"}, NEW parts, Goes(c, pc, parts)
        PROVE  TrustedAt(c)'
    BY <1>n, <1>g, <2>2 DEF AfterTls
  <2>. QED BY <1>f, <2>1, <2>2
<1>5. CASE OpenSocket(c)
  <2>1. PICK d : call' = [call EXCEPT ![c].pc = "connecting", ![c].fd = d]
    BY <1>5 DEF OpenSocket
  <2>2. call'[c].pc = "connecting"
    BY <1>0, <2>1 DEF CallRecords
  <2>. QED BY <1>n, <2>2 DEF AfterTls
<1>6. CASE ConnectSocket(c) \/ ConnectBreaks(c)
  <2>1. call'[c].pc \in {"stream", "socket", "failing"}
    BY <1>0, <1>6, <1>g DEF ConnectSocket, ConnectBreaks, CallRecords
  <2>. QED BY <1>n, <2>1 DEF AfterTls
<1>7. CASE OpenStream(c)
  <2>1. CASE Goes(c, IF Plan(c).secure THEN "handshake" ELSE "buffer", {"posix"})
    <3>1. CASE Plan(c).secure
      <4>1. call'[c].pc = "handshake"
        BY <1>g, <2>1, <3>1
      <4>. QED BY <1>n, <4>1 DEF AfterTls
    <3>2. CASE ~Plan(c).secure
      BY <1>p, <1>g, <2>1, <3>2 DEF AfterTls
    <3>. QED BY <3>1, <3>2
  <2>. QED BY <1>f, <1>7, <2>1 DEF OpenStream
<1>8. CASE Handshake(c)
  <2>1. CASE ~FailsInSetup(c)
    <3>1. PICK cert \in Certs :
            call' = [call EXCEPT ![c].cert = cert,
                      ![c].pc = CASE Verdict(cert, Plan(c).trustKnown) = "verified" -> "tls"
                                  [] Verdict(cert, Plan(c).trustKnown) = "look up" -> "look up"
                                  [] OTHER -> "closing both"]
      BY <1>8, <2>1 DEF Handshake
    <3>. DEFINE next == Verdict(cert, Plan(c).trustKnown)
                pc == CASE next = "verified" -> "tls" [] next = "look up" -> "look up"
                        [] OTHER -> "closing both"
    <3>2. call' = [call EXCEPT ![c].cert = cert, ![c].pc = pc]
      BY <3>1
    <3>3. /\ pc \in {"tls", "look up", "closing both"}
          /\ pc = "tls" => cert.status = "ok" /\ cert.names = "match"
          /\ pc = "look up" =>
               Plan(c).trustKnown /\ cert.status \in UnknownIssuer \cup {"ok"}
      BY DEF Verdict, HostnameResult
    <3>. HIDE DEF pc
    <3>4. call'[c].pc = pc /\ call'[c].cert = cert /\ call'[c].plan = call[c].plan
      BY <1>0, <3>2 DEF CallRecords
    <3>. QED BY <3>3, <3>4 DEF TrustedAt, AfterTls, Trusted, Verified, LeftToUser, Plan
  <2>. QED BY <1>f, <2>1
<1>9. CASE LookUp(c)
  <2>1. CASE ~FailsInSetup(c)
    <3>1. PICK stored : call' = [call EXCEPT ![c].pc = "decide", ![c].stored = stored]
      BY <1>9, <2>1 DEF LookUp
    <3>2. /\ call'[c].pc = "decide" /\ call'[c].cert = call[c].cert
          /\ call'[c].plan = call[c].plan
      BY <1>0, <3>1 DEF CallRecords
    <3>3. LeftToUser(c)
      BY <1>9 DEF LookUp, TrustedAt
    <3>. QED BY <3>2, <3>3 DEF TrustedAt, AfterTls, LeftToUser, Plan
  <2>. QED BY <1>f, <2>1
<1>10. ASSUME NEW answer \in Answers, DecideHost(c, answer) PROVE TrustedAt(c)'
  <2>. DEFINE next == Decide(call[c].stored, call[c].cert.print, Plan(c).asks, answer)
              pc == CASE next = "accept" -> "tls" [] next = "update" -> "read file"
                      [] OTHER -> "closing both"
  <2>1. call' = [call EXCEPT ![c].answer = answer, ![c].pc = pc]
    BY <1>10 DEF DecideHost
  <2>2. /\ pc \in {"tls", "read file", "closing both"}
        /\ pc # "closing both" =>
             \/ call[c].stored = call[c].cert.print
             \/ Truncated(call[c].stored, call[c].cert.print)
             \/ Plan(c).asks /\ answer \in {"trust", "accept once"}
    BY DEF Decide
  <2>. HIDE DEF pc
  <2>3. /\ call'[c].pc = pc /\ call'[c].answer = answer /\ call'[c].cert = call[c].cert
        /\ call'[c].plan = call[c].plan /\ call'[c].stored = call[c].stored
    BY <1>0, <2>1 DEF CallRecords
  <2>4. LeftToUser(c)
    BY <1>10 DEF DecideHost, TrustedAt
  <2>5. LeftToUser(c)' /\ (pc # "closing both" => Admitted(c)')
    BY <2>2, <2>3, <2>4 DEF LeftToUser, Admitted, Plan
  <2>. QED BY <2>2, <2>3, <2>5 DEF TrustedAt, AfterTls, Trusted
<1>11. CASE ReadFile(c)
  <2>1. CASE ~FailsInSetup(c)
    <3>1. PICK lines : call' = [call EXCEPT ![c].pc = "rename", ![c].temp = lines]
      BY <1>11, <2>1 DEF ReadFile
    <3>2. call'[c].pc = "rename" /\ KeepsFindings(c)
      BY <1>0, <3>1 DEF CallRecords, KeepsFindings, KeepsPlan
    <3>3. Trusted(c)
      BY <1>11 DEF ReadFile, TrustedAt
    <3>. QED BY <1>k, <3>2, <3>3
  <2>. QED BY <1>f, <2>1
<1>12. CASE RenameFile(c) \/ OpenTls(c)
  <2>1. Trusted(c)
    BY <1>12 DEF RenameFile, OpenTls, TrustedAt
  <2>2. FailsInSetup(c) \/ Goes(c, "tls", {}) \/ Goes(c, "buffer", {"tls"})
    BY <1>12 DEF RenameFile, OpenTls
  <2>3. ASSUME NEW pc \in {"tls", "buffer"}, NEW parts, Goes(c, pc, parts)
        PROVE  TrustedAt(c)'
    BY <1>g, <1>k, <2>1, <2>3
  <2>. QED BY <1>f, <2>2, <2>3
<1>s. ASSUME call[c].pc \in AfterTls, KeepsFindings(c), call'[c].pc \in AfterTls
      PROVE  TrustedAt(c)'
  <2>1. CASE Plan(c).secure
    <3>1. Trusted(c)
      BY <1>s, <2>1 DEF TrustedAt
    <3>. QED BY <1>k, <1>s, <3>1 DEF AfterTls
  <2>. QED BY <1>p, <1>s, <2>1
<1>13. CASE OpenBuffering(c) \/ Negotiate(c) \/ Declined(c)
  <2>1. call[c].pc \in AfterTls
    BY <1>13 DEF OpenBuffering, Negotiate, Declined, AfterTls
  <2>2. \/ FailsInSetup(c) \/ FailsOpen(c)
        \/ \E pc \in {"negotiate", "initialize", "closing"} : \E parts : Goes(c, pc, parts)
    BY <1>13 DEF OpenBuffering, Negotiate, Declined
  <2>3. ASSUME NEW pc \in {"negotiate", "initialize", "closing"}, NEW parts,
               Goes(c, pc, parts)
        PROVE  TrustedAt(c)'
    BY <1>g, <1>n, <1>s, <2>1, <2>3 DEF AfterTls
  <2>. QED BY <1>f, <2>2, <2>3
<1>14. ASSUME NEW accepted \in BOOLEAN, Initialize(c, accepted) PROVE TrustedAt(c)'
  <2>1. PICK pc \in {"leaving", "closing"} :
          call' = [call EXCEPT ![c].pc = pc, ![c].held = @ \ {"password"}]
    BY <1>14 DEF Initialize
  <2>2. call'[c].pc = pc /\ KeepsFindings(c)
    BY <1>0, <2>1 DEF CallRecords, KeepsFindings, KeepsPlan
  <2>. QED BY <1>14, <1>n, <1>s, <2>2 DEF Initialize, AfterTls
<1>15. CASE Return(c)
  <2>1. call'[c].pc = "connected" /\ KeepsFindings(c)
    BY <1>0, <1>15 DEF Return, CallRecords, KeepsFindings, KeepsPlan
  <2>. QED BY <1>15, <1>s, <2>1 DEF Return, AfterTls
<1>16. CASE CloseStream(c) \/ CloseAgain(c) \/ ReturnNull(c) \/ Close(c) \/ Again(c)
  <2>1. call'[c].pc \in {"failing", "close again", "returned", "idle"}
    <3>1. CASE CloseStream(c)
      BY <1>0, <3>1 DEF CloseStream, CallRecords
    <3>2. CASE CloseAgain(c)
      BY <1>g, <3>2 DEF CloseAgain
    <3>3. CASE ReturnNull(c)
      BY <1>0, <3>3 DEF ReturnNull, CallRecords
    <3>4. CASE Close(c)
      BY <1>0, <3>4 DEF Close, CallRecords
    <3>5. CASE Again(c)
      BY <1>0, <3>5 DEF Again, Idle
    <3>. QED BY <1>16, <3>1, <3>2, <3>3, <3>4, <3>5
  <2>. QED BY <1>n, <2>1 DEF AfterTls
<1>. QED
  BY <1>1, <1>2, <1>3, <1>4, <1>5, <1>6, <1>7, <1>8, <1>9, <1>10, <1>11, <1>12, <1>13,
     <1>14, <1>15, <1>16
     DEF Step

LEMMA InitTrusted == Init => TrustedOK
<1>1. Init => \A c \in Clients : call[c].pc = "idle"
  BY DEF Init, Idle
<1>. QED BY <1>1 DEF TrustedOK, TrustedAt, AfterTls

LEMMA NextTrusted == TypeOK /\ TrustedOK /\ [Next]_vars => TrustedOK'
<1>. SUFFICES ASSUME TypeOK, TrustedOK, [Next]_vars, NEW x \in Clients PROVE TrustedAt(x)'
  BY DEF TrustedOK
<1>k. ASSUME call'[x] = call[x] PROVE TrustedAt(x)'
  BY <1>k DEF TrustedOK, TrustedAt, Trusted, Verified, LeftToUser, Admitted, Plan
<1>1. CASE UNCHANGED vars
  BY <1>k, <1>1 DEF vars
<1>2. CASE Crash
  <2>1. call'[x].pc = "idle"
    BY <1>2 DEF Crash, Idle
  <2>. QED BY <2>1 DEF TrustedAt, AfterTls
<1>3. ASSUME NEW c \in Clients, Step(c) PROVE TrustedAt(x)'
  <2>1. CASE x = c
    BY <1>3, <2>1, StepTrusted DEF TrustedOK
  <2>2. CASE x # c
    BY <1>3, <1>k, <2>2, StepOfCall DEF CallMoves, OnlyOf
  <2>. QED BY <2>1, <2>2
<1>. QED BY <1>1, <1>2, <1>3 DEF Next

\* No thread gets a secure connection to a host whose certificate was neither
\* verified, nor on record, nor accepted by the user, whatever other threads
\* write to the file between its steps.
THEOREM OnlyVerifiedTheorem == Spec => []OnlyVerified
<1>1. TrustedOK => OnlyVerified
  BY DEF TrustedOK, TrustedAt, AfterTls, Trusted, Verified, LeftToUser, Admitted,
         OnlyVerified, Connected, At
<1>. QED BY <1>1, InitType, NextType, InitTrusted, NextTrusted, PTL DEF Spec
-----------------------------------------------------------------------------
\* What is known only grows, by what the user trusts.
Grows == known \subseteq known' /\ \A k \in known' : k.at = "start" => k \in known

LEMMA KeptGrows ==
  ASSUME NEW lines, Kept(lines, known), Grows
  PROVE  Kept(lines, known')
BY DEF Kept, Grows

\* The new file has the lines of the other hosts and that of this one.
LEMMA UpdatedKept ==
  ASSUME NEW lines \in Seq(Lines), NEW host \in Hosts, NEW print \in Fingerprints,
         Kept(lines, known), KnownPair(<<host, print>>)
  PROVE  Kept(Updated(lines, host, print), known)
<1>. DEFINE new == Line(host, print, FALSE)
            updated == Updated(lines, host, print)
<1>1. Elements(updated) =
        {line \in Elements(lines) : line.host # host \/ line.indented} \cup {new}
  BY UpdatedElements
<1>2. new.host = host /\ new.print = print
  BY DEF Line
<1>. HIDE DEF new, updated
<1>3. ASSUME NEW line \in Elements(updated)
      PROVE  \E k \in known : k.pair = <<line.host, line.print>>
  BY <1>1, <1>2 DEF Kept, KnownPair
<1>4. ASSUME NEW k \in known, k.at = "start"
      PROVE  \E line \in Elements(updated) : line.host = k.pair[1]
  <2>1. PICK line \in Elements(lines) : line.host = k.pair[1]
    BY <1>4 DEF Kept
  <2>. QED BY <1>1, <1>2, <2>1
<1>. QED BY <1>3, <1>4 DEF Kept, updated

LEMMA InitFile == Init => FileOK
<1>. SUFFICES ASSUME Init PROVE FileOK
  OBVIOUS
<1>1. known = [at : {"start"}, pair : Pairs(file)] /\ file \in Seq(Lines)
  BY ConnectAssumption DEF Init
<1>2. ASSUME NEW line \in Elements(file)
      PROVE  \E k \in known : k.pair = <<line.host, line.print>>
  <2>1. <<line.host, line.print>> \in Pairs(file)
    BY DEF Elements, Pairs
  <2>2. [at |-> "start", pair |-> <<line.host, line.print>>] \in known
    BY <1>1, <2>1
  <2>. QED BY <2>2
<1>3. ASSUME NEW k \in known
      PROVE  \E line \in Elements(file) : line.host = k.pair[1]
  <2>1. PICK i \in DOMAIN file : k.pair = <<file[i].host, file[i].print>>
    BY <1>1 DEF Pairs
  <2>. QED BY <2>1 DEF Elements
<1>4. \A c \in Clients : call[c].pc = "idle"
  BY DEF Init, Idle
<1>. QED BY <1>2, <1>3, <1>4 DEF FileOK, FileAt, Kept, At

\* Only a decision adds to what is known, and only rename writes the file.
LEMMA StepOfFile ==
  ASSUME NEW c \in Clients, Step(c)
  PROVE  /\ Grows
         /\ file' = file \/ (At(c, "rename") /\ file' = call[c].temp)
<1>1. ASSUME NEW answer \in Answers, DecideHost(c, answer)
      PROVE  Grows /\ file' = file
  <2>. DEFINE k == [at |-> "trust", pair |-> <<Plan(c).host, call[c].cert.print>>]
  <2>1. file' = file /\ (known' = known \/ known' = known \cup {k})
    BY <1>1 DEF DecideHost
  <2>2. k.at # "start"
    OBVIOUS
  <2>. HIDE DEF k
  <2>. QED BY <2>1, <2>2 DEF Grows
<1>2. CASE RenameFile(c)
  BY <1>2 DEF RenameFile, Grows
<1>3. CASE ~RenameFile(c) /\ ~(\E answer \in Answers : DecideHost(c, answer))
  <2>1. known' = known /\ file' = file
    BY <1>3
       DEF Step, SetSupportedVersions, Begin, BeginFails, ParseUri, Establish, OpenSocket,
           NoAddress, ConnectSocket, ConnectBreaks, OpenStream, Handshake, LookUp,
           ReadFile, OpenTls, OpenBuffering, Negotiate, Declined, Initialize, Return,
           CloseStream, CloseAgain, ReturnNull, Close, Again, Others
  <2>. QED BY <2>1 DEF Grows
<1>. QED BY <1>1, <1>2, <1>3 DEF RenameFile

LEMMA StepFile ==
  ASSUME TypeOK, Kept(file, known), NEW c \in Clients, FileAt(c), Step(c)
  PROVE  FileAt(c)'
<1>. USE DEF At
<1>0. call \in [Clients -> CallRecords]
  BY DEF TypeOK
<1>n. ASSUME call'[c].pc \notin {"read file", "rename"} PROVE FileAt(c)'
  BY <1>n DEF FileAt
<1>1. ASSUME NEW answer \in Answers, DecideHost(c, answer) PROVE FileAt(c)'
  <2>. DEFINE next == Decide(call[c].stored, call[c].cert.print, Plan(c).asks, answer)
              pc == CASE next = "accept" -> "tls" [] next = "update" -> "read file"
                      [] OTHER -> "closing both"
              pair == <<Plan(c).host, call[c].cert.print>>
  <2>1. /\ call' = [call EXCEPT ![c].answer = answer, ![c].pc = pc]
        /\ next = "update" => [at |-> "trust", pair |-> pair] \in known'
    BY <1>1 DEF DecideHost
  <2>2. pc \in {"tls", "read file", "closing both"} /\ (pc = "read file" => next = "update")
    OBVIOUS
  <2>. HIDE DEF pc, next
  <2>3. /\ call'[c].pc = pc /\ call'[c].cert = call[c].cert /\ call'[c].plan = call[c].plan
    BY <1>0, <2>1 DEF CallRecords
  <2>4. next = "update" => \E k \in known' : k.pair = pair
    BY <2>1
  <2>. QED BY <2>2, <2>3, <2>4 DEF FileAt, KnownPair, Plan
<1>2. CASE ReadFile(c)
  <2>1. CASE FailsInSetup(c)
    <3>1. call'[c].pc = "closing both"
      BY <1>0, <2>1 DEF FailsInSetup, Goes, CallRecords
    <3>. QED BY <1>n, <3>1
  <2>2. CASE ~FailsInSetup(c)
    <3>. DEFINE lines == Updated(file, Plan(c).host, call[c].cert.print)
    <3>1. /\ call' = [call EXCEPT ![c].pc = "rename", ![c].temp = lines]
          /\ known' = known /\ call[c].pc = "read file"
      BY <1>2, <2>2 DEF ReadFile, Others
    <3>2. Kept(lines, known)
      <4>1. KnownPair(<<Plan(c).host, call[c].cert.print>>)
        BY <3>1 DEF FileAt
      <4>2. Plan(c).host \in Hosts /\ call[c].cert.print \in Fingerprints
        BY <3>1, PlanTypes
      <4>. QED BY <4>1, <4>2, UpdatedKept DEF TypeOK
    <3>. HIDE DEF lines
    <3>3. call'[c].pc = "rename" /\ call'[c].temp = lines
      BY <1>0, <3>1 DEF CallRecords
    <3>. QED BY <3>1, <3>2, <3>3 DEF FileAt
  <2>. QED BY <2>1, <2>2
<1>g. ASSUME NEW pc, NEW parts, Goes(c, pc, parts), pc \notin {"read file", "rename"}
      PROVE  call'[c].pc \notin {"read file", "rename"}
  BY <1>0, <1>g DEF Goes, CallRecords
<1>3. CASE \/ ParseUri(c) \/ Establish(c) \/ NoAddress(c) \/ OpenStream(c) \/ RenameFile(c)
           \/ OpenTls(c) \/ OpenBuffering(c) \/ Negotiate(c) \/ Declined(c) \/ CloseAgain(c)
  <2>1. \E pc, parts : pc \notin {"read file", "rename"} /\ Goes(c, pc, parts)
    BY <1>3 DEF ParseUri, Establish, NoAddress, OpenStream, RenameFile, OpenTls,
                OpenBuffering, Negotiate, Declined, CloseAgain, FailsAtOnce, FailsOpen,
                FailsInSetup
  <2>. QED BY <1>g, <1>n, <2>1
<1>4. CASE OpenSocket(c) \/ ConnectSocket(c) \/ ConnectBreaks(c)
  <2>1. call'[c].pc \in {"connecting", "stream", "socket", "failing"}
    BY <1>0, <1>4 DEF OpenSocket, ConnectSocket, ConnectBreaks, Goes, CallRecords
  <2>. QED BY <1>n, <2>1
<1>5. CASE Handshake(c) \/ LookUp(c)
  <2>1. CASE FailsInSetup(c)
    BY <1>g, <1>n, <2>1 DEF FailsInSetup
  <2>2. CASE ~FailsInSetup(c) /\ Handshake(c)
    <3>1. PICK cert \in Certs, pc \in {"tls", "look up", "closing both"} :
            call' = [call EXCEPT ![c].cert = cert, ![c].pc = pc]
      BY <2>2 DEF Handshake
    <3>2. call'[c].pc = pc
      BY <1>0, <3>1 DEF CallRecords
    <3>. QED BY <1>n, <3>2
  <2>3. CASE ~FailsInSetup(c) /\ LookUp(c)
    <3>1. PICK stored : call' = [call EXCEPT ![c].pc = "decide", ![c].stored = stored]
      BY <2>3 DEF LookUp
    <3>2. call'[c].pc = "decide"
      BY <1>0, <3>1 DEF CallRecords
    <3>. QED BY <1>n, <3>2
  <2>. QED BY <1>5, <2>1, <2>2, <2>3
<1>6. ASSUME NEW plan \in Plans, Begin(c, plan) PROVE FileAt(c)'
  <2>1. call'[c].pc = "uri"
    BY <1>0, <1>6 DEF Begin, Idle
  <2>. QED BY <1>n, <2>1
<1>7. ASSUME NEW accepted \in BOOLEAN, Initialize(c, accepted) PROVE FileAt(c)'
  <2>1. PICK pc \in {"leaving", "closing"} :
          call' = [call EXCEPT ![c].pc = pc, ![c].held = @ \ {"password"}]
    BY <1>7 DEF Initialize
  <2>2. call'[c].pc = pc
    BY <1>0, <2>1 DEF CallRecords
  <2>. QED BY <1>n, <2>2
<1>8. CASE Return(c) \/ ReturnNull(c) \/ Close(c)
  <2>1. call'[c].pc \in {"connected", "returned"}
    BY <1>0, <1>8 DEF Return, ReturnNull, Close, CallRecords
  <2>. QED BY <1>n, <2>1
<1>9. CASE CloseStream(c)
  <2>1. PICK pc \in {"failing", "close again"} :
          \E held : call' = [call EXCEPT ![c].held = held, ![c].pc = pc]
    BY <1>9 DEF CloseStream
  <2>2. call'[c].pc = pc
    BY <1>0, <2>1 DEF CallRecords
  <2>. QED BY <1>n, <2>2
<1>10. CASE Again(c)
  BY <1>0, <1>n, <1>10 DEF Again, Idle
<1>11. CASE BeginFails(c) \/ \E list \in Lists : SetSupportedVersions(c, list)
  <2>1. call' = call
    BY <1>11 DEF BeginFails, SetSupportedVersions
  <2>. QED BY <2>1, StepOfFile, KeptGrows DEF FileAt, KnownPair, Grows, Plan
<1>. QED
  BY <1>1, <1>2, <1>3, <1>4, <1>5, <1>6, <1>7, <1>8, <1>9, <1>10, <1>11 DEF Step

LEMMA NextFile == TypeOK /\ FileOK /\ [Next]_vars => FileOK'
<1>. SUFFICES ASSUME TypeOK, FileOK, [Next]_vars PROVE FileOK'
  OBVIOUS
<1>1. CASE UNCHANGED vars
  BY <1>1 DEF FileOK, FileAt, KnownPair, At, Plan, vars
<1>2. CASE Crash
  <2>1. \A c \in Clients : call'[c].pc = "idle"
    BY <1>2 DEF Crash, Idle
  <2>. QED BY <1>2, <2>1 DEF Crash, FileOK, FileAt, At
<1>3. ASSUME NEW c \in Clients, Step(c) PROVE FileOK'
  <2>1. Grows /\ (file' = file \/ (At(c, "rename") /\ file' = call[c].temp))
    BY <1>3, StepOfFile
  <2>2. Kept(file, known)'
    <3>1. Kept(file', known)
      BY <2>1 DEF FileOK, FileAt
    <3>. QED BY <2>1, <3>1, KeptGrows
  <2>3. FileAt(c)'
    BY <1>3, StepFile DEF FileOK
  <2>4. ASSUME NEW x \in Clients \ {c} PROVE FileAt(x)'
    <3>1. call'[x] = call[x]
      BY <1>3, StepOfCall DEF CallMoves, OnlyOf
    <3>2. FileAt(x)
      BY DEF FileOK
    <3>. QED BY <2>1, <3>1, <3>2, KeptGrows DEF FileAt, KnownPair, Grows, At, Plan
  <2>. QED BY <2>2, <2>3, <2>4 DEF FileOK
<1>. QED BY <1>1, <1>2, <1>3 DEF Next

\* The file of known hosts never says of a host what was neither there at first
\* nor trusted by the user, and never loses a host, though threads replace it at
\* the same time and the process may die between any two of their steps.
THEOREM TrustKeptTheorem == Spec => []TrustKept
<1>1. TypeOK /\ FileOK => TrustKept
  <2>. SUFFICES ASSUME TypeOK, FileOK PROVE TrustKept
    OBVIOUS
  <2>0. file \in Seq(Lines) /\ Kept(file, known)
    BY DEF TypeOK, FileOK
  <2>1. ASSUME NEW i \in DOMAIN file
        PROVE  \E k \in known : k.pair = <<file[i].host, Stored(file, file[i].host)>>
    <3>. DEFINE host == file[i].host
    <3>1. i \in LinesOf(file, host)
      BY DEF LinesOf
    <3>2. PICK j \in LinesOf(file, host) : Stored(file, host) = file[j].print
      BY <2>0, <3>1, StoredInLine
    <3>3. file[j].host = host /\ file[j] \in Elements(file)
      BY DEF LinesOf, Elements
    <3>. QED BY <2>0, <3>2, <3>3 DEF Kept
  <2>2. ASSUME NEW k \in known, k.at = "start"
        PROVE  LinesOf(file, k.pair[1]) # {}
    <3>1. PICK i \in DOMAIN file : file[i].host = k.pair[1]
      BY <2>0, <2>2 DEF Kept, Elements
    <3>. QED BY <3>1 DEF LinesOf
  <2>. QED BY <2>1, <2>2 DEF TrustKept
<1>. QED BY <1>1, InitType, NextType, InitFile, NextFile, PTL DEF Spec
=============================================================================
