------------------------------- MODULE Connect -------------------------------
(* neo4j_connect of several threads that share the descriptors of their      *)
(* process and the file of known hosts: the configuration is duplicated, a   *)
(* socket connected, TLS set up and the host verified, a version agreed on    *)
(* and the session initialized; whichever of it fails, the rest is undone.    *)
(* Each thread has a configuration of its own, but for the versions.          *)
EXTENDS KnownHosts, Versions, FiniteSets

CONSTANTS Clients,     \* the threads
          Plans,       \* what a call of neo4j_connect is given
          Certs,       \* the certificates servers present
          Hosts,       \* their names, and the first words of other lines
          Keys,        \* of their fingerprints
          Files,       \* the file of known hosts at first
          Speaks,      \* the versions a server speaks
          Lists,       \* what neo4j_config_set_supported_versions is given
          Descriptors, \* of the process
          Calls,       \* bound on the calls of all threads
          Crashes      \* bound on crashes of the process

None == "none"
Leaked == "leaked"
NoDescriptor == 0
Uris == {"ok", "malformed", "scheme"}
Fingerprints == [key : Keys \cup {""}, chars : Nat]
Lines == [host : Hosts, print : Fingerprints, indented : BOOLEAN]

ASSUME ConnectAssumption ==
  /\ {None, Leaked} \cap Clients = {} /\ Calls \in Nat /\ Crashes \in Nat
  /\ Descriptors \subseteq Nat \ {NoDescriptor}
  /\ Plans \subseteq [uri : Uris, host : Hosts, secure : BOOLEAN, trustKnown : BOOLEAN,
                     asks : BOOLEAN, buffered : BOOLEAN, credentials : BOOLEAN]
  /\ Certs \subseteq [print : Fingerprints, status : Statuses, names : Matches]
  /\ Files \subseteq Seq(Lines)

VARIABLES
  file,      \* of known hosts
  fds,       \* the thread that opened a descriptor, Leaked or None
  versions,  \* the array all configurations point to
  call,      \* what each thread is doing
  config,    \* whether the configuration of a thread is "intact"
  known,     \* the fingerprints that were in the file or trusted by the user
  calls,     \* made so far
  crashes

vars == <<file, fds, versions, call, config, known, calls, crashes>>

\* What a call holds besides its descriptor.
Parts == {"config", "uri", "connection", "buffers", "posix", "tls", "buffering", "password"}

NoPlan == [uri |-> "ok", host |-> None, secure |-> FALSE, trustKnown |-> FALSE,
           asks |-> FALSE, buffered |-> FALSE, credentials |-> FALSE]
NoCert == [print |-> NoFingerprint, status |-> None, names |-> None]
Idle ==
  [pc |-> "idle", plan |-> NoPlan, held |-> {}, fd |-> NoDescriptor,
   cert |-> NoCert, stored |-> NoFingerprint, answer |-> None, temp |-> <<>>]

Pairs(lines) == {<<lines[i].host, lines[i].print>> : i \in DOMAIN lines}

Init ==
  /\ file \in Files /\ known = [at : {"start"}, pair : Pairs(file)]
  /\ fds = [d \in Descriptors |-> None]
  /\ versions = DefaultVersions
  /\ call = [c \in Clients |-> Idle]
  /\ config = [c \in Clients |-> "intact"]
  /\ calls = 0 /\ crashes = 0

At(c, pc) == call[c].pc = pc
Plan(c) == call[c].plan
Holds(c, part) == part \in call[c].held
Goes(c, pc, parts) ==
  call' = [call EXCEPT ![c].pc = pc, ![c].held = @ \cup parts]
Others == <<file, fds, versions, config, known, calls, crashes>>

\* The three ways in which a call fails: nothing of the connection is there,
\* the stream is closed once, or (std_tcp_connect) it and its descriptor are.
FailsAtOnce(c) == Goes(c, "failing", {})
FailsOpen(c) == Goes(c, "closing", {})
FailsInSetup(c) == Goes(c, "closing both", {})
-----------------------------------------------------------------------------
(* Configurations.                                                          *)

\* neo4j_config_set_supported_versions, while other threads may be connecting.
SetSupportedVersions(c, list) ==
  /\ At(c, "idle")
  /\ versions' = SetVersions(versions, list)
  /\ UNCHANGED <<file, fds, call, config, known, calls, crashes>>

\* neo4j_connect duplicates the configuration; its password is copied with it.
Begin(c, plan) ==
  /\ At(c, "idle") /\ config[c] = "intact"
  /\ calls < Calls /\ calls' = calls + 1
  /\ call' = [call EXCEPT ![c] =
       [Idle EXCEPT
          !.pc = "uri", !.plan = plan,
          !.held = {"config"} \cup IF plan.credentials THEN {"password"} ELSE {}]]
  /\ UNCHANGED <<file, fds, versions, config, known, crashes>>

\* When a string cannot be duplicated, neo4j_config_dup frees the duplicate,
\* which still points to the strings of the original.
BeginFails(c) ==
  /\ At(c, "idle") /\ config[c] = "intact"
  /\ calls < Calls /\ calls' = calls + 1
  /\ config' = [config EXCEPT ![c] = "freed"]
  /\ UNCHANGED <<file, fds, versions, call, known, crashes>>

\* The scheme may not be supported, or add_userinfo_to_config fail.
ParseUri(c) ==
  /\ At(c, "uri")
  /\ IF Plan(c).uri = "malformed" THEN FailsAtOnce(c)
     ELSE \/ Goes(c, "failing", {"uri"})
          \/ Plan(c).uri = "ok" /\ Goes(c, "establish", {"uri"})
  /\ UNCHANGED Others

\* establish_connection
Establish(c) ==
  /\ At(c, "establish")
  /\ \/ Goes(c, "socket", {"connection", "buffers"})
     \/ FailsAtOnce(c)
  /\ UNCHANGED Others
-----------------------------------------------------------------------------
(* The socket: the addresses of the host are tried one after the other.     *)

FreeDescriptors == {d \in Descriptors : fds[d] = None}

\* socket, for some address: the lowest descriptor that is free.
OpenSocket(c) ==
  /\ At(c, "socket") /\ FreeDescriptors # {}
  /\ LET d == CHOOSE x \in FreeDescriptors : \A y \in FreeDescriptors : x <= y
     IN  /\ fds' = [fds EXCEPT ![d] = c]
         /\ call' = [call EXCEPT ![c].pc = "connecting", ![c].fd = d]
  /\ UNCHANGED <<file, versions, config, known, calls, crashes>>

\* No (more) address, or one of a family that is not supported.
NoAddress(c) == At(c, "socket") /\ FailsAtOnce(c) /\ UNCHANGED Others

Closed(d) == IF d = NoDescriptor THEN fds ELSE [fds EXCEPT ![d] = None]

\* connect_with_timeout, or the next address.
ConnectSocket(c) ==
  /\ At(c, "connecting")
  /\ \/ Goes(c, "stream", {}) /\ fds' = fds
     \/ /\ fds' = Closed(call[c].fd)
        /\ call' = [call EXCEPT ![c].pc = "socket", ![c].fd = NoDescriptor]
  /\ UNCHANGED <<file, versions, config, known, calls, crashes>>

\* The address has no number, or select or fcntl fails: the descriptor stays open.
ConnectBreaks(c) ==
  /\ At(c, "connecting")
  /\ fds' = [fds EXCEPT ![call[c].fd] = Leaked]
  /\ call' = [call EXCEPT ![c].pc = "failing", ![c].fd = NoDescriptor]
  /\ UNCHANGED <<file, versions, config, known, calls, crashes>>

\* neo4j_posix_iostream
OpenStream(c) ==
  /\ At(c, "stream")
  /\ \/ Goes(c, IF Plan(c).secure THEN "handshake" ELSE "buffer", {"posix"})
     \/ FailsInSetup(c)
  /\ UNCHANGED Others
-----------------------------------------------------------------------------
(* TLS.                                                                     *)

\* The keys cannot be read, the server does not speak TLS, or its certificate
\* is refused as it is.
Handshake(c) ==
  /\ At(c, "handshake")
  /\ \/ FailsInSetup(c)
     \/ \E cert \in Certs :
          LET next == Verdict(cert, Plan(c).trustKnown)
          IN  call' = [call EXCEPT ![c].cert = cert,
                         ![c].pc = CASE next = "verified" -> "tls"
                                     [] next = "look up" -> "look up"
                                     [] OTHER -> "closing both"]
  /\ UNCHANGED Others

\* retrieve_stored_fingerprint; of a file that cannot be read nothing is known.
LookUp(c) ==
  /\ At(c, "look up")
  /\ \/ \E stored \in {Stored(file, Plan(c).host), NoFingerprint} :
          call' = [call EXCEPT ![c].pc = "decide", ![c].stored = stored]
     \/ FailsInSetup(c)
  /\ UNCHANGED Others

\* neo4j_check_known_hosts, with the answer of unverified_host_callback.
DecideHost(c, answer) ==
  /\ At(c, "decide")
  /\ LET print == call[c].cert.print
         next == Decide(call[c].stored, print, Plan(c).asks, answer)
     IN  /\ call' = [call EXCEPT ![c].answer = answer,
                       ![c].pc = CASE next = "accept" -> "tls"
                                   [] next = "update" -> "read file"
                                   [] OTHER -> "closing both"]
         /\ known' = IF next = "update"
                     THEN known \cup {[at |-> "trust", pair |-> <<Plan(c).host, print>>]}
                     ELSE known
  /\ UNCHANGED <<file, fds, versions, config, calls, crashes>>

\* update_stored_fingerprint: the new file is written beside the old one.
ReadFile(c) ==
  /\ At(c, "read file")
  /\ \/ call' = [call EXCEPT ![c].pc = "rename",
                             ![c].temp = Updated(file, Plan(c).host, call[c].cert.print)]
     \/ FailsInSetup(c)
  /\ UNCHANGED Others

\* rename
RenameFile(c) ==
  /\ At(c, "rename")
  /\ \/ file' = call[c].temp /\ Goes(c, "tls", {})
     \/ file' = file /\ FailsInSetup(c)
  /\ UNCHANGED <<fds, versions, config, known, calls, crashes>>

\* neo4j_openssl_iostream
OpenTls(c) ==
  /\ At(c, "tls")
  /\ Goes(c, "buffer", {"tls"}) \/ FailsInSetup(c)
  /\ UNCHANGED Others
-----------------------------------------------------------------------------
(* Negotiation and initialization.                                          *)

OpenBuffering(c) ==
  /\ At(c, "buffer")
  /\ IF Plan(c).buffered THEN Goes(c, "negotiate", {"buffering"}) \/ FailsInSetup(c)
     ELSE Goes(c, "negotiate", {})
  /\ UNCHANGED Others

\* negotiate_protocol_version, unless the server ends the stream.
Negotiate(c) ==
  /\ At(c, "negotiate")
  /\ \/ LET v == Taken(Agreed(versions, Speaks))
        IN  Goes(c, IF Accepted(v) THEN "initialize" ELSE "closing", {})
     \/ FailsOpen(c)
  /\ UNCHANGED Others

\* initialize: basic_auth_callback may decline; else the server answers INIT or
\* HELLO with SUCCESS, or with a failure or something else, or not at all.  At
\* its end the password is cleared out of the duplicate.
Declined(c) ==
  /\ At(c, "initialize") /\ ~Plan(c).credentials
  /\ FailsOpen(c)
  /\ UNCHANGED Others
Initialize(c, accepted) ==
  /\ At(c, "initialize")
  /\ call' = [call EXCEPT ![c].pc = IF accepted THEN "leaving" ELSE "closing",
                          ![c].held = @ \ {"password"}]
  /\ UNCHANGED Others

\* neo4j_connect returns a connection, and no longer needs the URI.
Return(c) ==
  /\ At(c, "leaving")
  /\ call' = [call EXCEPT ![c].pc = "connected", ![c].held = @ \ {"uri"}]
  /\ UNCHANGED Others
-----------------------------------------------------------------------------
(* Cleanup.                                                                 *)

Streams == {"posix", "tls", "buffering"}

\* Fault: only the outermost stream is closed.
StreamsOutermost(held) ==
  IF "buffering" \in held THEN {"buffering"} ELSE IF "tls" \in held THEN {"tls"} ELSE {"posix"}

\* neo4j_ios_close of a stream closes those it delegates to.
StreamsClosed(held) == Streams

\* neo4j_ios_close: the descriptor is closed with the posix stream.
CloseStream(c) ==
  /\ call[c].pc \in {"closing", "closing both"}
  /\ fds' = IF Holds(c, "posix") THEN Closed(call[c].fd) ELSE fds
  /\ call' = [call EXCEPT ![c].held = @ \ StreamsClosed(@),
                          ![c].pc = IF @ = "closing" THEN "failing" ELSE "close again"]
  /\ UNCHANGED <<file, versions, config, known, calls, crashes>>

\* std_tcp_connect also closes the descriptor.
CloseAgain(c) ==
  /\ At(c, "close again")
  /\ fds' = Closed(call[c].fd)
  /\ Goes(c, "failing", {})
  /\ UNCHANGED <<file, versions, config, known, calls, crashes>>

\* The failure labels of establish_connection and of neo4j_connect, or
\* neo4j_close of the connection: NULL is returned.
ReturnNull(c) ==
  /\ At(c, "failing")
  /\ call' = [call EXCEPT ![c].pc = "returned", ![c].fd = NoDescriptor,
       ![c].held = @ \ {"connection", "buffers", "uri", "config", "password"}]
  /\ UNCHANGED Others

\* neo4j_close
Close(c) ==
  /\ At(c, "connected")
  /\ fds' = Closed(call[c].fd)
  /\ call' = [call EXCEPT ![c].pc = "returned", ![c].fd = NoDescriptor, ![c].held = {}]
  /\ UNCHANGED <<file, versions, config, known, calls, crashes>>

\* The thread may connect again.
Again(c) ==
  /\ At(c, "returned") /\ calls < Calls
  /\ call' = [call EXCEPT ![c] = Idle]
  /\ UNCHANGED Others

\* The process dies; only the file is left.
Crash ==
  /\ crashes < Crashes /\ crashes' = crashes + 1
  /\ call' = [c \in Clients |-> Idle]
  /\ fds' = [d \in Descriptors |-> None]
  /\ versions' = DefaultVersions /\ config' = [c \in Clients |-> "intact"]
  /\ UNCHANGED <<file, known, calls>>

Answers == {"trust", "accept once", "reject"}
Step(c) ==
  \/ \E list \in Lists : SetSupportedVersions(c, list)
  \/ \E plan \in Plans : Begin(c, plan)
  \/ BeginFails(c) \/ ParseUri(c) \/ Establish(c)
  \/ OpenSocket(c) \/ NoAddress(c) \/ ConnectSocket(c) \/ ConnectBreaks(c) \/ OpenStream(c)
  \/ Handshake(c) \/ LookUp(c) \/ (\E a \in Answers : DecideHost(c, a))
  \/ ReadFile(c) \/ RenameFile(c) \/ OpenTls(c) \/ OpenBuffering(c) \/ Negotiate(c)
  \/ Declined(c) \/ (\E accepted \in BOOLEAN : Initialize(c, accepted)) \/ Return(c)
  \/ CloseStream(c) \/ CloseAgain(c) \/ ReturnNull(c) \/ Close(c) \/ Again(c)

Next == (\E c \in Clients : Step(c)) \/ Crash

Spec == Init /\ [][Next]_vars
-----------------------------------------------------------------------------
Connected(c) == At(c, "connected")

\* Whatever fails, a call of neo4j_connect that returns NULL has released all it
\* acquired (but for the descriptor of a socket that broke: see ConnectBreaks);
\* one that returns a connection keeps just what the connection needs, and no
\* password.
NothingLeaks ==
  \A c \in Clients :
    /\ At(c, "returned") => call[c].held = {} /\ \A d \in Descriptors : fds[d] # c
    /\ Connected(c) =>
         call[c].held = {"config", "connection", "buffers", "posix"}
                          \cup (IF Plan(c).secure THEN {"tls"} ELSE {})
                          \cup (IF Plan(c).buffered THEN {"buffering"} ELSE {})

\* A secure connection is only returned when the certificate was verified for
\* the host, its fingerprint was on record when it was looked up, or the user
\* accepted it.
OnlyVerified ==
  \A c \in Clients :
    Connected(c) /\ Plan(c).secure =>
      LET cert == call[c].cert
      IN  \/ cert.status = "ok" /\ cert.names = "match"
          \/ /\ Plan(c).trustKnown /\ cert.status \in UnknownIssuer \cup {"ok"}
             /\ \/ call[c].stored = cert.print \/ Truncated(call[c].stored, cert.print)
                \/ Plan(c).asks /\ call[c].answer \in {"trust", "accept once"}

\* Whenever a thread stops or the process dies, and whoever updates the file at
\* the same time: what the file says of a host was there at first or trusted by
\* the user, and no host that was there at first is missing.
TrustKept ==
  /\ \A i \in DOMAIN file :
       \E k \in known : k.pair = <<file[i].host, Stored(file, file[i].host)>>
  /\ \A k \in known : k.at = "start" => LinesOf(file, k.pair[1]) # {}

\* (Not so, as closing a descriptor twice may close that of another thread.)
StaysOpen == \A c \in Clients : Connected(c) => fds[call[c].fd] = c

\* (Not so, after neo4j_config_dup could not copy a string.)
ConfigKept == \A c \in Clients : config[c] = "intact"
=============================================================================
