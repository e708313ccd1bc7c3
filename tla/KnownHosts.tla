------------------------------ MODULE KnownHosts ------------------------------
(* The file of known hosts (tofu.c) and the certificates compared with it   *)
(* (verify in openssl.c).  A line of the file has the host, the fingerprint  *)
(* and whether spaces come first; a fingerprint has its key, and the number   *)
(* of its characters, which is 127 where release 1.0.0 wrote it.              *)
EXTENDS Filters

Line(host, print, indented) == [host |-> host, print |-> print, indented |-> indented]
Fingerprint(key, chars) == [key |-> key, chars |-> chars]
NoFingerprint == Fingerprint("", 0)

\* The lines of a host.
LinesOf(file, host) == {i \in DOMAIN file : file[i].host = host}

\* retrieve_stored_fingerprint takes the first, NoFingerprint if there is none.
Stored(file, host) ==
  IF LinesOf(file, host) = {} THEN NoFingerprint
  ELSE file[CHOOSE i \in LinesOf(file, host) : \A j \in LinesOf(file, host) : i <= j].print

\* Fault: what is written is the new line alone.
UpdatedAlone(file, host, print) == <<Line(host, print, FALSE)>>

\* update_stored_fingerprint drops the lines that begin with the host, and puts
\* the new one last.
Updated(file, host, print) ==
  LET others == {line \in {file[i] : i \in DOMAIN file} : line.host # host \/ line.indented}
  IN  Append(Filter(file, others), Line(host, print, FALSE))

\* A stored fingerprint that only lacks the last character is replaced.
Truncated(stored, print) ==
  stored.key = print.key /\ stored.chars = 127 /\ print.chars = 128

\* verify: what becomes of a certificate: it is "verified" by an authority, its
\* fingerprint is looked up, or it is refused.
UnknownIssuer == {"self signed", "no issuer"}
Statuses == UnknownIssuer \cup {"ok", "expired"}
Matches == {"match", "mismatch", "malformed"}
HostnameResult(cert) ==
  CASE cert.names = "malformed" -> -1 [] cert.names = "match" -> 0 [] OTHER -> 1
Verdict(cert, trustKnown) ==
  IF cert.status = "ok" /\ HostnameResult(cert) = 0 THEN "verified"
  ELSE IF /\ cert.status \in UnknownIssuer \cup {"ok"} /\ trustKnown
          /\ ~(cert.status = "ok" /\ HostnameResult(cert) < 0)
       THEN "look up"
  ELSE "refused"

\* Fault: a host the user does not accept is taken like one he accepts once.
DecideLoosely(stored, print, asked, answer) ==
  IF stored = print THEN "accept"
  ELSE IF Truncated(stored, print) \/ (asked /\ answer = "trust") THEN "update"
  ELSE IF asked THEN "accept" ELSE "refuse"

\* neo4j_check_known_hosts: `asked' is whether there is a callback.
Decide(stored, print, asked, answer) ==
  IF stored = print THEN "accept"
  ELSE IF Truncated(stored, print) \/ (asked /\ answer = "trust") THEN "update"
  ELSE IF asked /\ answer = "accept once" THEN "accept" ELSE "refuse"
=============================================================================
