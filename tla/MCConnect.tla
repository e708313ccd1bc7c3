------------------------------ MODULE MCConnect ------------------------------
(* Values of the constants of Connect for TLC.                              *)
EXTENDS Connect, TLC

MCSymmetry == Permutations(Clients)

A == Fingerprint("a", 128)
B == Fingerprint("b", 128)
OldA == Fingerprint("a", 127)

MCPlan(uri, host, secure, trustKnown, asks, buffered, credentials) ==
  [uri |-> uri, host |-> host, secure |-> secure, trustKnown |-> trustKnown,
   asks |-> asks, buffered |-> buffered, credentials |-> credentials]
MCPlans ==
  {MCPlan("ok", "h", TRUE, TRUE, TRUE, TRUE, TRUE),
   MCPlan("ok", "g", TRUE, TRUE, FALSE, FALSE, FALSE),
   MCPlan("ok", "h", TRUE, FALSE, FALSE, FALSE, TRUE),
   MCPlan("malformed", "h", FALSE, TRUE, TRUE, FALSE, TRUE),
   MCPlan("scheme", "h", FALSE, TRUE, TRUE, FALSE, TRUE)}

MCCert(print, status, names) == [print |-> print, status |-> status, names |-> names]
MCCerts ==
  {MCCert(A, "self signed", "match"), MCCert(B, "ok", "match"),
   MCCert(B, "ok", "mismatch"), MCCert(B, "expired", "malformed")}

MCFiles ==
  {<<>>, <<Line("h", OldA, FALSE), Line("#", NoFingerprint, FALSE), Line("h", B, TRUE),
           Line("g", B, FALSE)>>}

MCHosts == {"h", "g", "#"}
MCKeys == {"a", "b"}

MCLists == {<< <<<<4, 4>>, <<4, 2>>>>, <<<<3>>, <<>>>> >>}
MCSpeaks == {<<5, 0>>, <<4, 3>>}
=============================================================================
