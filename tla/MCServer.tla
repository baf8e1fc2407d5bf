------------------------------ MODULE MCServer ------------------------------
(* Server for TLC: the usable configurations with and without TLS, and one    *)
(* configuration for each way Load can refuse the file.                       *)
EXTENDS Server

Good == [file |-> "parses", tls |-> TRUE, guiUrl |-> "set", guiUsername |-> "set",
         guiPassword |-> "set", adminToken |-> "set", knownFeatures |-> TRUE]

MCConfigFile ==
  {Good, [Good EXCEPT !.tls = FALSE], [Good EXCEPT !.guiUrl = "relative"],
   [Good EXCEPT !.guiPassword = "placeholder"], [Good EXCEPT !.adminToken = "blank"],
   [Good EXCEPT !.knownFeatures = FALSE], Blank,
   [Blank EXCEPT !.file = "malformed"]}

TlsOnly == {Good, [Good EXCEPT !.adminToken = "blank"], Blank}

Nothing == {<<Absent, Absent>>}
Anything == {Absent, Own} \X {Absent, Own}
=============================================================================
