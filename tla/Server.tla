------------------------------- MODULE Server -------------------------------
(***************************************************************************)
(* The life of the mmapi process under systemd: main of cmd/mmapi/main.go   *)
(* loads and validates the configuration (internal/config/config.go), makes *)
(* a self-signed certificate when there is none (ensureTLSCerts), listens   *)
(* and serves until it is stopped; deploy/mmapi.service starts it again     *)
(* whenever it exits.                                                       *)
(*                                                                         *)
(* The certificate and its key are two files written one after the other.   *)
(* A generated pair carries a serial that tells it from other pairs.        *)
(***************************************************************************)
EXTENDS Naturals

CONSTANTS
  ConfigFile,  \* what the operator may leave in config.json
  Provided,    \* the <<certificate, key>> an operator may have put in place
  MaxMishap    \* bound on the crashes and failing operations of a behaviour

\* A field as Validate sees it: set to something, blank, or still CHANGE_ME;
\* guiUrl besides may be set to no absolute http or https URL.
Value == {"set", "blank", "placeholder"}
Config ==
  [file : {"missing", "malformed", "parses"}, tls : BOOLEAN,
   guiUrl : Value \cup {"relative"}, guiUsername : Value, guiPassword : Value,
   adminToken : Value, knownFeatures : BOOLEAN]

\* No file, and no configuration loaded.
Blank ==
  [file |-> "missing", tls |-> TRUE, guiUrl |-> "blank", guiUsername |-> "blank",
   guiPassword |-> "blank", adminToken |-> "blank", knownFeatures |-> TRUE]

Absent == "absent"    \* no such file
Torn == "torn"        \* created or truncated, not written
Own == "own"          \* the operator's own
Serial == {"1", "2", "3"}
Content == {Absent, Torn, Own} \cup Serial

ASSUME ServerAssumption ==
  /\ ConfigFile \subseteq Config
  /\ Provided \subseteq {Absent, Own} \X {Absent, Own}
  /\ MaxMishap \in Nat

VARIABLES
  confFile,  \* config.json now
  conf,      \* the configuration the process has loaded
  pc,        \* where the process is
  serial,    \* the pair it is generating
  cert,      \* certFile
  key,       \* keyFile
  mishaps    \* crashes and failed operations so far

vars == <<confFile, conf, pc, serial, cert, key, mishaps>>

Control ==
  {"down", "load", "stat", "openCert", "writeCert", "openKey", "writeKey",
   "listen", "serving"}

TypeOK ==
  /\ confFile \in ConfigFile
  /\ conf \in Config
  /\ pc \in Control
  /\ serial \in Serial \cup {Absent}
  /\ cert \in Content
  /\ key \in Content
  /\ mishaps \in 0..MaxMishap

Init ==
  /\ confFile \in ConfigFile
  /\ conf = Blank
  /\ pc = "down"
  /\ serial = Absent
  /\ \E pair \in Provided : cert = pair[1] /\ key = pair[2]
  /\ mishaps = 0

-----------------------------------------------------------------------------
\* An absolute URL, no unknown feature, and no mandatory field left out or
\* left as the sample ships it.
Validate(c) ==
  /\ c.guiUrl \notin {"blank", "relative"}
  /\ c.knownFeatures
  /\ \A v \in {c.guiUrl, c.guiUsername, c.guiPassword, c.adminToken} :
       v \notin {"blank", "placeholder"}

Loads(c) == c.file = "parses" /\ Validate(c)

Exit == pc' = "down" /\ conf' = Blank /\ serial' = Absent

\* The process ends before its time; the files stay as they are.
Mishap ==
  /\ mishaps < MaxMishap
  /\ mishaps' = mishaps + 1
  /\ Exit
  /\ UNCHANGED <<confFile, cert, key>>

\* Restart=always.
Start ==
  /\ pc = "down"
  /\ pc' = "load"
  /\ UNCHANGED <<confFile, conf, serial, cert, key, mishaps>>

Load ==
  /\ pc = "load"
  /\ IF Loads(confFile)
     THEN /\ conf' = confFile
          /\ pc' = IF confFile.tls THEN "stat" ELSE "listen"
          /\ UNCHANGED serial
     ELSE Exit
  /\ UNCHANGED <<confFile, cert, key, mishaps>>

\* Mutants of HaveCert: every start generates a pair; none does.
HaveCertNever == FALSE
HaveCertAssumed == TRUE

\* os.Stat(certFile): a certificate that is there is used as it is.
HaveCert == cert # Absent

Stat ==
  /\ pc = "stat"
  /\ IF HaveCert
     THEN pc' = "listen" /\ UNCHANGED serial
     ELSE /\ pc' = "openCert"
          /\ serial' = CHOOSE n \in Serial : n \notin {cert, key}
  /\ UNCHANGED <<confFile, conf, cert, key, mishaps>>

\* O_CREATE|O_TRUNC, then the PEM block and Close: first the certificate,
\* then the key.
OpenCert ==
  /\ pc = "openCert"
  /\ cert' = Torn
  /\ pc' = "writeCert"
  /\ UNCHANGED <<confFile, conf, serial, key, mishaps>>

WriteCert ==
  /\ pc = "writeCert"
  /\ cert' = serial
  /\ pc' = "openKey"
  /\ UNCHANGED <<confFile, conf, serial, key, mishaps>>

\* Mutant of OpenKey: a key that is there is kept.
OpenKeyUnlessThere ==
  /\ pc = "openKey"
  /\ IF key = Absent THEN key' = Torn /\ pc' = "writeKey" ELSE pc' = "listen" /\ UNCHANGED key
  /\ UNCHANGED <<confFile, conf, serial, cert, mishaps>>

OpenKey ==
  /\ pc = "openKey"
  /\ key' = Torn
  /\ pc' = "writeKey"
  /\ UNCHANGED <<confFile, conf, serial, cert, mishaps>>

WriteKey ==
  /\ pc = "writeKey"
  /\ key' = serial
  /\ pc' = "listen"
  /\ UNCHANGED <<confFile, conf, serial, cert, mishaps>>

\* A file operation of ensureTLSCerts fails and the process exits.
GenerateFails ==
  /\ pc \in {"openCert", "writeCert", "openKey", "writeKey"}
  /\ Mishap

\* ListenAndServeTLS loads a certificate and the key that belongs to it.
Usable == cert = key /\ cert \notin {Absent, Torn}

Listen ==
  /\ pc = "listen"
  /\ IF conf.tls => Usable
     THEN pc' = "serving" /\ UNCHANGED <<conf, serial>>
     ELSE Exit
  /\ UNCHANGED <<confFile, cert, key, mishaps>>

\* The port is taken.
ListenFails ==
  /\ pc = "listen"
  /\ Mishap

\* The process is stopped or dies, at any point.
Crash ==
  /\ pc # "down"
  /\ Mishap

\* The operator edits config.json; a running process does not notice.
Edit ==
  /\ confFile' \in ConfigFile \ {confFile}
  /\ UNCHANGED <<conf, pc, serial, cert, key, mishaps>>

-----------------------------------------------------------------------------
Startup ==
  Start \/ Load \/ Stat \/ OpenCert \/ WriteCert \/ OpenKey \/ WriteKey \/ Listen

Next == Startup \/ GenerateFails \/ ListenFails \/ Crash \/ Edit

Spec == Init /\ [][Next]_vars

\* systemd restarts an exited process (RestartSec=5 stays below its start
\* limit), and a process that starts up takes its next step.
FairSpec == Spec /\ WF_vars(Startup)

-----------------------------------------------------------------------------
(* Properties *)

\* A certificate and its key, once they are there, are never replaced, whoever
\* made them: no restart, failed start or crash changes a pair, so clients that
\* have seen the certificate keep seeing it (main.go:179-181).
PairStays == [][Usable => UNCHANGED <<cert, key>>]_vars

\* A start meets a certificate that is no pair with its key.
HalfPair == pc \in {"down", "load", "stat", "listen"} /\ cert # Absent /\ ~Usable

\* Half a pair has a cause: the operator put a certificate there without its
\* key, or a start was cut off or failed.  A start that runs to its end leaves
\* a pair, also where it found a key (main.go:199-228).
HalfPairHasCause == HalfPair => cert = Own \/ mishaps > 0

\* If config.json stays usable from some point on, the service comes up and
\* stays up, whatever failed or was cut off before, unless that has left half
\* a pair behind.
ComesUp == <>[]Loads(confFile) => <>[](pc = "serving") \/ []<>HalfPair

-----------------------------------------------------------------------------
(* What the documentation says and the code does not do; see README.md. *)

\* certFile and keyFile are "auto-generated if unset" (README.md:71-72) and the
\* service is restarted always: once config.json stays usable it comes up.
AlwaysComesUp == <>[]Loads(confFile) => <>[](pc = "serving")
=============================================================================
