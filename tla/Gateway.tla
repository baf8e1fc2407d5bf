------------------------------ MODULE Gateway -------------------------------
(***************************************************************************)
(* The gateway: requests proxied to the GPFS GUI (ServeHTTP of              *)
(* internal/proxy/proxy.go) beside the management requests that create and  *)
(* delete tokens, on one token store, across crashes and restarts.          *)
(*                                                                         *)
(* authenticate reads the map under mu and hands on a pointer to the token. *)
(* What follows up to the forwarding reads only that immutable token and    *)
(* the configuration, so it is one step; a delete, a save or a crash can    *)
(* fall before it, between it and the GUI, and after it.                    *)
(***************************************************************************)
EXTENDS TokenStore, Policy

CONSTANTS
  Conn,           \* goroutines serving proxied requests
  Request,        \* the requests tenants send: [method, path]
  NoRequest,      \* an idle goroutine serves none
  AllowFeatures,  \* cfg.AllowFeatures
  AllowedFS,      \* the filesystems each token is created for
  GuiTarget       \* the filesystem the GUI acts on, "" when none

ASSUME RequestAssumption == NoRequest \notin Request
ASSUME GatewayAssumption ==
  /\ AllowFeatures \subseteq Feature
  /\ DOMAIN AllowedFS = Token
  /\ DOMAIN GuiTarget = Request

\* The GUI is trusted with paths it need not resolve: without empty and dot
\* segments it acts on the filesystem the path names.
ASSUME GuiAssumption ==
  \A x \in Request :
    x.path.root = "v2" /\ (\A i \in DOMAIN x.path.segs : x.path.segs[i] \notin Unresolved)
      => GuiTarget[x] = extractFS(x.path)

VARIABLES
  stage,    \* where each proxied request is
  req,      \* the request
  secret,   \* the token whose secret it presents, NoToken for no known one
  status    \* the status it is answered with

\* What an observer of the answers knows when the request is sent.
VARIABLE late  \* the requests whose token's delete had been answered 204

proxied == <<stage, req, secret, status, late>>
gatewayVars == <<vars, proxied>>

Stage == {"idle", "arrived", "upstream", "reply"}
HttpStatus ==
  {"none", "answered", "redirected", "unauthorized", "forbidden", "notFound", "badGateway"}

GatewayTypeOK ==
  /\ TypeOK
  /\ stage \in [Conn -> Stage]
  /\ req \in [Conn -> Request \cup {NoRequest}]
  /\ secret \in [Conn -> Token \cup {NoToken}]
  /\ status \in [Conn -> HttpStatus]
  /\ late \in SUBSET Conn

GatewayInit ==
  /\ Init
  /\ stage = [q \in Conn |-> "idle"]
  /\ req = [q \in Conn |-> NoRequest]
  /\ secret = [q \in Conn |-> NoToken]
  /\ status = [q \in Conn |-> "none"]
  /\ late = {}

-----------------------------------------------------------------------------
\* A tenant learns a secret from the answer of a create, and from nothing else.
Arrive(q) ==
  /\ up
  /\ stage[q] = "idle"
  /\ \E x \in Request, s \in answered["created"] \cup {NoToken} :
       /\ req' = [req EXCEPT ![q] = x]
       /\ secret' = [secret EXCEPT ![q] = s]
       /\ late' = IF s \in answered["deleted"] THEN late \cup {q} ELSE late \ {q}
  /\ stage' = [stage EXCEPT ![q] = "arrived"]
  /\ UNCHANGED <<vars, status>>

\* The multiplexer redirects a path with an empty or dotted segment to the clean
\* one, before ServeHTTP sees it; one that is percent-encoded it lets through.
Redirect(q) ==
  /\ up
  /\ stage[q] = "arrived"
  /\ \E i \in DOMAIN req[q].path.segs : req[q].path.segs[i] \in Unresolved
  /\ status' = [status EXCEPT ![q] = "redirected"]
  /\ stage' = [stage EXCEPT ![q] = "reply"]
  /\ UNCHANGED <<vars, req, secret, late>>

\* Mutant of Validate: tokens once seen are cached.
ValidateCached(s) == s \in minted

\* authenticate: the token is in the map.
Validate(s) == s \in mem

CheckAccess(s, f) == f \in AllowedFS[s]

\* The status ServeHTTP refuses a request with: 404, 401, 403; "none" when it
\* forwards it.
Refusal(x, s) ==
  IF x.path.root = "other" THEN "notFound"
  ELSE IF ~Validate(s) THEN "unauthorized"
  ELSE IF ~allows(AllowFeatures, x.method, x.path) THEN "forbidden"
  ELSE IF extractFS(x.path) # "" /\ ~CheckAccess(s, extractFS(x.path)) THEN "forbidden"
  ELSE "none"

\* ServeHTTP up to proxy.ServeHTTP.
Check(q) ==
  /\ up
  /\ stage[q] = "arrived"
  /\ status' = [status EXCEPT ![q] = Refusal(req[q], secret[q])]
  /\ stage' = [stage EXCEPT ![q] = IF Refusal(req[q], secret[q]) = "none"
                                   THEN "upstream" ELSE "reply"]
  /\ UNCHANGED <<vars, req, secret, late>>

\* The GUI answers, or the transport fails and ErrorHandler answers 502.
Upstream(q) ==
  /\ up
  /\ stage[q] = "upstream"
  /\ \E s \in {"answered", "badGateway"} : status' = [status EXCEPT ![q] = s]
  /\ stage' = [stage EXCEPT ![q] = "reply"]
  /\ UNCHANGED <<vars, req, secret, late>>

Forget(q) ==
  /\ stage' = [stage EXCEPT ![q] = "idle"]
  /\ req' = [req EXCEPT ![q] = NoRequest]
  /\ secret' = [secret EXCEPT ![q] = NoToken]
  /\ status' = [status EXCEPT ![q] = "none"]
  /\ late' = late \ {q}

Respond(q) ==
  /\ up
  /\ stage[q] = "reply"
  /\ Forget(q)
  /\ UNCHANGED vars

\* The process dies with every request it serves; what the GUI was sent it
\* may have done.
GatewayCrash ==
  /\ Crash
  /\ stage' = [q \in Conn |-> "idle"]
  /\ req' = [q \in Conn |-> NoRequest]
  /\ secret' = [q \in Conn |-> NoToken]
  /\ status' = [q \in Conn |-> "none"]
  /\ late' = {}

Management ==
  /\ \/ \E p \in Proc : Create(p) \/ Delete(p) \/ Save(p) \/ Reply(p)
     \/ Boot
  /\ UNCHANGED proxied

GatewayNext ==
  \/ Management
  \/ GatewayCrash
  \/ \E q \in Conn : Arrive(q) \/ Redirect(q) \/ Check(q) \/ Upstream(q) \/ Respond(q)

GatewaySpec == GatewayInit /\ [][GatewayNext]_gatewayVars

-----------------------------------------------------------------------------
(* Properties *)

\* Once the delete of a token has been answered 204, no request that presents
\* its secret from then on reaches the GUI, over restarts and whatever saves
\* were under way (proxy.go:67-71, token.go:96-98).
RevokedThenRefused == \A q \in Conn : stage[q] = "upstream" => q \notin late

\* A secret the API has given out is answered 401 only when a delete has
\* removed its token or a start could not read the file that held it: nothing
\* else about a restart, and no concurrent request of another tenant, makes
\* the gateway forget it.
LiveTokenAccepted ==
  \A q \in Conn :
    stage[q] = "reply" /\ status[q] = "unauthorized" /\ secret[q] # NoToken =>
      secret[q] \in revoked \cup forgotten

\* What reaches the GUI acts on a filesystem its token was created for, or on
\* none, whatever shape the path has (policy.go:118-121, README.md:127).
ActsOnOwnFilesystem ==
  \A q \in Conn :
    stage[q] = "upstream" =>
      /\ secret[q] \in Token
      /\ GuiTarget[req[q]] \in AllowedFS[secret[q]] \cup {""}
=============================================================================
