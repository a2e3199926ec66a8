----------------------------- MODULE KVPChannel -----------------------------
(***************************************************************************)
(* The KVP channel of one guest as driven by kvpd (src/kvpservice/kvpd.py) *)
(*                                                                         *)
(*  - the HTTP front end RequestHandler (do_GET, do_POST), which serves    *)
(*    one request at a time (httpservice.TCPServer/UnixServer are not      *)
(*    threaded);                                                           *)
(*  - the client KVPHTTPSClient: SETUP (_clearup; _setup), PREPARE_ and    *)
(*    FINISH_MIGRATION, and PUT/GET/DEL wrapped by KVPClientRetryDec;      *)
(*  - its environment: the VM's VIFs and other_config tags in XAPI, the    *)
(*    persisted xenstore_data, the live xenstore tree of the current       *)
(*    domain, the guest agent answering cmd/re-attach-daemon, VM reboots,  *)
(*    credentials drifting in the guest and transient XAPI/HTTP failures.  *)
(*                                                                         *)
(* kvpd's handler is a sequence of XAPI, xenstore and HTTP calls; each     *)
(* call is one step, so the environment can act between any two of them.  *)
(* Three program counters keep the nesting of the code: hpc for the        *)
(* handler, call for a running decorated PUT/GET/DEL, spc for a running    *)
(* SETUP/PREPARE/FINISH (which a decorated call starts on HTTP 401).       *)
(***************************************************************************)
EXTENDS Naturals, FiniteSets

CONSTANTS
  Keys,            \* KVP keys a caller may use
  Vals,            \* values a caller may PUT
  Creds,           \* credentials the guest agent may generate
  UserDevices,     \* device numbers of the VM's ordinary (non-KVP) VIFs
  NONE,            \* absent xenstore node / absent KVP / no local value
  MaxXapiFaults,   \* bound: XAPI calls that fail transiently
  MaxServerErrors, \* bound: HTTP 5xx answers of the guest service
  MaxDrifts,       \* bound: guest credentials changing behind xenstore
  MaxBoots,        \* bound: VM reboots (each gives a new domain id)
  Listening,       \* the listener process runs (run_setup_listener)
  VM,              \* the guest's uuid
  VmIds            \* the uuids callers may name in a path, VM among them

ASSUME Cardinality(Creds) >= 2
ASSUME NONE \notin Keys \cup Vals \cup Creds \cup Nat
ASSUME UserDevices \subseteq Nat
ASSUME Listening \in BOOLEAN
ASSUME VM \in VmIds
ASSUME \A n \in {MaxXapiFaults, MaxServerErrors, MaxDrifts, MaxBoots} : n \in Nat

KVP == "kvp_enabled"          \* kvp_tag, kvpd.py:54
MIG == "kvpmigration_active"  \* kvpmigration_tag, kvpd.py:55
ATTEMPTS == 2                 \* attempts of KVPClientRetryDec, kvpd.py:105

VARIABLES
  \* XAPI state of the VM
  kvpVifs,    \* VIFs with kvp_tag in other_config: set of [dev, plugged]
  oc,         \* the kvp tags present in VM.other_config
  xsdMac,     \* VM.xenstore_data "network-device" (MAC = device here)
  domid,      \* current domain id of the VM
  \* xenstore subtree /local/domain/<domid>/vm-data/kvp of that domain
  xs,         \* [netdev, reattach, status, auth]
  \* the guest agent (the Windows KVP service) and its key/value store
  agentUp, agentCred, kv,
  \* kvpd, serving one request
  req, resp,  \* current (or last) request and the response it got
  hpc,        \* handler stage
  call,       \* running decorated PUT/GET/DEL, or NONE
  spc, scmd,  \* running SETUP/PREPARE/FINISH step and which command
  cDomid,     \* self.domid, read once in KVPHTTPSClient.__init__
  ccred,      \* credentials last read by _get_credentials
  mac,        \* the management VIF's MAC in _setup_network_interface
  vif,        \* the VIF _cleanup_vifs has unplugged and is to destroy
  ready0,     \* history: channel was ready when the request arrived
  prepared,   \* history: the previous request was a PREPARE answered 200
  rf,         \* history: environment faults met during the request
  started,    \* the VM started since the listener last re-set it up
  \* fault budgets used so far
  nXapi, nServer, nDrift, nBoot

xapiVars  == <<kvpVifs, oc, xsdMac, domid>>
guestVars == <<xs, agentUp, agentCred, kv>>
kvpdVars  == <<req, resp, hpc, call, spc, scmd, cDomid, ccred, mac, vif, ready0, prepared, rf>>
budgets   == <<nXapi, nServer, nDrift, nBoot>>
vars == <<xapiVars, guestVars, kvpdVars, budgets, started>>

-----------------------------------------------------------------------------
(* Helpers                                                                 *)

Dev(S) == {v.dev : v \in S}
UsedDevices == UserDevices \cup Dev(kvpVifs)
Plugged == {v \in kvpVifs : v.plugged}

\* the tree xapi writes for a new domain from VM.xenstore_data
BootTree == [netdev |-> xsdMac,
             reattach |-> IF xsdMac = NONE THEN NONE ELSE "1",
             status |-> NONE, auth |-> NONE]

\* is_daemon_running: daemon-status = '0' and cmd/re-attach-daemon = '0',
\* read from the path of the domain id the client was created with
IsDaemonRunning == cDomid = domid /\ xs.status = "0" /\ xs.reattach = "0"

\* Mutation: _get_credentials reads the network-device node.
ReadAuthWrongKey == IF cDomid = domid THEN xs.netdev ELSE NONE
\* _xenstore_read of auth/* and daemon-ip; NONE when the node is missing
\* or the client's domain id is stale
ReadAuth == IF cDomid = domid THEN xs.auth ELSE NONE

\* _xenstore_write(loc, value) into the client's domain
XsWrite(f, val) == IF cDomid = domid THEN [xs EXCEPT ![f] = val] ELSE xs

ChannelReady == KVP \in oc /\ Cardinality(kvpVifs) = 1 /\ Plugged = kvpVifs

\* the guest service is reachable over the management VIF
Reachable == agentUp /\ Plugged # {}

NoteFault(f) == rf' = IF hpc = "idle" THEN rf ELSE rf \cup {f}

-----------------------------------------------------------------------------
(* Handler continuations: what do_GET / do_POST do once the client        *)
(* operation they called returns or raises.                                *)

\* _shutdown_connection: the handler is done with this request.
ShutdownConnection == /\ hpc' = "idle" /\ call' = NONE

Respond(r) == /\ resp' = r /\ ShutdownConnection

NewCall(op) == [op |-> op, attempt |-> 0, pc |-> "wait", err |-> NONE]

\* Mutation: the DELETE reconciliation also accepts a failed GET.
DelGetRaisedAnyOk(err) == "200"
\* do_POST delete, kvpd.py:1029-1045: a GET raising HTTP 404 proves the
\* key is gone (200); any other exception leaves the error (404).
DelGetRaised(err) == IF err = "e404" THEN "200" ELSE "404"

\* The decorated call raised err.
CallRaise(err) ==
  CASE hpc = "put1"   -> /\ hpc' = "put2" /\ call' = NewCall("put")
                         /\ UNCHANGED resp
    [] hpc = "put2"   -> Respond("404")
    [] hpc = "get"    -> Respond("404")
    [] hpc = "del"    -> /\ hpc' = "delget" /\ call' = NewCall("get")
                         /\ UNCHANGED resp
    [] hpc = "delget" -> Respond(DelGetRaised(err))

\* The decorated call returned; hasData is whether the body is non-empty.
CallReturn(hasData) ==
  CASE hpc \in {"put1", "put2", "del"} -> Respond("200")
    [] hpc = "get"    -> Respond(IF hasData THEN "200" ELSE "404")
    [] hpc = "delget" -> Respond("404")

\* SETUP, PREPARE_MIGRATION or FINISH_MIGRATION finished (ok) or raised.
\* re_setup_vms logs any exception of its _setup and answers nobody.
\* A SETUP run by the decorator returns to it (kvpd.py:132); one run by
\* do_POST answers; a failed "setup" command calls the missing method
\* self.return_error (kvpd.py:1015) and the connection closes unanswered.
SetupReturn(ok) ==
  /\ spc' = NONE
  /\ IF call # NONE
       THEN IF ~ok
              THEN CallRaise("other")
            ELSE IF call.attempt + 1 < ATTEMPTS
              THEN /\ call' = [call EXCEPT !.attempt = @ + 1, !.pc = "wait"]
                   /\ UNCHANGED <<hpc, resp>>
            ELSE CallRaise("e401")
       ELSE CASE scmd = "resetup"  -> /\ hpc' = "idle" /\ call' = NONE
                                      /\ UNCHANGED resp
              [] ok                -> Respond("200")
              [] scmd = "setup"    -> Respond("closed")
              [] OTHER             -> Respond("404")

-----------------------------------------------------------------------------
(* Request arrival: do_GET / do_POST parse the path, build the client     *)
(* (reading the domain id) and dispatch on cmd or key.                     *)

\* "malformed": _path_to_dict raises (an odd number of segments) or the
\* path has no 'vm'; "unroutable": a POST naming no operation (an unknown
\* cmd, delete without key, a key without content-length).
Ops ==
       {[cmd |-> c, key |-> NONE, val |-> NONE] :
          c \in {"setup", "prepare", "finish", "malformed", "unroutable"}}
  \cup {[cmd |-> "put", key |-> k, val |-> v] : k \in Keys, v \in Vals}
  \cup {[cmd |-> "get", key |-> k, val |-> NONE] : k \in Keys \cup {NONE}}
  \cup {[cmd |-> "del", key |-> k, val |-> NONE] : k \in Keys}

Requests == {[cmd |-> o.cmd, key |-> o.key, val |-> o.val, vm |-> v] :
               o \in Ops, v \in VmIds}

\* The request reaches a client operation: the path parses, names the
\* guest (KVPHTTPSClient(rec['vm']) raises for any other uuid) and an op.
Routable(r) == r.vm = VM /\ r.cmd \notin {"malformed", "unroutable"}

\* Refused before any client operation, with 404, except that do_GET builds
\* its KVPHTTPSClient outside the try: the exception escapes the handler
\* and the server closes the connection without an answer.
\* The request served before this one was a successful PREPARE_MIGRATION.
PreparedBefore == req # NONE /\ req.cmd = "prepare" /\ resp = "200"

Refuse ==
  /\ hpc = "idle"
  /\ \E r \in Requests :
       /\ ~Routable(r)
       /\ req' = r
       /\ resp' = IF r.cmd = "get" /\ r.vm # VM THEN "closed" ELSE "404"
  /\ ready0' = ChannelReady
  /\ prepared' = PreparedBefore
  /\ rf' = {}
  /\ UNCHANGED <<xapiVars, guestVars, hpc, call, spc, scmd, cDomid, ccred, mac,
                 budgets, started, vif>>

\* Mutation: SETUP goes straight to _setup, as re_setup_vms does.
SetupEntryNoClearup == "create_vif"
\* SETUP == _clearup(); _setup(): it starts by removing the KVP VIFs.
SetupEntry == "cleanup_vifs"

\* KVPHTTPSClient(vm): a fresh XAPI session, the VM's reference and its
\* domain id, read once for the client's lifetime.
NewClient == cDomid' = domid

Receive ==
  /\ hpc = "idle"
  /\ \E r \in Requests :
       /\ Routable(r)
       /\ req' = r
       /\ resp' = NONE
       /\ NewClient
       /\ ready0' = ChannelReady
       /\ prepared' = PreparedBefore
       /\ rf' = {}
       /\ CASE r.cmd = "setup"   -> /\ hpc' = "cmd" /\ spc' = SetupEntry
                                    /\ scmd' = "setup" /\ call' = NONE
            [] r.cmd = "prepare" -> /\ hpc' = "cmd" /\ spc' = "prep_check"
                                    /\ scmd' = "prepare" /\ call' = NONE
            [] r.cmd = "finish"  -> /\ hpc' = "cmd" /\ spc' = "fin_check"
                                    /\ scmd' = "finish" /\ call' = NONE
            [] r.cmd = "put"     -> /\ hpc' = "put1" /\ call' = NewCall("put")
                                    /\ UNCHANGED <<spc, scmd>>
            [] r.cmd = "get"     -> /\ hpc' = "get" /\ call' = NewCall("get")
                                    /\ UNCHANGED <<spc, scmd>>
            [] r.cmd = "del"     -> /\ hpc' = "del" /\ call' = NewCall("del")
                                    /\ UNCHANGED <<spc, scmd>>
  /\ UNCHANGED <<xapiVars, guestVars, ccred, mac, budgets, started, vif>>

\* The listener process, on a start of the VM, calls re_setup_vms: a new
\* client (reading the domain id), then _setup alone, without _clearup.
\* The handler is idle meanwhile: the two processes do not interleave here.
ReSetupVm ==
  /\ Listening /\ started /\ hpc = "idle"
  /\ started' = FALSE
  /\ hpc' = "resetup" /\ req' = NONE /\ resp' = NONE /\ call' = NONE
  /\ NewClient
  /\ spc' = "create_vif" /\ scmd' = "resetup"
  /\ UNCHANGED <<xapiVars, guestVars, ccred, mac, ready0, prepared, rf, budgets, vif>>

-----------------------------------------------------------------------------
(* SETUP, PREPARE_MIGRATION and FINISH_MIGRATION, one XAPI or xenstore    *)
(* call per step.  Every step leaves the handler and the call alone until *)
(* it returns through SetupReturn.                                         *)

StepTo(s) == /\ spc' = s /\ UNCHANGED <<hpc, resp, call>>

\* Mutation: _prepare_migration does not look at kvp_tag.
PrepCheckUnguarded ==
  /\ spc = "prep_check"
  /\ StepTo("cleanup_vifs")
  /\ UNCHANGED <<xapiVars, guestVars, req, scmd, cDomid, ccred, mac, ready0, prepared, rf, budgets, started, vif>>
\* _prepare_migration: raise unless kvp_tag is in other_config
PrepCheck ==
  /\ spc = "prep_check"
  /\ IF KVP \in oc THEN StepTo("cleanup_vifs") ELSE SetupReturn(FALSE)
  /\ UNCHANGED <<xapiVars, guestVars, req, scmd, cDomid, ccred, mac, ready0, prepared, rf, budgets, started, vif>>

\* Mutation: _finish_migration checks the tag but never removes it.
FinCheckKeepsTag ==
  /\ spc = "fin_check"
  /\ IF MIG \in oc THEN StepTo("cleanup_vifs") ELSE SetupReturn(FALSE)
  /\ UNCHANGED <<xapiVars, guestVars, req, scmd, cDomid, ccred, mac, ready0, prepared, rf, budgets, started, vif>>
\* _finish_migration: raise unless the migration tag is set, else drop it
\* (get_other_config, set_other_config) before _clearup and _setup
FinCheck ==
  /\ spc = "fin_check"
  /\ IF MIG \in oc
       THEN /\ oc' = oc \ {MIG} /\ StepTo("cleanup_vifs")
       ELSE /\ SetupReturn(FALSE) /\ UNCHANGED oc
  /\ UNCHANGED <<kvpVifs, xsdMac, domid, guestVars, req, scmd, cDomid, ccred, mac, ready0, prepared, rf, budgets, started, vif>>

\* _cleanup_vifs, one VIF of its loop: VIF.unplug, which fails for a VIF
\* that is not attached; the loop ends when no KVP VIF is left.
CleanupVifs ==
  /\ spc = "cleanup_vifs"
  /\ IF kvpVifs = {}
       THEN /\ StepTo("clear_tag") /\ UNCHANGED <<kvpVifs, vif>>
       ELSE \E v \in kvpVifs :
              IF v.plugged
                THEN /\ kvpVifs' = (kvpVifs \ {v}) \cup {[v EXCEPT !.plugged = FALSE]}
                     /\ vif' = v.dev
                     /\ StepTo("destroy_vif")
                ELSE /\ SetupReturn(FALSE) /\ UNCHANGED <<kvpVifs, vif>>
  /\ UNCHANGED <<oc, xsdMac, domid, guestVars, req, scmd, cDomid, ccred, mac, ready0, prepared, rf, budgets, started>>

\* ... then VIF.destroy of it, a second XAPI call; it fails if a reboot has
\* attached the VIF again in between.
DestroyVif ==
  /\ spc = "destroy_vif"
  /\ LET w == [dev |-> vif, plugged |-> FALSE] IN
       IF w \in kvpVifs
         THEN /\ kvpVifs' = kvpVifs \ {w} /\ StepTo("cleanup_vifs")
         ELSE /\ SetupReturn(FALSE) /\ UNCHANGED kvpVifs
  /\ vif' = NONE
  /\ UNCHANGED <<oc, xsdMac, domid, guestVars, req, scmd, cDomid, ccred, mac, ready0, prepared, rf, budgets, started>>

\* _clearup, tail: remove kvp_tag from other_config; PREPARE_MIGRATION
\* then adds the migration tag, SETUP and FINISH_MIGRATION run _setup
ClearTag ==
  /\ spc = "clear_tag"
  /\ oc' = oc \ {KVP}
  /\ StepTo(IF scmd = "prepare" THEN "add_mig" ELSE "create_vif")
  /\ UNCHANGED <<kvpVifs, xsdMac, domid, guestVars, req, scmd, cDomid, ccred, mac, ready0, prepared, rf, budgets, started, vif>>

\* _prepare_migration: add_to_other_config(kvpmigration_tag); XAPI raises
\* MAP_DUPLICATE_KEY if it is already there, and nothing catches it
AddMig ==
  /\ spc = "add_mig"
  /\ IF MIG \in oc
       THEN /\ SetupReturn(FALSE) /\ UNCHANGED oc
       ELSE /\ oc' = oc \cup {MIG} /\ SetupReturn(TRUE)
  /\ UNCHANGED <<kvpVifs, xsdMac, domid, guestVars, req, scmd, cDomid, ccred, mac, ready0, prepared, rf, budgets, started, vif>>

\* _create_vif: device = len(VM.get_VIFs) + 1, MAC '' (xapi derives the MAC
\* from the device); VIF.create fails if that device is already in use
CreateVif ==
  /\ spc = "create_vif"
  /\ LET d == Cardinality(UsedDevices) + 1 IN
       IF d \in UsedDevices
         THEN /\ SetupReturn(FALSE) /\ UNCHANGED <<kvpVifs, mac, vif>>
         ELSE /\ kvpVifs' = kvpVifs \cup {[dev |-> d, plugged |-> FALSE]}
              /\ mac' = d
              /\ StepTo("plug")
  /\ UNCHANGED <<oc, xsdMac, domid, guestVars, req, scmd, cDomid, ccred, ready0, prepared, rf, budgets, started, vif>>

\* VIF.plug of the new VIF; it fails if a reboot has attached it already
Plug ==
  /\ spc = "plug"
  /\ IF [dev |-> mac, plugged |-> FALSE] \in kvpVifs
       THEN /\ kvpVifs' = (kvpVifs \ {[dev |-> mac, plugged |-> FALSE]})
                            \cup {[dev |-> mac, plugged |-> TRUE]}
            /\ StepTo("get_mgmt")
       ELSE /\ SetupReturn(FALSE) /\ UNCHANGED kvpVifs
  /\ UNCHANGED <<oc, xsdMac, domid, guestVars, req, scmd, cDomid, ccred, mac, ready0, prepared, rf, budgets, started, vif>>

\* get_management_vif: raise if there is none or more than one KVP VIF;
\* otherwise VIF.get_MAC of it
GetMgmt ==
  /\ spc = "get_mgmt"
  /\ IF Cardinality(kvpVifs) = 1
       THEN /\ mac' = (CHOOSE v \in kvpVifs : TRUE).dev /\ StepTo("persist")
       ELSE /\ SetupReturn(FALSE) /\ UNCHANGED mac
  /\ UNCHANGED <<xapiVars, guestVars, req, scmd, cDomid, ccred, ready0, prepared, rf, budgets, started, vif>>

\* setup_persistent_xenstore_data(mac) and _xenstore_write('network-device').
\* Unless xenstore_data already holds this MAC: VM.set_xenstore_data, then
\* _enable_xenstore_rw removes the whole kvp subtree (credentials, status
\* and restart flag with it) and recreates it empty, then network-device.
Persist ==
  /\ spc = "persist"
  /\ IF xsdMac = mac
       THEN /\ xs' = XsWrite("netdev", mac) /\ UNCHANGED xsdMac
       ELSE /\ xsdMac' = mac
            /\ xs' = IF cDomid = domid
                       THEN [netdev |-> mac, reattach |-> NONE,
                             status |-> NONE, auth |-> NONE]
                       ELSE xs
  /\ StepTo("restart")
  /\ UNCHANGED <<kvpVifs, oc, domid, agentUp, agentCred, kv, req, scmd, cDomid, ccred, mac, ready0, prepared, rf, budgets, started, vif>>

\* restart_windows_service: cmd/re-attach-daemon = '1'
Restart ==
  /\ spc = "restart"
  /\ xs' = XsWrite("reattach", "1")
  /\ StepTo("wait_daemon")
  /\ UNCHANGED <<xapiVars, agentUp, agentCred, kv, req, scmd, cDomid, ccred, mac, ready0, prepared, rf, budgets, started, vif>>

\* verify_completion(is_daemon_running, 60): the daemon answered ...
\* verify_completion gives up once should_timeout holds: the flags stayed
\* not ready for the whole timeout (the guest does not change meanwhile).
ShouldTimeout == ~IsDaemonRunning

WaitDaemonOk ==
  /\ spc = "wait_daemon"
  /\ IsDaemonRunning
  /\ StepTo("get_creds")
  /\ UNCHANGED <<xapiVars, guestVars, req, scmd, cDomid, ccred, mac, ready0, prepared, rf, budgets, started, vif>>

\* ... or the poll timed out, which _setup only logs
WaitDaemonTimeout ==
  /\ spc = "wait_daemon"
  /\ ShouldTimeout
  /\ NoteFault("timeout")
  /\ StepTo("get_creds")
  /\ UNCHANGED <<xapiVars, guestVars, req, scmd, cDomid, ccred, mac, ready0, prepared, budgets, started, vif>>

\* _get_credentials: a missing daemon-ip makes .strip raise
GetCreds ==
  /\ spc = "get_creds"
  /\ IF ReadAuth = NONE
       THEN /\ SetupReturn(FALSE) /\ UNCHANGED ccred
       ELSE /\ ccred' = ReadAuth /\ StepTo("add_tag")
  /\ UNCHANGED <<xapiVars, guestVars, req, scmd, cDomid, mac, ready0, prepared, rf, budgets, started, vif>>

\* VM.add_to_other_config(kvp_tag); MAP_DUPLICATE_KEY is tolerated
AddTag ==
  /\ spc = "add_tag"
  /\ oc' = oc \cup {KVP}
  /\ SetupReturn(TRUE)
  /\ UNCHANGED <<kvpVifs, xsdMac, domid, guestVars, req, scmd, cDomid, ccred, mac, ready0, prepared, rf, budgets, started, vif>>

\* Any XAPI call of these steps may fail; the exception aborts the command.
\* A VIF.destroy that fails leaves the VIF its VIF.unplug has detached.
XapiSteps == {"prep_check", "fin_check", "cleanup_vifs", "destroy_vif", "clear_tag", "add_mig",
              "create_vif", "plug", "get_mgmt", "persist", "add_tag"}

XapiCallFails ==
  /\ spc \in XapiSteps
  /\ nXapi < MaxXapiFaults
  /\ nXapi' = nXapi + 1
  /\ NoteFault("xapi")
  /\ SetupReturn(FALSE)
  /\ vif' = NONE
  /\ UNCHANGED <<xapiVars, guestVars, req, scmd, cDomid, ccred, mac, ready0, prepared, nServer, nDrift, nBoot, started>>

-----------------------------------------------------------------------------
(* PUT, GET and DEL under KVPClientRetryDec.  Each attempt first runs     *)
(* wait_for_service (poll is_daemon_running for 30 s, then                 *)
(* _get_credentials), then sends one HTTP request with those credentials. *)

CallIdle == call # NONE /\ spc = NONE /\ call.pc \in {"wait", "http"}

\* wait_for_service: the daemon is up and the credentials are read
CallWaitOk ==
  /\ CallIdle /\ call.pc = "wait"
  /\ IsDaemonRunning
  /\ IF ReadAuth = NONE
       THEN /\ CallRaise("other") /\ UNCHANGED ccred
       ELSE /\ ccred' = ReadAuth
            /\ call' = [call EXCEPT !.pc = "http"]
            /\ UNCHANGED <<hpc, resp>>
  /\ UNCHANGED <<xapiVars, guestVars, req, spc, scmd, cDomid, mac, ready0, prepared, rf, budgets, started, vif>>

\* wait_for_service timed out: a plain Exception, re-raised at once
CallWaitTimeout ==
  /\ CallIdle /\ call.pc = "wait"
  /\ ShouldTimeout
  /\ NoteFault("timeout")
  /\ CallRaise("other")
  /\ UNCHANGED <<xapiVars, guestVars, req, spc, scmd, cDomid, ccred, mac, ready0, prepared, budgets, started, vif>>

\* Mutation: a 401 is retried without SETUP, like any other HTTP error.
OnHttpErrorNoSetup(err) ==
  IF call.attempt + 1 < ATTEMPTS
    THEN /\ call' = [call EXCEPT !.attempt = @ + 1, !.pc = "wait", !.err = err]
         /\ UNCHANGED <<hpc, resp, spc, scmd>>
    ELSE /\ CallRaise(err) /\ UNCHANGED <<spc, scmd>>
\* Mutation: a non-401 error is retried without counting the attempt.
OnHttpErrorUncounted(err) ==
  IF err = "e401"
    THEN /\ spc' = SetupEntry /\ scmd' = "setup"
         /\ call' = [call EXCEPT !.pc = "setup", !.err = err]
         /\ UNCHANGED <<hpc, resp>>
  ELSE /\ call' = [call EXCEPT !.pc = "wait", !.err = err]
       /\ UNCHANGED <<hpc, resp, spc, scmd>>
\* KVPClientRetryDec on a urllib2.URLError carrying an HTTP code: a 401
\* runs kvpclient.SETUP() and then the next attempt; any other code is
\* simply retried.  After the last attempt the error is raised.
OnHttpError(err) ==
  IF err = "e401"
    THEN /\ spc' = SetupEntry /\ scmd' = "setup"
         /\ call' = [call EXCEPT !.pc = "setup", !.err = err]
         /\ UNCHANGED <<hpc, resp>>
  ELSE IF call.attempt + 1 < ATTEMPTS
    THEN /\ call' = [call EXCEPT !.attempt = @ + 1, !.pc = "wait", !.err = err]
         /\ UNCHANGED <<hpc, resp, spc, scmd>>
    ELSE /\ CallRaise(err) /\ UNCHANGED <<spc, scmd>>

\* the guest service is not reachable: a URLError without .code, so the
\* decorator's e.code raises AttributeError, which is not retried
HttpUnreachable ==
  /\ CallIdle /\ call.pc = "http"
  /\ ~Reachable
  /\ CallRaise("other")
  /\ UNCHANGED <<xapiVars, guestVars, req, spc, scmd, cDomid, ccred, mac, ready0, prepared, rf, budgets, started, vif>>

\* set_auth_header sends the cached username and password as HTTP Basic
\* authentication; the service accepts its current credentials only.
Authorized == ccred = agentCred

\* the service rejects the credentials read from xenstore
HttpUnauthorized ==
  /\ CallIdle /\ call.pc = "http"
  /\ Reachable /\ ~Authorized
  /\ OnHttpError("e401")
  /\ UNCHANGED <<xapiVars, guestVars, req, cDomid, ccred, mac, ready0, prepared, rf, budgets, started, vif>>

\* the service accepts the request: PUT stores, DEL removes, GET reads;
\* DEL and GET of an absent key answer HTTP 404
HttpServed ==
  /\ CallIdle /\ call.pc = "http"
  /\ Reachable /\ Authorized
  /\ LET k == req.key IN
     CASE call.op = "put" ->
            /\ kv' = [kv EXCEPT ![k] = req.val]
            /\ CallReturn(TRUE) /\ UNCHANGED <<spc, scmd>>
       [] call.op = "del" /\ kv[k] # NONE ->
            /\ kv' = [kv EXCEPT ![k] = NONE]
            /\ CallReturn(TRUE) /\ UNCHANGED <<spc, scmd>>
       [] call.op = "get" /\ k = NONE ->
            /\ CallReturn(\E j \in Keys : kv[j] # NONE)
            /\ UNCHANGED <<kv, spc, scmd>>
       [] call.op = "get" /\ kv[k] # NONE ->
            /\ CallReturn(TRUE) /\ UNCHANGED <<kv, spc, scmd>>
       [] OTHER ->
            /\ OnHttpError("e404") /\ UNCHANGED kv
  /\ UNCHANGED <<xapiVars, xs, agentUp, agentCred, req, cDomid, ccred, mac, ready0, prepared, rf, budgets, started, vif>>

\* the service fails with HTTP 5xx, before or after applying the request
\* (an SSL error after the write, MS-71)
HttpServerError ==
  /\ CallIdle /\ call.pc = "http"
  /\ Reachable /\ Authorized
  /\ nServer < MaxServerErrors
  /\ nServer' = nServer + 1
  /\ NoteFault("server")
  /\ \E applied \in BOOLEAN :
       kv' = CASE applied /\ call.op = "put" -> [kv EXCEPT ![req.key] = req.val]
               [] applied /\ call.op = "del" -> [kv EXCEPT ![req.key] = NONE]
               [] OTHER -> kv
  /\ OnHttpError("e5xx")
  /\ UNCHANGED <<xapiVars, xs, agentUp, agentCred, req, cDomid, ccred, mac, ready0, prepared, nXapi, nDrift, nBoot, started, vif>>

-----------------------------------------------------------------------------
(* Environment                                                             *)

\* The guest agent starts (at boot) or restarts on cmd/re-attach-daemon:
\* new credentials, written to xenstore with daemon-ip, status and flag.
AgentRestart ==
  /\ ~agentUp \/ xs.reattach = "1"
  /\ \E c \in Creds \ {agentCred} :
       /\ agentCred' = c
       /\ xs' = [xs EXCEPT !.auth = c, !.status = "0", !.reattach = "0"]
  /\ agentUp' = TRUE
  /\ UNCHANGED <<xapiVars, kv, kvpdVars, budgets, started>>

\* The guest's credentials change without xenstore being updated.
CredentialDrift ==
  /\ agentUp
  /\ nDrift < MaxDrifts
  /\ nDrift' = nDrift + 1
  /\ \E c \in Creds \ {agentCred} : agentCred' = c
  /\ NoteFault("drift")
  /\ UNCHANGED <<xapiVars, xs, agentUp, kv, req, resp, hpc, call, spc, scmd,
                 cDomid, ccred, mac, ready0, prepared, nXapi, nServer, nBoot, started, vif>>

\* The VM reboots (or migrates): a new domain id, a xenstore tree built
\* from xenstore_data, every VIF plugged again, the agent down until it
\* starts.  The guest's key/value store is kept.
Reboot ==
  /\ nBoot < MaxBoots
  /\ nBoot' = nBoot + 1
  /\ started' = TRUE
  /\ domid' = domid + 1
  /\ xs' = BootTree
  /\ kvpVifs' = {[dev |-> v.dev, plugged |-> TRUE] : v \in kvpVifs}
  /\ agentUp' = FALSE
  /\ NoteFault("reboot")
  /\ UNCHANGED <<oc, xsdMac, agentCred, kv, req, resp, hpc, call, spc, scmd,
                 cDomid, ccred, mac, ready0, prepared, nXapi, nServer, nDrift, vif>>

-----------------------------------------------------------------------------

Init ==
  /\ kvpVifs = {}
  /\ oc = {}
  /\ xsdMac = NONE
  /\ domid = 1
  /\ xs = [netdev |-> NONE, reattach |-> NONE, status |-> NONE, auth |-> NONE]
  /\ agentUp = FALSE
  /\ agentCred \in Creds
  /\ kv = [k \in Keys |-> NONE]
  /\ req = NONE /\ resp = NONE /\ hpc = "idle" /\ call = NONE
  /\ spc = NONE /\ scmd = NONE /\ cDomid = NONE /\ ccred = NONE
  /\ mac = NONE /\ vif = NONE /\ ready0 = FALSE /\ prepared = FALSE /\ rf = {}
  /\ nXapi = 0 /\ nServer = 0 /\ nDrift = 0 /\ nBoot = 0
  /\ started = FALSE

SetupStep ==
  \/ PrepCheck \/ FinCheck \/ CleanupVifs \/ DestroyVif \/ ClearTag \/ AddMig
  \/ CreateVif \/ Plug \/ GetMgmt \/ Persist \/ Restart
  \/ WaitDaemonOk \/ WaitDaemonTimeout \/ GetCreds \/ AddTag
  \/ XapiCallFails

CallStep ==
  \/ CallWaitOk \/ CallWaitTimeout
  \/ HttpUnreachable \/ HttpUnauthorized \/ HttpServed \/ HttpServerError

Environment == AgentRestart \/ CredentialDrift \/ Reboot

Next == Receive \/ Refuse \/ ReSetupVm \/ SetupStep \/ CallStep \/ Environment

Spec == Init /\ [][Next]_vars

\* kvpd's handler is one thread, running while a request is served: each
\* XAPI, xenstore and HTTP call returns or raises, and the two polls end
\* by should_timeout.  The environment gets no fairness.
KvpdStep == SetupStep \/ CallStep

FairSpec == Spec /\ WF_vars(KvpdStep)

-----------------------------------------------------------------------------
(* Properties                                                              *)

TypeOK ==
  /\ kvpVifs \subseteq [dev : Nat, plugged : BOOLEAN]
  /\ oc \subseteq {KVP, MIG}
  /\ xsdMac \in Nat \cup {NONE}
  /\ xs \in [netdev : Nat \cup {NONE}, reattach : {"0", "1", NONE},
             status : {"0", NONE}, auth : Creds \cup {NONE}]
  /\ agentUp \in BOOLEAN /\ agentCred \in Creds
  /\ kv \in [Keys -> Vals \cup {NONE}]
  /\ req \in Requests \cup {NONE}
  /\ resp \in {"200", "404", "closed", NONE}
  /\ hpc \in {"idle", "cmd", "put1", "put2", "get", "del", "delget", "resetup"}
  /\ spc \in XapiSteps \cup {"restart", "wait_daemon", "get_creds", NONE}
  /\ call \in [op : {"put", "get", "del"}, attempt : 0 .. ATTEMPTS - 1,
               pc : {"wait", "http", "setup"},
               err : {"e401", "e404", "e5xx", NONE}] \cup {NONE}
  /\ ccred \in Creds \cup {NONE}
  /\ vif \in Nat \cup {NONE}
  /\ prepared \in BOOLEAN
  /\ rf \subseteq {"xapi", "server", "timeout", "drift", "reboot"}

Answered == hpc = "idle" /\ req # NONE

(* The spec's central invariant: a VM never has more than one management  *)
(* VIF.  SETUP destroys the tagged VIFs before _create_vif; a plug that    *)
(* fails, a reboot or a 401 repair in the middle must not leave two.       *)
AtMostOneMgmtVif == Cardinality(kvpVifs) <= 1

(* A 200 from the front end is true when it is sent: a PUT's value is     *)
(* stored, a deleted key is absent (also when do_POST reconciled a failed *)
(* DEL through a GET), a key read exists, a SETUP or FINISH_MIGRATION left *)
(* the tag and one plugged management VIF, and a PREPARE_MIGRATION left    *)
(* the channel torn down with the migration tag set.                       *)
ResponseReflectsState ==
  (Answered /\ resp = "200") =>
    CASE req.cmd = "put"     -> kv[req.key] = req.val
      [] req.cmd = "del"     -> kv[req.key] = NONE
      [] req.cmd = "get"     -> req.key = NONE \/ kv[req.key] # NONE
      [] req.cmd = "setup"   -> ChannelReady
      [] req.cmd = "finish"  -> ChannelReady /\ MIG \notin oc
      [] req.cmd = "prepare" -> MIG \in oc /\ KVP \notin oc /\ kvpVifs = {}

(* Retry on 401: on a channel that was ready, credentials drifting in the *)
(* guest (at most MaxDrifts times, at any moment) never make a PUT to the  *)
(* guest fail when nothing else goes wrong: KVPClientRetryDec re-runs      *)
(* SETUP and the handler's own second PUT absorb them.                     *)
RetryMasksDrift ==
  (Answered /\ Routable(req) /\ req.cmd = "put" /\ ready0 /\ rf \subseteq {"drift"})
    => resp = "200"

(* Every request the handler takes ends, and so does a re-setup: the     *)
(* decorator's two attempts, the SETUP a 401 starts inside one, the        *)
(* handler's second PUT and the DELETE's confirming GET are all bounded,   *)
(* however the guest, XAPI and the credentials behave meanwhile.           *)
RequestTerminates == hpc # "idle" ~> hpc = "idle"

(* Spec 8, migration round trip: a FINISH_MIGRATION that comes right     *)
(* after a successful PREPARE_MIGRATION and meets no fault answers 200,    *)
(* with "enabled" restored and "migrating" cleared, also when the VM       *)
(* rebooted (migrated) in between: a new domain, a xenstore tree rebuilt   *)
(* from xenstore_data, the agent down until FINISH's restart request.      *)
MigrationRoundTrip ==
  (/\ Answered /\ Routable(req) /\ req.cmd = "finish" /\ rf = {}
   /\ prepared)
    => /\ resp = "200"
       /\ KVP \in oc /\ MIG \notin oc

(* Spec 4.3: every failure is answered with 404.                           *)
EveryRequestAnswered == Answered => resp \in {"200", "404"}

(* Spec 4.2: SETUP provisions a fresh management VIF; a SETUP request met *)
(* by no fault of the environment succeeds.                                *)
FaultFreeSetupSucceeds ==
  (Answered /\ Routable(req) /\ req.cmd = "setup" /\ rf = {}) => resp = "200"


-----------------------------------------------------------------------------
(* Refinement: the tag, interface and command the specification's state   *)
(* machine talks about, read off the XAPI state and kvpd's program        *)
(* counters.  A PREPARE or FINISH whose precondition is still being       *)
(* checked has not begun; a re-setup by the listener is a SETUP.           *)

AbsIface == IF kvpVifs = {} THEN "none"
            ELSE IF Plugged = kvpVifs THEN "up" ELSE "down"

AbsCmd == CASE spc \in {NONE, "prep_check", "fin_check"} -> "none"
            [] scmd = "resetup"                          -> "setup"
            [] OTHER                                     -> scmd

Abs == INSTANCE ChannelAbstract
         WITH Enabled <- KVP, Migrating <- MIG,
              tags <- oc, iface <- AbsIface, cmd <- AbsCmd

(* kvpd's SETUP, PREPARE_MIGRATION and FINISH_MIGRATION, with every fault *)
(* and 401 repair in between, only change the tags and the management VIF *)
(* the way spec 4.2's phases do: "enabled" is set only on one attached VIF *)
(* and cleared only once the VIF is gone, "migrating" is set only by a     *)
(* PREPARE that found "enabled" (spec 3's migration invariant) after the   *)
(* channel is torn down, and a VIF is created only on an untagged VM.      *)
ChannelRefinement == Abs!Spec

=============================================================================
