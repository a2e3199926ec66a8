# TLA+ models of kvpd, the xs-cim KVP channel daemon

This directory holds the model-checking project for `src/kvpservice/kvpd.py`
(with `src/kvpservice/httpservice.py`). kvpd is the dom0 daemon that
gives each Windows guest a private management VIF. It drives the guest's
KVP HTTP service over that VIF and keeps the channel alive across reboots
and migrations. The rest of the repository is made up of CIM code generators,
documentation tools and end-to-end test scripts; none of it runs
concurrently or keeps state, and it is not modelled (see *Not modelled*).

## 1. Inventory

### Components

| Component | Code | State it keeps | Operations |
|---|---|---|---|
| Channel Client | `KVPHTTPSClient`, `KVPClientRetryDec` (kvpd.py:104-873) | `self.domid`, read once in `__init__`. Cached credentials and URL (`_get_credentials`). Everything else lives outside: the VM's VIFs and `other_config` tags in XAPI, `VM.xenstore_data`, and the xenstore subtree `/local/domain/<domid>/vm-data/kvp`. | `SETUP` = `_clearup` (destroy KVP VIFs, drop `kvp_enabled`) + `_setup` (create and plug a VIF, persist its MAC, ask the agent to restart, wait for it, read credentials, set `kvp_enabled`). `PREPARE_MIGRATION`, `FINISH_MIGRATION`. `PUT`/`GET`/`DEL`, each = `wait_for_service` + one HTTP request, wrapped by the 2-attempt retry that runs `SETUP` on 401. |
| Channel Control Service | `RequestHandler.do_GET/do_POST` (kvpd.py:882-1097), served by the non-threaded `httpservice.TCPServer/UnixServer` | none between requests | Route `/vm/<uuid>[/key/<k>]`. For a DELETE that raised, check with a GET. Retry a failed PUT once. Answer 200 or 404. |
| Isolation Rule Compiler | `FirewallRules`, `OVSRules` (kvpd.py:149-409) | `self.paths` (rebuilt on every refresh). The OVS flow table of bridge `xenapi` (external). | `refresh` = `generate_isolation_rules` (paths MAC<->dom0 for every VIF on the internal network of every running, non-snapshot, `kvp_enabled` VM) + `enforce_rules` (resolve each guest MAC to `vif<domid>.<device>` and its OVS port, `add-flow`). |
| Event Trigger Loop | `XAPIEventListener`, `VMStartListener`, `re_setup_vms`, `run_setup_listener` (kvpd.py:411-543) | The XAPI event registration. The `VM_metrics` records read at the start of each batch. | `run_forever`: `perform_service` (VMs whose `start_time` grew, deduplicated, resident on this host), then for each action: `re_setup_vms` (`_setup` per VM), then `rules.refresh`. It runs in a forked child. **`run_setup_listener()` is commented out in `__main__` (kvpd.py:1167), so this build never starts it.** |
| Daemon start-up | `__main__` (kvpd.py:1099-1178), `configure_logging`, `write_pid`, `httpservice.daemonize`, `UnixServer`, `TCPServer` | the TCP port or the socket path `/var/xapi/plugin/xscim` it is bound to; `/var/run/kvpd.pids` | Parse `-i/-p/-s/-d` (`tcp = ip and port`), exit 1 without a transport, daemonize (double fork, the launcher exits 0), open the log file, bind the TCP port or unlink and bind the socket path, append the pid, `serve_forever`. |
| Guest agent (external) | not in the repository | its credentials, its key/value store | Restarts on `cmd/re-attach-daemon = 1`: new credentials written to xenstore, `daemon-status = 0`, flag reset. Serves PUT/GET/DELETE. |

### How they interact

kvpd's HTTP server is the only caller of the Channel Client in this build.
It serves one request at a time, so the handler never runs concurrently with
itself. Its steps interleave with the outside world instead:

- the guest agent, which restarts and rotates credentials;
- XAPI, where VMs reboot or migrate (new domain id, xenstore tree rebuilt
  from `xenstore_data`, VIFs re-plugged);
- transient failures of XAPI calls and of the guest's HTTP service.

The Event Trigger Loop, when it is started, is a second process. It shares
no memory with the server. The two meet only in shared host state: VIFs,
tags, xenstore and OVS flows, with no locking. Inside the client there is
one nesting: a decorated PUT/GET/DEL that sees HTTP 401 runs a whole
`SETUP` before its next attempt.

### What is hard

- **Partial failure:** every command is a chain of 5-12 XAPI, xenstore and
  HTTP calls, and any one of them can fail. The order of the calls decides
  what is left behind.
- **Stale state:** the domain id is read once per request. Credentials are
  read before the HTTP request. `_enable_xenstore_rw` wipes the agent's
  credentials. OVS ports are resolved once.
- **Retries:** the decorator's 401 repair plus the handler's extra PUT give
  up to four PUTs and four SETUPs for one request. Non-401 HTTP errors are
  retried too.
- **Two processes racing on shared host state:** listener vs server, and
  re-setup vs rule refresh.
- **Liveness of the listener:** can one bad event stop monitoring for good?

### What makes each component correct

- Channel Client: at most one management VIF per VM. `kvp_enabled` means
  the channel is provisioned. A 401 caused by drifted credentials is
  repaired. The migration tags follow Ready -> Migrating -> Ready.
- Control Service: every failure is answered 404. A 200 is true (value
  stored, key gone, channel ready).
- Rule Compiler: flows allow only host<->guest paths, for exactly the
  current KVP VMs, each forwarding to the port of its own VIF.
- Event loop: every guest start is eventually re-set-up and followed by a
  refresh, and the loop never stops.

## 2. Plan

Most important behaviour first, with the status of each step:

1. **`KVPChannel`** (done): the Channel Client and the Control Service
   for one VM, with the guest agent, reboots, credential drift and XAPI/HTTP
   faults as environment. With `Listening = TRUE` it also has the
   listener's `re_setup_vms` on a started VM (`ReSetupVm`).
2. **`RuleCompiler`** (done): `refresh` over three VMs (two in the stale_flows run) and the flow table,
   with VM start, stop, `_clearup`, `_setup` and the bridge appearing as
   environment.
3. **`Listener`** (done): `run_setup_listener`'s child from its
   constructors to `run_forever`, `perform_service` with the metrics read
   before `event.next()`, `re_setup_vms` and the refresh action, over a
   pool of two VMs. Liveness under weak fairness of the loop.
4. **`Daemon`** (done): kvpd's start-up, for two invocations sharing the
   port, the socket path and the pid file. Its run shows the socket
   takeover; the TCP half (a second bind fails) is the bind guard itself
   and is not kept as a property.
5. **Composition** (partly): `ReSetupVm` in `KVPChannel` is the
   listener's effect on the channel, taken while the handler is idle.
   The race of a re-setup with a request in flight, and the refresh of
   `RuleCompiler` driven by `Listener`, are not composed (see *Not
   modelled* for why).
6. **`ChannelAbstract`** (done): the spec 4.2 state machine, as the tags,
   the management interface and the command that passed its precondition.
   `KVPChannel` implements it (`ChannelRefinement`, run one_mgmt_vif).

## 3. Modules

### KVPChannel (`KVPChannel.tla`, instance `MC_KVPChannel.tla`)

State:

- XAPI: `kvpVifs` (the VIFs tagged `kvp_enabled`, each with device and
  plugged flag; the MAC is identified with the device, as XAPI derives the
  MAC from the VM's seed and the device number). `oc` (which of
  `kvp_enabled` and `kvpmigration_active` are in `other_config`).
  `xsdMac` (`VM.xenstore_data["network-device"]`). `domid`.
- Xenstore: `xs`, the current domain's subtree: `network-device`,
  `cmd/re-attach-daemon`, `daemon-status`, and `auth` (credentials and
  `daemon-ip`, written together by the agent).
- Guest: `agentUp`, `agentCred`, `kv`.
- kvpd: `req`/`resp` (the request being served, then its answer:
  `"200"`, `"404"`, or `"closed"` when no answer is sent). `hpc`, the
  handler stage: `put1`/`put2` are do_POST's two PUTs, `del` then
  `delget` is the DELETE reconciliation, `resetup` is the listener's
  `_setup`. `call`, the running decorated call: op, attempt, sub-step,
  last HTTP error. `spc`/`scmd`, the running SETUP/PREPARE/FINISH step.
  `cDomid` (`self.domid`, read by `NewClient`), `ccred`, and `mac`.
- `started`: the VM booted since the listener last re-set it up.
- History: `ready0` (the channel was ready when the request came),
  `prepared` (the previous request was a PREPARE answered 200) and
  `rf` (faults met during the request).

Actions, one per call of the code:

- SETUP chain: `CleanupVifs` (one `VIF.unplug` of the loop; `vif` holds
  the VIF it detached), `DestroyVif` (the `VIF.destroy` that follows, a
  separate XAPI call), `ClearTag`, `CreateVif`, `Plug`,
  `GetMgmt`, `Persist`, `Restart`, `WaitDaemonOk`/`WaitDaemonTimeout`,
  `GetCreds`, `AddTag`.
- Migration: `PrepCheck`, `AddMig` and `FinCheck`.
- XAPI failure: `XapiCallFails`, which can hit any XAPI step. A failure
  at `DestroyVif` leaves the VIF its `VIF.unplug` detached, with
  `kvp_enabled` still set.
- Decorated calls: `CallWaitOk`/`CallWaitTimeout` (`wait_for_service`),
  and `HttpUnreachable`, `HttpUnauthorized`, `HttpServed` and
  `HttpServerError` for the HTTP request's outcomes (`Authorized`: the
  Basic header carries the service's current credentials).
- Request arrival: `Receive` for a request that reaches a client
  operation (`Routable`), `Refuse` for one refused first. A request is a
  parse outcome (`Ops`: an operation, `"malformed"` for a path
  `_path_to_dict` rejects or without `vm`, `"unroutable"` for a POST
  naming no operation) and the VM uuid it names (`VmIds`). `do_POST`
  answers every refusal 404. `do_GET` builds its `KVPHTTPSClient` outside
  the `try`, so a GET naming an unknown VM is closed unanswered. Listener: `ReSetupVm`, a new client and
  `_setup` alone, as `re_setup_vms` calls it.

The continuations `SetupReturn`, `CallRaise` and `CallReturn` are the
code's return and `except` paths. `Environment` is `AgentRestart`,
`CredentialDrift` and `Reboot`.

Environment assumptions, which are XAPI and agent behaviour not in this
repository:

- `VIF.create` refuses a device number already in use.
- `VIF.unplug` refuses a VIF that is not attached, and `VIF.plug` one that is.
- `add_to_other_config` raises `MAP_DUPLICATE_KEY`.
- A reboot re-plugs every VIF and rebuilds the subtree from
  `xenstore_data`, with `cmd/re-attach-daemon = 1` when a MAC is persisted.
- The agent restarts when the flag is 1 or it is down, with credentials
  different from its previous ones.
- The guest service is reachable only over a plugged management VIF.
- HTTP answers are: 401 when the credentials differ, 404 for an absent key
  on GET or DELETE, and a 5xx that may come before or after the write.
- A poll of `verify_completion` times out exactly when the flags are not
  ready (`ShouldTimeout`): the guest does not change during the wait.

### ChannelAbstract (`ChannelAbstract.tla`)

The channel as spec 4.2 describes it, translated from the specification
rather than from the code. Its variables are `tags` ("enabled",
"migrating"), `iface` (`"none"`, `"down"` when created but not attached,
`"up"`), and `cmd` (the command that passed its precondition). Its actions
are the phase steps:

- `Begin(c)`: PREPARE needs "enabled". FINISH needs "migrating" and
  clears it.
- `Detach`, `DestroyIface`, then `ClearEnabled` (Clearing: an attached
  interface is detached before it is destroyed, and a failure may stop
  the command between any two of them).
- `SetMigrating` (PREPARE's end).
- `CreateIface`, `AttachIface` (also a reboot), and `Enable`
  (Provisioning's end).
- `Abort`: a command failing after any step.

The refinement mapping, in `KVPChannel`, is `Abs == INSTANCE
ChannelAbstract WITH tags <- oc, iface <- AbsIface, cmd <- AbsCmd`.
`AbsIface` reads the KVP VIFs. `AbsCmd` is `scmd` while a step of SETUP,
PREPARE or FINISH runs, past its precondition check. The listener's
re-setup counts as a SETUP. A 401 repair inside a PUT is a SETUP too.

`ChannelRefinement == Abs!Spec` holds with the listener off. Checking it
shows four things:

- `kvp_enabled` is set only on one attached VIF.
- It is cleared only after the VIFs are gone. This is the order whose
  window kvpd.py:743 leaves.
- `kvpmigration_active` is set only by a PREPARE that found `kvp_enabled`
  and tore the channel down. This is spec 3's migration invariant.
- A VIF is created only on an untagged VM with no VIF.

With the listener on, the refinement fails where `re_setup_vms` creates a
VIF on a tagged VM that has one: the resetup_second_vif defect seen
through the abstract specification.

### RuleCompiler (`RuleCompiler.tla`, instance `MC_RuleCompiler.tla`)

State:

- Host, as XAPI and OVS show it:
  - `running`, `tagged` (`kvp_enabled`) and `hasVif` per VM.
  - `port`: the OVS port of `vif<domid>.<device>`, or NONE while the VM is
    halted or has no VIF.
  - `bridgeUp`: whether `ifconfig xenapi` gives a MAC.
  - `flows`: a set of `[src, dst, act]` records.
  - A VM's management VIF MAC is identified with the VM.
- Refresh: `rpc` (idle, gen, compile), `todo` (VMs from `get_vms` not yet
  visited), `paths` (`self.paths`), `parsed` (the `VIFs` store of
  `parse_vifs`), `pending` (paths not yet compiled) and `rules`.
- History:
  - `dirty`: the VMs changed since the refresh began. A bridge event marks
    them all.
  - `outcome`: how the last refresh ended (installed, skipped or raised).

Actions follow the code's steps:

- `GenerateStart` is `self.paths = []` + `get_vms`.
- `GenVm(v)` is one VM of the loop. It reads the VIF and `get_dom0_mac` at
  that moment.
- The three ways into `enforce_rules` are:
  - `EnforceNoPaths`: the early return on no paths.
  - `EnforceNoBridge`: `parse_vifs`, then no dom0 MAC.
  - `EnforceParse`: the parse and the MAC are found.
- `CompileOk(p)` / `CompileRaise(p)` handle one path. The destination's
  MAC must be in `parse_vifs`, `get_domid` must find a domain, and
  `dump-ports` must find the port, or the exception leaves `refresh`.
- `Install`: every rule is an `add-flow` that replaces the flow with the
  same match. `del-flows` is never run.

The environment is `VMStart` (which attaches the VM's VIFs), `VMStop`,
`_clearup` of a running VM one XAPI call at a time (`UnplugVif`,
`DestroyVif`, `ClearTag`; `plugged` is the VIF's `currently_attached`),
`Provision` (`_setup` of a running VM) and `BridgeAppears`. A `_clearup`
may stop after any of its calls, so a tagged, running VM whose
management VIF is detached is reachable (`Detached`). They share
the `MaxChurn` budget. OVS gives a starting or replugged VIF any port not
in use.

Not in this module:

- A VM with two management VIFs (the leftover of a re-setup).
  KVPChannel covers that case.
- A failing `VIF.plug` inside `Provision`: it leaves an untagged VM,
  which no refresh looks at.
- Snapshots, which the filter drops and which never run.
- A failing `add-flow`, whose error the code only logs.

### Listener (`Listener.tla`, instance `MC_Listener.tla`)

State:

- Pool: `exists`, `startTime` (`VM_metrics.start_time` as a counter),
  `resident` (`resident_on` is this host) per VM.
- `queue`: the events XAPI holds for the registered session. Each one
  carries the VM and the start time at the moment it was raised. Before
  `event.register` nothing is queued.
- The loop: `lpc` (init, register, host, snap, next, setup, refresh,
  dead), `snap` (the records `perform_service` read before
  `event.next()`) and `todo` (the triggers not yet re-set-up).
- History: `pending` (the VM started here after `event.register`, when
  XAPI begins to queue its events (`Registered`), and has not been
  re-set-up since), `caught` (that start came while `event.next()` waited, and no
  VM was created in the same wait) and `setups` (re-setups since the
  last start).

Actions: `BuildRules`/`RulesFail` (`OVSRules()`), `StartListener`
(`event.register`), `FindHost`/`StartFails` (`get_xs_inventory` and
the host lookup), `ReadMetrics`, `NextBatch` (the batch goes through
`Triggers`: strictly later start time, deduplicated, resident here; an
event whose VM is missing from the snapshot raises `KeyError` and drops
the whole batch), `ReSetup(v)`, `RefreshDone` and `RefreshRaises` (the
refresh is called outside `run_forever`'s `try`). The pool's `Create`,
`Start` and `MetricsUpdate` each raise one event.

Fairness: `WF_vars(ListenerStep)`. The child runs `while True` and
blocks only in `event.next()`, which is the enabling condition of
`NextBatch`. The pool and the faults get no fairness. Deadlock is not
checked (`CHECK_DEADLOCK FALSE`): a loop blocked in `event.next()` on an
idle pool, or a dead child, is a state the program really stays in.

### Daemon (`Daemon.tla`, instance `MC_Daemon.tla`)

State: per invocation, `pc` (idle, parse, daemonize, logging, bind,
pidfile, serve, exit), `opt` (`-i`, `-p` with port 0 possible, `-s`,
`-d`) and `status` (the exit status its launcher saw). Shared:
`tcpOwner` (the process listening on the port), `sockPath` (the server
that bound the socket path last) and `pidfile`.

Actions follow `__main__`:

- `Launch` and `ParseOptions`: exit 1 without a transport.
- `Daemonize`: the launcher gets 0 here.
- `ConfigureLogging`: the log file may fail, uncaught.
- `CreateServer`:
  - The TCP bind fails on a port in use, uncaught.
  - The UNIX server unlinks the path and binds.
- `WritePid`: a failure is caught and `__main__` ends with 0.
- `Stop`: `serve_forever` ends, or the process is killed.

The TCP socket closes when its process exits. The socket file stays.

## 4. Runs

| Run | cfg | Expect | What it shows |
|---|---|---|---|
| channel | `KVPChannel.cfg` | pass | Listener on, one fault of each kind (XAPI call, HTTP 5xx, credential drift, reboot), malformed requests and requests naming another VM. `ResponseReflectsState`: every 200 is true when sent. `RetryMasksDrift`: on a ready channel, drift alone never fails a PUT, because the 401 repair plus the handler's second PUT absorb it, even when the drift lands inside the repair. About 1.4M states, 25 s. |
| one_mgmt_vif | `OneMgmtVif.cfg` | pass | With the listener off, as in this build. `AtMostOneMgmtVif`: no fault, at any step of any chain, leaves two management VIFs. `ChannelRefinement`: every behaviour of kvpd's commands, faults and 401 repairs included, is a behaviour of `ChannelAbstract`, also a `VIF.destroy` failing after its `VIF.unplug` (a command stopped inside Clearing with the interface detached). `MigrationRoundTrip` (spec 8): a FINISH right after a successful PREPARE, meeting no fault, answers 200 with `kvp_enabled` back and `kvpmigration_active` gone, also across a reboot in between (a new domain, the tree rebuilt from `xenstore_data`). `RequestTerminates` (under `FairSpec`): every request the handler takes ends, whatever nesting of retries and SETUPs it goes through. About 720k states, 45 s. |
| resetup_second_vif | `ResetupSecondVif.cfg` | violation | `AtMostOneMgmtVif`: SETUP, then a reboot; `re_setup_vms` runs `_setup` without `_clearup` and creates a second KVP VIF (kvpd.py:530). |
| setup_unanswered | `SetupUnanswered.cfg` | violation | `EveryRequestAnswered`: a failed "setup" command gets no response (`self.return_error`, kvpd.py:1015). |
| device_collision | `DeviceCollision.cfg` | violation | `FaultFreeSetupSucceeds`: ordinary VIFs at devices 0 and 3 make `_create_vif` pick the taken device 3 on every SETUP (kvpd.py:730). |
| unplugged_leftover | `UnpluggedLeftover.cfg` | violation | `FaultFreeSetupSucceeds`: after one failed `VIF.plug`, the unplugged KVP VIF makes every later SETUP fail in `_cleanup_vifs` (kvpd.py:715). |
| rule_compiler | `RuleCompiler.cfg` | pass | `RefreshCoversChannels`: after a completed refresh, every channel whose VM was left alone has both flows, forwarding to its current port, whatever the other VMs did meanwhile. `RaiseOnlyOnChurn`: a refresh raises only if a VM or the bridge changed while it ran, or a VM is left running and tagged with a detached management VIF by a half-failed `_clearup` (its port cannot be resolved); a halted or untagged VM never makes a quiet refresh raise. Three VMs: about 2.1M states, 35 s. |
| stale_flows | `StaleFlows.cfg` | violation | `NoStaleFlows`: m1's channel is torn down, m2 is provisioned, and a refresh on the now quiet host completes. m1's two flows stay on the bridge because `del-flows` is never run (kvpd.py:404). Spec 4.1 and 5 say the refresh replaces the whole rule set. |
| listener | `Listener.cfg` | pass | A VM created after start-up, a constructor or a refresh that may raise. `SetupOncePerStart`: a start is re-set-up at most once, whether its events come in one batch or several. `WaitingStartHandled`: a start that comes while `event.next()` waits is eventually re-set-up, unless a `KeyError` batch dropped it or the loop died. About 40k states. |
| lost_start | `LostStart.cfg` | violation | `EveryStartHandled` (over the starts after `event.register`, the only ones the loop can see): a start between the registration and the metrics read, or while the actions run, is in the snapshot, so its event is filtered out and the VM is never re-set-up (kvpd.py:486). |
| listener_dies | `ListenerDies.cfg` | violation | `MonitoringNeverStops`: a refresh that raises ends `run_forever`, because the actions run outside its `try` (kvpd.py:443). |
| socket_takeover | `SocketTakeover.cfg` | violation | `ServerReachable` (spec 6: one transport active per process): a second `kvpd -s` unlinks the first one's socket path and binds it, and the first, still serving, is reachable by no one (httpservice.py:169). |

Found but without a run, because the project keeps at most one run per
question:

- The retry decorator resends a GET answered 404. Every `HTTPError` is a
  `URLError` (kvpd.py:112), while the spec says only 401 is retried.
  `ResponseReflectsState` still holds.
- A `VIF.destroy` that fails after its `VIF.unplug` (kvpd.py:716)
  leaves a running VM tagged `kvp_enabled` with a detached management
  VIF. Every later SETUP fails at `VIF.unplug` of it, and every refresh
  on the host raises in `get_ovs_port_number` (`dump-ports` fails and
  `re.search` gets None), so no VM's flows are installed until that VM
  restarts. Both models reach the state (`XapiCallFails` at
  `destroy_vif`; `Detached` in RuleCompiler); `RaiseOnlyOnChurn` names
  it as the one cause of a quiet-host raise.
- `do_GET` builds `KVPHTTPSClient(rec['vm'])` outside its `try`
  (kvpd.py:961). A GET naming a VM XAPI does not know gets no answer,
  while spec 4.3 answers 404. The `channel` run reaches this state
  (`Refuse`). `EveryRequestAnswered` is checked only by
  setup_unanswered, whose configuration names the guest alone, so its
  trace stays the SETUP one.
- A daemonized kvpd whose log file or TCP port fails dies after its
  launcher exited 0 (kvpd.py:1152).

Bounds and why they are enough:

- KVPChannel:
  - One key and one value: requests never touch two keys, and a second
    value would show nothing more than "stored / absent".
  - Two credentials: enough for "matches" vs "drifted".
  - One ordinary VIF at device 0, so the management VIF is device 2.
  - One fault of each kind, each at any step. This reaches a failure
    at every XAPI call of every chain (between a VIF's unplug and its
    destroy included), a reboot at every step (stale `domid`), and a
    drift at every point of the 401 repair.
  - Two VM uuids in the `channel` run (the guest and another), one
    elsewhere, so the violation runs keep their own traces.
  - Requests are unbounded. The state is finite because locals reset
    between requests.
- RuleCompiler:
  - Three VMs (symmetric model values) and four ports. A port freed by
    one VM can be reused by another. A refresh can visit one VM while the
    other two churn, before and after it in the refresh's order.
  - `MaxChurn = 9` gives each VM three events (start, provision,
    unplug) in one behaviour, or one VM a start, a provision and a
    whole `_clearup`, with room for the others and the bridge.
  - Refreshes are unbounded.
- Listener:
  - Two VMs, one of them created later.
    A run with three VMs (two at start, one created later) also holds,
    with 4.5M states in six minutes and more, too slow to run routinely.
  - Two starts per VM, so a VM can start, be handled and start again.
  - One metrics change that is not a start: enough for two events of one
    start to land in one batch or in two.
  - One raising refresh.
- Daemon (socket_takeover):
  - Two invocations (symmetric): a second start against a first one that
    serves, failed, or stopped.
  - Ports 0 and one real port.
  - One file failure.

Fairness:

- Listener: only the loop is fair (see Listener).
- KVPChannel: `FairSpec` adds weak fairness of `KvpdStep`, the handler's
  own steps (the SETUP chain and the decorated calls). The handler is one
  thread, and it runs whenever a request is being served. Both polls end
  through `should_timeout`, so a waiting step is always enabled. XAPI and
  xenstore calls return or raise. The HTTP calls are the exception: they
  have no timeout (kvpd.py:662). Fairness assumes that they return, so
  `RequestTerminates` does not cover a guest that never answers. The
  environment (agent, drift, reboots) gets no fairness.
- RuleCompiler and Daemon: all properties are safety properties.

## 5. Not modelled

- What makes a path malformed. `_path_to_dict`'s string handling is
  abstracted to its outcome (`"malformed"` or an operation). A transient
  XAPI failure inside `KVPHTTPSClient.__init__` is not modelled apart: it
  ends the request exactly as an unknown uuid does.
- The race of the listener's `_setup` with a request the server is in
  the middle of serving. `ReSetupVm` only runs while the handler is idle.
  Modelling the race needs a second copy of the SETUP program counters
  and locals (`spc`, `scmd`, `mac`, `cDomid`) for the listener process.
  The listener is not started in this build (kvpd.py:1167). With the
  listener on, its `_setup` already breaks `AtMostOneMgmtVif` and
  `ChannelRefinement` while the handler is idle, so the race would only
  repeat that defect.
- The composition of `Listener` with `RuleCompiler`. `Listener`'s
  refresh is one step that completes or raises; `RuleCompiler` checks
  what a refresh does step by step against churning VMs. Joining the two
  would multiply two state spaces that already take tens of seconds each,
  and the listener's only use of the result is whether the refresh raised.
- Blocking HTTP calls. urllib2 is called with no timeout (kvpd.py:662),
  and a call that never returns is not a step of the model.
- httpservice's XML-RPC plumbing (`reopenlog`, `log`, the `Rpc_light_failure`
  classes, the `dumps` and `address_string` patches): no state any
  component reads.
- The code generators (`src/src`, `src/doc`) and the pywbem test scripts.
  They are string templating and end-to-end scripts against a live host.
- Key and value length limits (spec 8). They are enforced by the guest
  service and the CIM provider, not by kvpd.
