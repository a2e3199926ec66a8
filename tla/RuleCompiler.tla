---------------------------- MODULE RuleCompiler ----------------------------
(***************************************************************************)
(* The isolation rule compiler of kvpd: OVSRules.refresh (kvpd.py:149-409) *)
(* run against a host whose VMs start, stop and have their management VIF *)
(* torn down and provisioned while the refresh is in progress.            *)
(*                                                                         *)
(* A VM has at most one VIF on the internal management network, and that  *)
(* VIF's MAC is identified with the VM (XAPI derives it from the VM's seed *)
(* and the device, so a re-created VIF keeps it). A VIF's OVS port exists  *)
(* only while the VM runs with the VIF plugged. The flow table maps a      *)
(* match (dl_src, dl_dst) to one action: "add-flow" with an existing match *)
(* replaces that flow and leaves every other flow in place.                *)
(***************************************************************************)
EXTENDS Naturals, FiniteSets

CONSTANTS
    VMs,        \* the VMs of the host (and the MACs of their management VIFs)
    DOM0,       \* the MAC of bridge xenapi, once ifconfig shows it
    Ports,      \* OVS port numbers
    NONE,
    MaxChurn    \* bound on the VM and bridge events of one behaviour

ASSUME DOM0 \notin VMs /\ NONE \notin VMs \cup Ports \cup {DOM0}
ASSUME MaxChurn \in Nat

VARIABLES
    running,    \* power_state = "Running"
    tagged,     \* "kvp_enabled" \in other_config
    hasVif,     \* the VM has its management VIF
    plugged,    \* that VIF is attached (currently_attached)
    port,       \* OVS port of vif<domid>.<device>, or NONE
    bridgeUp,   \* get_dom0_mac() finds the bridge's MAC
    flows,      \* the flow table of bridge xenapi
    rpc,        \* refresh stage
    todo,       \* VMs returned by get_vms() not yet visited
    paths,      \* self.paths
    parsed,     \* VMs whose VIFs are in parse_vifs()
    pending,    \* paths not yet compiled
    rules,      \* the compiled rules
    dirty,      \* history: VMs changed since the refresh began
    outcome,    \* history: how the last refresh ended
    nChurn

vars == <<running, tagged, hasVif, plugged, port, bridgeUp, flows, rpc, todo, paths,
          parsed, pending, rules, dirty, outcome, nChurn>>
hostVars == <<running, tagged, hasVif, plugged, port, bridgeUp>>
refreshVars == <<rpc, todo, paths, parsed, pending, rules>>

Macs == VMs \cup {DOM0, NONE}
Flow == [src : Macs, dst : Macs, act : Ports \cup {"local"}]

(* vm_filt: kvp_enabled and Running (snapshots are never running). *)
Filt(v) == tagged[v] /\ running[v]

(* A get_dom0_mac that returns ifconfig's raw empty output. *)
Dom0MacRaw == IF bridgeUp THEN DOM0 ELSE ""

(* get_dom0_mac(): "ifconfig <bridge>" through make_local_call, which    *)
(* returns None when the command fails; splitting None raises, caught:  *)
(* the MAC is None while the bridge is not visible.                     *)
Dom0Mac == IF bridgeUp THEN DOM0 ELSE NONE

(* add-flow: the new rules replace the flows with the same match. *)
AddFlows(table, new) ==
    LET matched == {<<r.src, r.dst>> : r \in new}
    IN  {f \in table : <<f.src, f.dst>> \notin matched} \cup new

(* get_device, get_domid and get_ovs_port_number all succeed for dst. *)
Resolvable(d) == d \in parsed /\ running[d] /\ port[d] # NONE

Abort(how) ==
    /\ rpc' = "idle" /\ todo' = {} /\ paths' = paths /\ parsed' = {}
    /\ pending' = {} /\ rules' = {}
    /\ outcome' = how

-----------------------------------------------------------------------------
(* generate_isolation_rules *)

(* A generation that skips the power-state filter. *)
GenerateStartAnyPower ==
    /\ rpc = "idle"
    /\ rpc' = "gen"
    /\ paths' = {}
    /\ todo' = {v \in VMs : tagged[v]}
    /\ dirty' = {}
    /\ outcome' = "none"
    /\ UNCHANGED <<hostVars, flows, parsed, pending, rules, nChurn>>

(* refresh -> generate: self.paths = [], get_vms(). *)
GenerateStart ==
    /\ rpc = "idle"
    /\ rpc' = "gen"
    /\ paths' = {}
    /\ todo' = {v \in VMs : Filt(v)}
    /\ dirty' = {}
    /\ outcome' = "none"
    /\ UNCHANGED <<hostVars, flows, parsed, pending, rules, nChurn>>

(* A generation that adds only the guest -> dom0 path. *)
GenVmOneWay(v) ==
    /\ rpc = "gen" /\ v \in todo
    /\ todo' = todo \ {v}
    /\ paths' = IF hasVif[v] THEN paths \cup {<<v, Dom0Mac>>} ELSE paths
    /\ UNCHANGED <<hostVars, flows, rpc, parsed, pending, rules, dirty,
                   outcome, nChurn>>

(* One VM of the loop: its VIF on the management network, if any, gets a *)
(* path to and a path from get_dom0_mac() as read now.                   *)
GenVm(v) ==
    /\ rpc = "gen" /\ v \in todo
    /\ todo' = todo \ {v}
    /\ paths' = IF hasVif[v] THEN paths \cup {<<v, Dom0Mac>>, <<Dom0Mac, v>>}
                             ELSE paths
    /\ UNCHANGED <<hostVars, flows, rpc, parsed, pending, rules, dirty,
                   outcome, nChurn>>

-----------------------------------------------------------------------------
(* enforce_rules *)

(* "if not self.paths: return". *)
EnforceNoPaths ==
    /\ rpc = "gen" /\ todo = {} /\ paths = {}
    /\ Abort("skipped")
    /\ UNCHANGED <<hostVars, flows, dirty, nChurn>>

(* parse_vifs(), then get_dom0_mac(): no MAC, return without error. *)
EnforceNoBridge ==
    /\ rpc = "gen" /\ todo = {} /\ paths # {}
    /\ ~bridgeUp
    /\ Abort("skipped")
    /\ UNCHANGED <<hostVars, flows, dirty, nChurn>>

(* OVSRules.VIFs: the MAC -> (VIF ref, record) store parse_vifs fills    *)
(* with every VIF of the VMs get_vms returns (a VM's MAC stands for it).  *)
VIFs == {v \in VMs : Filt(v) /\ hasVif[v]}

EnforceParse ==
    /\ rpc = "gen" /\ todo = {} /\ paths # {}
    /\ bridgeUp
    /\ rpc' = "compile"
    /\ parsed' = VIFs
    /\ pending' = paths
    /\ rules' = {}
    /\ UNCHANGED <<hostVars, flows, todo, paths, dirty, outcome, nChurn>>

(* One path of the loop: "local" towards dom0, else the OVS port of the *)
(* destination's VIF, looked up now.                                    *)
CompileOk(p) ==
    /\ rpc = "compile" /\ p \in pending
    /\ p[2] = DOM0 \/ Resolvable(p[2])
    /\ pending' = pending \ {p}
    /\ rules' = rules \cup
         {[src |-> p[1], dst |-> p[2],
           act |-> IF p[2] = DOM0 THEN "local" ELSE port[p[2]]]}
    /\ UNCHANGED <<hostVars, flows, rpc, todo, paths, parsed, dirty,
                   outcome, nChurn>>

(* The MAC is not in parse_vifs(), get_domid() times out, or dump-ports *)
(* finds no port: the exception leaves refresh.                        *)
CompileRaise(p) ==
    /\ rpc = "compile" /\ p \in pending
    /\ p[2] # DOM0 /\ ~Resolvable(p[2])
    /\ Abort("raised")
    /\ UNCHANGED <<hostVars, flows, dirty, nChurn>>

(* "del-flows" is built but never run; each rule is an add-flow. *)
Install ==
    /\ rpc = "compile" /\ pending = {}
    /\ flows' = AddFlows(flows, rules)
    /\ Abort("installed")
    /\ UNCHANGED <<hostVars, dirty, nChurn>>

Refresh ==
    \/ GenerateStart
    \/ \E v \in VMs : GenVm(v)
    \/ EnforceNoPaths \/ EnforceNoBridge \/ EnforceParse
    \/ \E p \in paths : CompileOk(p) \/ CompileRaise(p)
    \/ Install

-----------------------------------------------------------------------------
(* The host: VM lifecycle, SETUP and _clearup of other processes, and the *)
(* bridge appearing at boot.                                              *)

FreePorts == Ports \ {port[w] : w \in VMs}

Churn(v) ==
    /\ nChurn < MaxChurn
    /\ nChurn' = nChurn + 1
    /\ dirty' = dirty \cup {v}

(* A start attaches the VM's VIFs; each gets an OVS port. *)
VMStart(v) ==
    /\ ~running[v] /\ Churn(v)
    /\ running' = [running EXCEPT ![v] = TRUE]
    /\ IF hasVif[v] THEN /\ plugged' = [plugged EXCEPT ![v] = TRUE]
                         /\ \E n \in FreePorts : port' = [port EXCEPT ![v] = n]
                    ELSE UNCHANGED <<plugged, port>>
    /\ UNCHANGED <<tagged, hasVif, bridgeUp>>

VMStop(v) ==
    /\ running[v] /\ Churn(v)
    /\ running' = [running EXCEPT ![v] = FALSE]
    /\ plugged' = [plugged EXCEPT ![v] = FALSE]
    /\ port' = [port EXCEPT ![v] = NONE]
    /\ UNCHANGED <<tagged, hasVif, bridgeUp>>

(* _clearup of a running VM (kvpd.py:705-716, 740-745), one XAPI call per *)
(* action; a failure stops it after any of them. VIF.unplug: the port     *)
(* goes away, the VIF and the tag stay.                                   *)
UnplugVif(v) ==
    /\ running[v] /\ plugged[v] /\ Churn(v)
    /\ plugged' = [plugged EXCEPT ![v] = FALSE]
    /\ port' = [port EXCEPT ![v] = NONE]
    /\ UNCHANGED <<running, tagged, hasVif, bridgeUp>>

(* VIF.destroy of the VIF just unplugged. *)
DestroyVif(v) ==
    /\ running[v] /\ hasVif[v] /\ ~plugged[v] /\ Churn(v)
    /\ hasVif' = [hasVif EXCEPT ![v] = FALSE]
    /\ UNCHANGED <<running, tagged, plugged, port, bridgeUp>>

(* remove_from_other_config(kvp_tag), once no KVP VIF is left. *)
ClearTag(v) ==
    /\ tagged[v] /\ ~hasVif[v] /\ Churn(v)
    /\ tagged' = [tagged EXCEPT ![v] = FALSE]
    /\ UNCHANGED <<running, hasVif, plugged, port, bridgeUp>>

(* _setup of a running VM: VIF created and plugged, tag set. *)
Provision(v) ==
    /\ running[v] /\ ~hasVif[v] /\ Churn(v)
    /\ hasVif' = [hasVif EXCEPT ![v] = TRUE]
    /\ plugged' = [plugged EXCEPT ![v] = TRUE]
    /\ tagged' = [tagged EXCEPT ![v] = TRUE]
    /\ \E n \in FreePorts : port' = [port EXCEPT ![v] = n]
    /\ UNCHANGED <<running, bridgeUp>>

BridgeAppears ==
    /\ ~bridgeUp /\ nChurn < MaxChurn
    /\ bridgeUp' = TRUE
    /\ nChurn' = nChurn + 1
    /\ dirty' = VMs
    /\ UNCHANGED <<running, tagged, hasVif, plugged, port>>

Host ==
    /\ \/ BridgeAppears
       \/ \E v \in VMs : \/ VMStart(v) \/ VMStop(v) \/ Provision(v)
                         \/ UnplugVif(v) \/ DestroyVif(v) \/ ClearTag(v)
    /\ UNCHANGED <<flows, refreshVars, outcome>>

-----------------------------------------------------------------------------

Init ==
    /\ running = [v \in VMs |-> FALSE]
    /\ tagged = [v \in VMs |-> FALSE]
    /\ hasVif = [v \in VMs |-> FALSE]
    /\ plugged = [v \in VMs |-> FALSE]
    /\ port = [v \in VMs |-> NONE]
    /\ bridgeUp \in BOOLEAN
    /\ flows = {}
    /\ rpc = "idle" /\ todo = {} /\ paths = {} /\ parsed = {}
    /\ pending = {} /\ rules = {}
    /\ dirty = {}
    /\ outcome = "none"
    /\ nChurn = 0

Next == Refresh \/ Host

Spec == Init /\ [][Next]_vars

-----------------------------------------------------------------------------
(* Properties *)

(* A VM has a KVP channel: running, tagged, with its management VIF. *)
Channel(v) == Filt(v) /\ hasVif[v]

TypeOK ==
    /\ running \in [VMs -> BOOLEAN] /\ tagged \in [VMs -> BOOLEAN]
    /\ hasVif \in [VMs -> BOOLEAN] /\ plugged \in [VMs -> BOOLEAN]
    /\ port \in [VMs -> Ports \cup {NONE}]
    /\ bridgeUp \in BOOLEAN
    /\ flows \subseteq Flow /\ rules \subseteq Flow
    /\ rpc \in {"idle", "gen", "compile"}
    /\ todo \subseteq VMs /\ parsed \subseteq VMs /\ dirty \subseteq VMs
    /\ paths \subseteq Macs \X Macs /\ pending \subseteq paths
    /\ outcome \in {"none", "installed", "skipped", "raised"}
    /\ nChurn \in 0..MaxChurn

(* Every channel whose VM was left alone since the last refresh began,  *)
(* and that refresh installed its rules: the table lets the guest reach *)
(* dom0 and forwards dom0's traffic for the guest to the port of its    *)
(* own VIF, however the other VMs churned meanwhile (refresh, kvpd.py   *)
(* 193-203, generate_isolation_rules 236-265, enforce_rules 353-409).   *)
RefreshCoversChannels ==
    (rpc = "idle" /\ outcome = "installed") =>
        \A v \in VMs \ dirty :
            Channel(v) =>
                /\ [src |-> v, dst |-> DOM0, act |-> "local"] \in flows
                /\ [src |-> DOM0, dst |-> v, act |-> port[v]] \in flows

(* A channel left by a _clearup that failed after VIF.unplug: the VM is  *)
(* running and tagged, its management VIF exists but has no OVS port.     *)
Detached(v) == Filt(v) /\ hasVif[v] /\ ~plugged[v]

(* A refresh raises only when a VM or the bridge changed while it ran,   *)
(* or when a VM is left with a detached management VIF, whose port       *)
(* get_ovs_port_number cannot find (re.search on the None of a failed    *)
(* dump-ports): on a quiet host every other path it generates, a halted  *)
(* or untagged VM's included, can be compiled.                           *)
RaiseOnlyOnChurn ==
    outcome = "raised" => (dirty # {} \/ \E v \in VMs : Detached(v))

(* Spec 4.1 and 5: the refresh clears the bridge's flows and installs   *)
(* the full new set, so once a refresh completes on a quiet host every  *)
(* flow belongs to a current channel and forwards to its current port.  *)
(* The code never runs the del-flows it builds (kvpd.py:404).           *)
NoStaleFlows ==
    (rpc = "idle" /\ outcome = "installed" /\ dirty = {}) =>
        \A f \in flows :
            \/ f.src = DOM0 /\ Channel(f.dst) /\ f.act = port[f.dst]
            \/ f.dst = DOM0 /\ Channel(f.src) /\ f.act = "local"

=============================================================================
