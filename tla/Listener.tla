------------------------------- MODULE Listener -------------------------------
(***************************************************************************)
(* The event trigger loop of kvpd: VMStartListener.run_forever with        *)
(* perform_service, and the actions it runs, re_setup_vms and              *)
(* rules.refresh (kvpd.py:411-543).                                        *)
(*                                                                         *)
(* XAPI keeps the events of the registered class ("vm_metrics") in a queue *)
(* from event.register on; event.next returns and empties the queue,       *)
(* blocking while it is empty. Each event carries the VM_metrics record as *)
(* it was when the event was raised: here its VM and start_time. A start   *)
(* time is a counter; a VM_metrics record exists once its VM does.         *)
(***************************************************************************)
EXTENDS Naturals, Sequences, FiniteSets

CONSTANTS
    VMs,              \* the VMs of the pool
    InitVMs,          \* the VMs that exist when the listener starts
    NONE,
    MaxStarts,        \* bound on the starts of one VM
    MaxUpdates,       \* bound on metrics changes that are not starts
    MaxFaults,        \* bound on refreshes that raise
    StartMayFail      \* the constructors of the listener may raise

ASSUME InitVMs \subseteq VMs /\ NONE \notin Nat
ASSUME {MaxStarts, MaxUpdates, MaxFaults} \subseteq Nat /\ StartMayFail \in BOOLEAN

VARIABLES
    exists,     \* the VM and its VM_metrics record exist
    startTime,  \* VM_metrics.start_time
    resident,   \* VM.resident_on is this host
    queue,      \* the events not yet returned by event.next
    lpc,        \* where run_forever is
    snap,       \* the VM_metrics records read by perform_service
    todo,       \* triggers not yet re-set-up
    pending,    \* history: the VM started here and was not re-set-up since
    caught,     \* history: that start came while event.next was waiting
    setups,     \* history: re-setups of the VM since its last start
    nUpdates,
    nFaults

vars == <<exists, startTime, resident, queue, lpc, snap, todo, pending,
          caught, setups, nUpdates, nFaults>>
hostVars == <<exists, startTime, resident, queue, nUpdates>>
histVars == <<pending, caught, setups>>

Event == [vm : VMs, st : 0..MaxStarts]

EventSet(s) == {s[i] : i \in DOMAIN s}

-----------------------------------------------------------------------------
(* run_setup_listener's child: rules = OVSRules(), then                 *)
(* VMStartListener(actions), which registers for vm_metrics events and   *)
(* then looks this host up. A constructor that raises ends the child: its *)
(* except logs the exception. StartMayFail allows each raise.            *)

(* FirewallRules.__init__: log in, find the host internal management     *)
(* network and its bridge, read dom0's MAC.                               *)
BuildRules ==
    /\ lpc = "init"
    /\ lpc' = "register"
    /\ UNCHANGED <<hostVars, snap, todo, histVars, nFaults>>

(* get_internal_management_network raises: no such network. *)
RulesFail ==
    /\ lpc = "init" /\ StartMayFail
    /\ lpc' = "dead"
    /\ UNCHANGED <<hostVars, snap, todo, histVars, nFaults>>

(* XAPIEventListener.__init__: from event.register on, XAPI queues events. *)
StartListener ==
    /\ lpc = "register"
    /\ lpc' = "host"
    /\ UNCHANGED <<hostVars, snap, todo, histVars, nFaults>>

(* VMStartListener.__init__ reads INSTALLATION_UUID from the inventory and *)
(* looks the host up; run_forever starts.                                  *)
FindHost ==
    /\ lpc = "host"
    /\ lpc' = "snap"
    /\ UNCHANGED <<hostVars, snap, todo, histVars, nFaults>>

(* get_xs_inventory raises on a line without exactly one "=". *)
StartFails ==
    /\ lpc = "host" /\ StartMayFail
    /\ lpc' = "dead"
    /\ UNCHANGED <<hostVars, snap, todo, histVars, nFaults>>

-----------------------------------------------------------------------------
(* perform_service *)

(* VM_metrics.get_all_records(), before event.next(). *)
ReadMetrics ==
    /\ lpc = "snap"
    /\ snap' = [v \in VMs |-> IF exists[v] THEN startTime[v] ELSE NONE]
    /\ lpc' = "next"
    /\ UNCHANGED <<hostVars, todo, histVars, nFaults>>

(* A perform_service that queues the events rather than their VMs. *)
TriggersEvents(batch, sn) ==
    IF \E e \in batch : sn[e.vm] = NONE
    THEN {}
    ELSE {e \in batch : e.st > sn[e.vm] /\ resident[e.vm]}

(* A perform_service that compares with no start time. *)
TriggersAnyEvent(batch, sn) ==
    IF \E e \in batch : sn[e.vm] = NONE
    THEN {}
    ELSE {e.vm : e \in {e \in batch : resident[e.vm]}}

(* A perform_service that reads the metrics after event.next(). *)
TriggersSnapAfter(batch, sn) ==
    {e.vm : e \in {e \in batch : exists[e.vm] /\ e.st > startTime[e.vm]
                                              /\ resident[e.vm]}}

(* The triggers of a batch read against the snapshot sn: VMs of events   *)
(* whose start_time is later than the snapshot's, deduplicated, resident *)
(* here. An event whose metrics are not in the snapshot raises KeyError; *)
(* run_forever catches it and the batch gives no trigger at all.         *)
Triggers(batch, sn) ==
    IF \E e \in batch : sn[e.vm] = NONE
    THEN {}
    ELSE {e.vm : e \in {e \in batch : e.st > sn[e.vm] /\ resident[e.vm]}}

(* event.next() returns the queued events; the loop over them, then      *)
(* "if triggers:" runs the actions or goes back to perform_service.      *)
NextBatch ==
    /\ lpc = "next"
    /\ queue # <<>>
    /\ LET trig == Triggers(EventSet(queue), snap)
       IN  /\ todo' = trig
           /\ lpc' = IF trig = {} THEN "snap" ELSE "setup"
    /\ queue' = <<>>
    /\ UNCHANGED <<exists, startTime, resident, nUpdates, snap, histVars,
                   nFaults>>

-----------------------------------------------------------------------------
(* The actions: re_setup_vms, then rules.refresh *)

(* re_setup_vms: _setup of one VM; its exceptions are caught and logged. *)
ReSetup(v) ==
    /\ lpc = "setup" /\ v \in todo
    /\ todo' = todo \ {v}
    /\ lpc' = IF todo' = {} THEN "refresh" ELSE "setup"
    /\ pending' = [pending EXCEPT ![v] = FALSE]
    /\ caught' = [caught EXCEPT ![v] = FALSE]
    /\ setups' = [setups EXCEPT ![v] = @ + 1]
    /\ UNCHANGED <<hostVars, snap, nFaults>>

RefreshDone ==
    /\ lpc = "refresh"
    /\ lpc' = "snap"
    /\ UNCHANGED <<hostVars, snap, todo, histVars, nFaults>>

(* rules.refresh raises (RuleCompiler: when a VM changes while it runs); *)
(* the call is outside run_forever's try, so the exception ends          *)
(* run_forever and run_setup_listener's child logs it and returns.       *)
RefreshRaises ==
    /\ lpc = "refresh" /\ nFaults < MaxFaults
    /\ lpc' = "dead"
    /\ nFaults' = nFaults + 1
    /\ UNCHANGED <<hostVars, snap, todo, histVars>>

ListenerStep ==
    \/ BuildRules \/ StartListener \/ FindHost \/ ReadMetrics \/ NextBatch \/ RefreshDone
    \/ \E v \in VMs : ReSetup(v)

-----------------------------------------------------------------------------
(* The pool: VMs created, started (here or on another host), and their *)
(* metrics changed otherwise. Each change raises one event, queued for  *)
(* the listener once it has registered.                                 *)

(* event.register has run: XAPI queues the listener's events from now on. *)
Registered == lpc \notin {"init", "register"}

Raise(e) == queue' = IF Registered THEN Append(queue, e) ELSE queue

(* A VM exists that the snapshot of the current wait does not have. *)
CreatedInWait == lpc = "next" /\ \E w \in VMs : exists[w] /\ snap[w] = NONE

(* A VM created while event.next waits has its metrics event in the     *)
(* batch of the waiting starts, against a snapshot without its record:  *)
(* that batch raises KeyError, and those starts are no longer caught.   *)
Create(v) ==
    /\ ~exists[v]
    /\ exists' = [exists EXCEPT ![v] = TRUE]
    /\ Raise([vm |-> v, st |-> startTime[v]])
    /\ caught' = IF lpc = "next" THEN [w \in VMs |-> FALSE] ELSE caught
    /\ UNCHANGED <<startTime, resident, nUpdates, pending, setups>>

(* A start before registration is no start the loop could see: only the *)
(* starts after it are pending.                                          *)
Start(v) ==
    /\ exists[v] /\ startTime[v] < MaxStarts
    /\ startTime' = [startTime EXCEPT ![v] = @ + 1]
    /\ \E here \in BOOLEAN :
          /\ resident' = [resident EXCEPT ![v] = here]
          /\ pending' = [pending EXCEPT ![v] = here /\ Registered]
    /\ caught' = [caught EXCEPT ![v] = lpc = "next" /\ ~CreatedInWait]
    /\ setups' = [setups EXCEPT ![v] = 0]
    /\ Raise([vm |-> v, st |-> startTime'[v]])
    /\ UNCHANGED <<exists, nUpdates>>

MetricsUpdate(v) ==
    /\ exists[v] /\ nUpdates < MaxUpdates
    /\ nUpdates' = nUpdates + 1
    /\ Raise([vm |-> v, st |-> startTime[v]])
    /\ UNCHANGED <<exists, startTime, resident, histVars>>

Pool ==
    /\ \E v \in VMs : Create(v) \/ Start(v) \/ MetricsUpdate(v)
    /\ UNCHANGED <<lpc, snap, todo, nFaults>>

-----------------------------------------------------------------------------

Init ==
    /\ exists = [v \in VMs |-> v \in InitVMs]
    /\ startTime = [v \in VMs |-> 0]
    /\ resident = [v \in VMs |-> FALSE]
    /\ queue = <<>>
    /\ lpc = "init"
    /\ snap = [v \in VMs |-> NONE]
    /\ todo = {}
    /\ pending = [v \in VMs |-> FALSE]
    /\ caught = [v \in VMs |-> FALSE]
    /\ setups = [v \in VMs |-> 0]
    /\ nUpdates = 0
    /\ nFaults = 0

Next == ListenerStep \/ RulesFail \/ StartFails \/ RefreshRaises \/ Pool

(* run_forever is a "while True" loop of one process: it keeps taking *)
(* steps while it can. The pool and the faults are not fair.          *)
Spec == Init /\ [][Next]_vars /\ WF_vars(ListenerStep)

-----------------------------------------------------------------------------
(* Properties *)

TypeOK ==
    /\ exists \in [VMs -> BOOLEAN] /\ resident \in [VMs -> BOOLEAN]
    /\ startTime \in [VMs -> 0..MaxStarts]
    /\ queue \in Seq(Event)
    /\ lpc \in {"init", "register", "host", "snap", "next", "setup", "refresh", "dead"}
    /\ snap \in [VMs -> 0..MaxStarts \cup {NONE}]
    /\ todo \subseteq VMs
    /\ pending \in [VMs -> BOOLEAN] /\ caught \in [VMs -> BOOLEAN]
    /\ setups \in [VMs -> Nat]
    /\ nUpdates \in 0..MaxUpdates /\ nFaults \in 0..MaxFaults

(* Spec 1 and 4.4: one start of a VM leads to one channel setup. A start *)
(* reaches re_setup_vms once, even when its events (the start and later  *)
(* metrics changes) fall in one batch or in several.                     *)
SetupOncePerStart ==
    \A v \in VMs : setups[v] <= 1

(* A VM that starts on this host while perform_service waits in          *)
(* event.next is eventually re-set-up, unless a VM created in the same   *)
(* wait made the batch raise KeyError (caught is then cleared) or the    *)
(* loop has ended (listener_dies shows it can).                          *)
WaitingStartHandled ==
    \A v \in VMs :
        (pending[v] /\ caught[v]) ~> (~pending[v] \/ ~caught[v] \/ lpc = "dead")

(* Spec 4.4: every start of a VM on this host is eventually followed by *)
(* its re-setup; the loop must not miss a start.                        *)
EveryStartHandled ==
    \A v \in VMs : pending[v] ~> ~pending[v]

(* Spec 4.4: a failure while processing a batch is logged and the loop *)
(* goes on; a single bad event never stops the monitoring.             *)
MonitoringNeverStops ==
    lpc # "dead"

=============================================================================
