--------------------------- MODULE ChannelAbstract ---------------------------
(***************************************************************************)
(* What the Resilient Channel Client promises about one guest (spec 4.2):  *)
(* the guest's two tags, its management interface and the command that is *)
(* running, each SETUP, PREPARE_MIGRATION and FINISH_MIGRATION seen as the *)
(* phases the specification names:                                         *)
(*                                                                         *)
(*   SETUP:   Clearing (detach and destroy the interface, clear "enabled") *)
(*            Provisioning (create and attach an interface, set "enabled") *)
(*   PREPARE: requires "enabled"; Clearing; sets "migrating"               *)
(*   FINISH:  requires "migrating" and clears it; then as SETUP            *)
(*                                                                         *)
(* A command may fail after any phase step (a collaborator failure); it   *)
(* then stops where it is.  A guest reboot attaches an existing interface. *)
(* KVPChannel implements this specification (KVPChannel!ChannelRefinement) *)
(***************************************************************************)

CONSTANTS
  Enabled,     \* the "channel-enabled" tag
  Migrating    \* the "migration-in-progress" tag

VARIABLES
  tags,        \* the guest's significant tags
  iface,       \* its management interface: "none", "down" (not attached), "up"
  cmd          \* the command in progress after its precondition held, or "none"

vars == <<tags, iface, cmd>>

Commands == {"setup", "prepare", "finish"}

\* Provisioning belongs to SETUP and to FINISH_MIGRATION, not to PREPARE.
Provisions == cmd \in {"setup", "finish"}

TypeOK ==
  /\ tags \subseteq {Enabled, Migrating}
  /\ iface \in {"none", "down", "up"}
  /\ cmd \in Commands \cup {"none"}

Init ==
  /\ tags = {}
  /\ iface = "none"
  /\ cmd = "none"

\* A command passes its precondition: PREPARE needs "enabled", FINISH needs
\* "migrating" and clears it at once; SETUP has none.
Begin(c) ==
  /\ cmd = "none"
  /\ cmd' = c
  /\ CASE c = "setup"   -> UNCHANGED tags
       [] c = "prepare" -> Enabled \in tags /\ UNCHANGED tags
       [] c = "finish"  -> Migrating \in tags /\ tags' = tags \ {Migrating}
  /\ UNCHANGED iface

\* Clearing begins by detaching the attached management interface ...
Detach ==
  /\ cmd # "none" /\ iface = "up"
  /\ iface' = "down"
  /\ UNCHANGED <<tags, cmd>>

\* ... and destroys it.
DestroyIface ==
  /\ cmd # "none" /\ iface = "down"
  /\ iface' = "none"
  /\ UNCHANGED <<tags, cmd>>

\* Clearing ends: "enabled" is cleared once no interface is left.
ClearEnabled ==
  /\ cmd # "none" /\ iface = "none"
  /\ tags' = tags \ {Enabled}
  /\ UNCHANGED <<iface, cmd>>

\* PREPARE ends: the channel is torn down and "migrating" is set.
SetMigrating ==
  /\ cmd = "prepare" /\ iface = "none"
  /\ Enabled \notin tags /\ Migrating \notin tags
  /\ tags' = tags \cup {Migrating}
  /\ cmd' = "none"
  /\ UNCHANGED iface

\* Provisioning: a fresh interface, on a guest with no interface and
\* without the "enabled" tag.
CreateIface ==
  /\ Provisions /\ iface = "none" /\ Enabled \notin tags
  /\ iface' = "down"
  /\ UNCHANGED <<tags, cmd>>

\* The interface is attached, by the command or by a reboot of the guest.
AttachIface ==
  /\ iface = "down"
  /\ iface' = "up"
  /\ UNCHANGED <<tags, cmd>>

\* Provisioning ends: "enabled" is set on an attached interface.
Enable ==
  /\ Provisions /\ iface = "up"
  /\ tags' = tags \cup {Enabled}
  /\ cmd' = "none"
  /\ UNCHANGED iface

\* The command fails and stops where it is.
Abort ==
  /\ cmd # "none"
  /\ cmd' = "none"
  /\ UNCHANGED <<tags, iface>>

Next ==
  \/ \E c \in Commands : Begin(c)
  \/ Detach \/ DestroyIface \/ ClearEnabled \/ SetMigrating
  \/ CreateIface \/ AttachIface \/ Enable \/ Abort

Spec == Init /\ [][Next]_vars

=============================================================================
