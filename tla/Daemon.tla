-------------------------------- MODULE Daemon --------------------------------
(***************************************************************************)
(* The start-up of kvpd (kvpd.py:1099-1178): option parsing, daemonize     *)
(* (httpservice.py:106-155), configure_logging, the choice of a TCPServer  *)
(* or a UnixServer (httpservice.py:165-186), write_pid and serve_forever.  *)
(*                                                                         *)
(* Several kvpd invocations may run on one host (a restart, a second       *)
(* start by hand): they share the TCP port, the domain socket path         *)
(* /var/xapi/plugin/xscim and the pid file /var/run/kvpd.pids. The shell   *)
(* that launched an invocation sees one exit status.                       *)
(***************************************************************************)
EXTENDS Naturals, FiniteSets

CONSTANTS
    Procs,      \* the kvpd invocations
    Ports,      \* values of --port that are given, 0 included
    NONE,
    MaxFaults   \* bound on failures of the log file and the pid file

ASSUME NONE \notin Procs /\ 0 \in Ports /\ MaxFaults \in Nat

VARIABLES
    pc,         \* where each invocation is
    opt,        \* its parsed settings
    status,     \* the exit status its launcher has seen, NONE while waiting
    tcpOwner,   \* the process listening on the TCP port
    sockPath,   \* the server the domain socket path was bound by
    pidfile,    \* the pids in /var/run/kvpd.pids
    nFaults

vars == <<pc, opt, status, tcpOwner, sockPath, pidfile, nFaults>>

(* The settings after "for setting in settings": -i, -p, -s, -d. *)
Settings == [ip : BOOLEAN, port : Ports \cup {NONE},
             service : BOOLEAN, daemon : BOOLEAN]

(* tcp = settings["ip"] and settings["port"]: port 0 is false in Python. *)
Tcp(o) == o.ip /\ o.port \notin {NONE, 0}

(* The process ends with code c. Its TCP socket closes with it; the      *)
(* socket file stays on disk. A daemon's launcher saw 0 long before.     *)
Exit(p, c) ==
    /\ pc' = [pc EXCEPT ![p] = "exit"]
    /\ status' = [status EXCEPT ![p] = IF @ = NONE THEN c ELSE @]
    /\ tcpOwner' = IF tcpOwner = p THEN NONE ELSE tcpOwner

-----------------------------------------------------------------------------
(* __main__ *)

Launch(p) ==
    /\ pc[p] = "idle"
    /\ \E o \in Settings : opt' = [opt EXCEPT ![p] = o]
    /\ pc' = [pc EXCEPT ![p] = "parse"]
    /\ UNCHANGED <<status, tcpOwner, sockPath, pidfile, nFaults>>

(* "if not tcp and not settings["service"]": sys.exit(1). *)
ParseOptions(p) ==
    /\ pc[p] = "parse"
    /\ IF ~Tcp(opt[p]) /\ ~opt[p].service
       THEN Exit(p, 1)
       ELSE /\ pc' = [pc EXCEPT ![p] = IF opt[p].daemon THEN "daemonize"
                                                        ELSE "logging"]
            /\ UNCHANGED <<status, tcpOwner>>
    /\ UNCHANGED <<opt, sockPath, pidfile, nFaults>>

(* daemonize: the parent and the first child _exit(0); the grandchild     *)
(* goes on with its descriptors closed and stdio on /dev/null.           *)
Daemonize(p) ==
    /\ pc[p] = "daemonize"
    /\ pc' = [pc EXCEPT ![p] = "logging"]
    /\ status' = [status EXCEPT ![p] = 0]
    /\ UNCHANGED <<opt, tcpOwner, sockPath, pidfile, nFaults>>

(* configure_logging opens /var/log/kvpd.log; an IOError is not caught. *)
ConfigureLogging(p) ==
    /\ pc[p] = "logging"
    /\ \/ /\ pc' = [pc EXCEPT ![p] = "bind"]
          /\ UNCHANGED <<status, tcpOwner, nFaults>>
       \/ /\ nFaults < MaxFaults
          /\ nFaults' = nFaults + 1
          /\ Exit(p, 1)
    /\ UNCHANGED <<opt, sockPath, pidfile>>

(* "if tcp: TCPServer(...) else: UnixServer(unix_socket, ...)". *)
UsesTcp(p) == Tcp(opt[p])

(* TCPServer binds ip:port with SO_REUSEADDR, which does not let a second *)
(* socket listen on a port in use: socket.error, not caught. UnixServer   *)
(* unlinks whatever is at the path, makes its directory and binds.        *)
CreateServer(p) ==
    /\ pc[p] = "bind"
    /\ IF UsesTcp(p)
       THEN IF tcpOwner # NONE
            THEN Exit(p, 1) /\ UNCHANGED sockPath
            ELSE /\ tcpOwner' = p
                 /\ pc' = [pc EXCEPT ![p] = "pidfile"]
                 /\ UNCHANGED <<status, sockPath>>
       ELSE /\ sockPath' = p
            /\ pc' = [pc EXCEPT ![p] = "pidfile"]
            /\ UNCHANGED <<status, tcpOwner>>
    /\ UNCHANGED <<opt, pidfile, nFaults>>

(* In the try: write_pid appends the pid, then serve_forever. If the pid *)
(* file cannot be opened, the exception is logged and __main__ ends:     *)
(* the process exits 0 without serving.                                  *)
WritePid(p) ==
    /\ pc[p] = "pidfile"
    /\ \/ /\ pidfile' = pidfile \cup {p}
          /\ pc' = [pc EXCEPT ![p] = "serve"]
          /\ UNCHANGED <<status, tcpOwner, nFaults>>
       \/ /\ nFaults < MaxFaults
          /\ nFaults' = nFaults + 1
          /\ Exit(p, 0)
          /\ UNCHANGED pidfile
    /\ UNCHANGED <<opt, sockPath>>

(* serve_forever ends: it raised (caught, logged, __main__ returns 0) or *)
(* the process was killed. Nothing removes its pid or its socket file.   *)
Stop(p) ==
    /\ pc[p] = "serve"
    /\ \E c \in {0, 1} : Exit(p, c)
    /\ UNCHANGED <<opt, sockPath, pidfile, nFaults>>

Init ==
    /\ pc = [p \in Procs |-> "idle"]
    /\ opt = [p \in Procs |-> NONE]
    /\ status = [p \in Procs |-> NONE]
    /\ tcpOwner = NONE
    /\ sockPath = NONE
    /\ pidfile = {}
    /\ nFaults = 0

Next ==
    \E p \in Procs :
        \/ Launch(p) \/ ParseOptions(p) \/ Daemonize(p)
        \/ ConfigureLogging(p) \/ CreateServer(p) \/ WritePid(p) \/ Stop(p)

Spec == Init /\ [][Next]_vars

-----------------------------------------------------------------------------
(* Properties *)

(* Spec 6: exactly one of the two transports is active per process: a   *)
(* kvpd in serve_forever is reachable through the TCP port or the domain *)
(* socket path it bound, whatever other invocations start meanwhile.    *)
(* UnixServer unlinks the path before binding (httpservice.py:169).     *)
ServerReachable ==
    \A p \in Procs :
        pc[p] = "serve" => IF Tcp(opt[p]) THEN tcpOwner = p ELSE sockPath = p

=============================================================================
