------------------------------- MODULE SingBox -------------------------------
(***************************************************************************)
(* The client's shared world: config.json on disk, the sing-box service    *)
(* that loads it, and the path to the server.  sing-box and systemd are    *)
(* external programs; they are modelled from the way gnpc uses them.       *)
(*                                                                         *)
(* Of config.json only the selector's "default" is kept: it is the one     *)
(* field that changes between two runs of `gnpc install`.                  *)
(***************************************************************************)
EXTENDS Naturals

CONSTANTS
    FaultKinds,   \* the kinds of fault that may strike in this instance
    MaxFaults     \* bound: how many faults strike in one behaviour

\* "write"     opening config.json for writing fails, the file is untouched
\* "enospc"    config.json is truncated and then its content cannot be written
\* "api"       a clash_api call gets no answer although sing-box is running
\* "systemctl" a systemctl call fails (no root and no password-free sudo)
\* "crash"     sing-box dies
\* "kill"      a gnpc process dies between two of its steps
\* "stwrite"   guard-state.json cannot be written
\* "latency"   urltest finds ssh faster than a healthy hy2 by the tolerance
AllFaultKinds ==
    {"write", "enospc", "api", "systemctl", "crash", "kill", "stwrite", "latency"}

ASSUME FaultAssumption ==
    /\ FaultKinds \subseteq AllFaultKinds
    /\ MaxFaults \in Nat

VARIABLES
    cfg,      \* config.json: the selector's default, or unreadable content
    svc,      \* the gnpc service as `systemctl is-active` sees it
    hot,      \* the selector's current choice in the running sing-box
    urltest,  \* what the urltest group auto-out currently selects
    hy2Up,    \* whether the hysteria2 path to the server works
    budget,   \* faults still to come
    seen      \* history: the kinds of fault that have struck

faultVars == <<budget, seen>>
boxVars == <<cfg, svc, hot, urltest, hy2Up, faultVars>>

AutoOut == "auto-out"
Hy2Out == "hy2-out"
SshOut == "ssh-out"
Tags == {AutoOut, Hy2Out, SshOut}

\* A truncated file, and a file that two writers wrote over each other.
Empty == "empty"
Garbled == "garbled"
Contents == Tags \cup {Empty, Garbled}

\* config::load succeeds: the file can be read and is JSON.
Readable(c) == c \in Tags

(***************************************************************************)
(* std::fs::write truncates the file when it opens it and then writes from *)
(* offset 0.  Content that another writer put there in between is one byte *)
(* longer when its default is "auto-out", and that byte stays behind the   *)
(* new text: "}" after the closing brace, which is not JSON.               *)
(***************************************************************************)
Overwrite(old, new) ==
    IF old \in {AutoOut, Garbled} /\ new # AutoOut THEN Garbled ELSE new

\* A fault strikes.
Strike(kind) ==
    /\ kind \in FaultKinds
    /\ budget > 0
    /\ budget' = budget - 1
    /\ seen' = seen \cup {kind}

NoFault == UNCHANGED faultVars

-----------------------------------------------------------------------------
(***************************************************************************)
(* sing-box comes up with the config on disk: the selector starts at its   *)
(* default (the cache file does not store the selected outbound), urltest  *)
(* at either member.  It exits at once when the config is not JSON; a      *)
(* service of Type=simple has then been "started" all the same.            *)
(***************************************************************************)
Boot ==
    \/ /\ Readable(cfg)
       /\ svc' = "active"
       /\ hot' = cfg
       /\ urltest' \in {Hy2Out, SshOut}
    \/ /\ ~Readable(cfg)
       /\ svc' = "failed"
       /\ UNCHANGED <<hot, urltest>>

\* service::start returning Ok: `systemctl start` does nothing to an active unit.
StartOk ==
    /\ NoFault
    /\ \/ svc = "active" /\ UNCHANGED <<svc, hot, urltest>>
       \/ svc # "active" /\ Boot

\* service::start returning Err.
StartErr ==
    /\ Strike("systemctl")
    /\ UNCHANGED <<svc, hot, urltest>>

\* service::stop: the outcome of systemctl is ignored and Ok is returned.
Stop ==
    \/ NoFault /\ svc' = "stopped"
    \/ Strike("systemctl") /\ UNCHANGED svc

-----------------------------------------------------------------------------
(* What happens without gnpc. *)

PathChanges ==
    /\ hy2Up' = ~hy2Up
    /\ UNCHANGED <<cfg, svc, hot, urltest, faultVars>>

SingBoxCrash ==
    /\ svc = "active"
    /\ Strike("crash")
    /\ svc' = "failed"
    /\ UNCHANGED <<cfg, hot, urltest, hy2Up>>

\* Restart=on-failure.  With an unreadable config the unit fails again.
SystemdRestart ==
    /\ svc = "failed"
    /\ Readable(cfg)
    /\ Boot
    /\ NoFault
    /\ UNCHANGED <<cfg, hy2Up>>

\* The 3m probe of urltest: it leaves a dead hy2 ...
UrltestFallsBack ==
    /\ svc = "active"
    /\ ~hy2Up
    /\ urltest = Hy2Out
    /\ urltest' = SshOut
    /\ UNCHANGED <<cfg, svc, hot, hy2Up, faultVars>>

\* ... and may or may not return to a healthy one (tolerance 300).
UrltestReturns ==
    /\ svc = "active"
    /\ hy2Up
    /\ urltest = SshOut
    /\ urltest' = Hy2Out
    /\ UNCHANGED <<cfg, svc, hot, hy2Up, faultVars>>

UrltestPrefersSsh ==
    /\ svc = "active"
    /\ hy2Up
    /\ urltest = Hy2Out
    /\ Strike("latency")
    /\ urltest' = SshOut
    /\ UNCHANGED <<cfg, svc, hot, hy2Up>>

BoxInit ==
    /\ cfg = AutoOut              \* build_config renders "default": "auto-out"
    /\ svc = "active"
    /\ hot = AutoOut
    /\ urltest = Hy2Out
    /\ hy2Up = TRUE
    /\ budget = MaxFaults
    /\ seen = {}

BoxStep ==
    \/ PathChanges
    \/ SingBoxCrash
    \/ SystemdRestart
    \/ UrltestFallsBack
    \/ UrltestReturns
    \/ UrltestPrefersSsh

BoxTypeOK ==
    /\ cfg \in Contents
    /\ svc \in {"active", "failed", "stopped"}
    /\ hot \in Tags
    /\ urltest \in {Hy2Out, SshOut}
    /\ hy2Up \in BOOLEAN
    /\ budget \in Nat
    /\ seen \subseteq AllFaultKinds

(***************************************************************************)
(* The outbound that carries the user's traffic.                           *)
(***************************************************************************)
Effective ==
    CASE svc # "active" -> "down"
      [] svc = "active" /\ hot = AutoOut -> urltest
      [] svc = "active" /\ hot # AutoOut -> hot
=============================================================================
