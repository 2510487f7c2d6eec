-------------------------------- MODULE Switch --------------------------------
(***************************************************************************)
(* switch::set_selector, the only code that moves the selector: write the  *)
(* new default back to config.json, then switch the running sing-box over  *)
(* its clash_api.  Every process that calls it (guard ticks and manual     *)
(* `gnpc switch` commands) runs these steps, one system call at a time.    *)
(***************************************************************************)
EXTENDS SingBox

CONSTANTS
    Ticks,   \* processes that run `gnpc guard`
    Users    \* processes that run `gnpc switch`, `gnpc stop`, `gnpc start`

ASSUME ProcAssumption == Ticks \cap Users = {}

Procs == Ticks \cup Users

VARIABLES
    pc,      \* where each process is
    target,  \* the argument of its set_selector call
    site,    \* the place set_selector was called from
    pin,     \* history: the choice of the last manual switch that reported success
    owner,   \* history: who committed the default that config.json holds
    written  \* history: every default ever written to config.json

history == <<owner, written>>
switchVars == <<pc, target, site, pin, history>>

Sites == {"manual", "unfreeze", "heal", "freeze"}

\* Mutant: the freeze trusts the switch and does not restart sing-box.
AfterNoRestart(s) ==
    CASE s = "manual" -> "idle"
      [] s = "unfreeze" -> "heal"
      [] s = "heal" -> "save"
      [] s = "freeze" -> "save"

\* Where the caller goes on; the guard ignores whether the call succeeded.
After(s) ==
    CASE s = "manual" -> "idle"
      [] s = "unfreeze" -> "heal"
      [] s = "heal" -> "save"
      [] s = "freeze" -> "restart"

SetPCs == {"load", "open", "write", "put", "fallback"}

NoPin == "none"

-----------------------------------------------------------------------------
\* set_selector(tag) is called from s.
Call(p, s, tag) ==
    /\ pc' = [pc EXCEPT ![p] = "load"]
    /\ target' = [target EXCEPT ![p] = tag]
    /\ site' = [site EXCEPT ![p] = s]

Goto(p, label) ==
    /\ pc' = [pc EXCEPT ![p] = label]
    /\ UNCHANGED <<target, site>>

\* The call is over and its arguments are forgotten.
Leave(p, label) ==
    /\ pc' = [pc EXCEPT ![p] = label]
    /\ target' = [target EXCEPT ![p] = AutoOut]
    /\ site' = [site EXCEPT ![p] = "manual"]

ReturnErr(p) ==
    /\ Leave(p, After(site[p]))
    /\ UNCHANGED pin

ReturnOk(p) ==
    /\ Leave(p, After(site[p]))
    /\ pin' = IF site[p] = "manual" THEN target[p] ELSE pin

\* Mutant: the order of 2026-10-05, hot switch before the config is written.
SetLoadHotFirst(p) ==
    /\ pc[p] = "load"
    /\ \/ /\ Readable(cfg)
          /\ hot' = IF svc = "active" THEN target[p] ELSE hot
          /\ Goto(p, "open")
          /\ UNCHANGED pin
       \/ ~Readable(cfg) /\ ReturnErr(p) /\ UNCHANGED hot
    /\ UNCHANGED <<cfg, svc, urltest, hy2Up, faultVars, history>>

\* config::load; the selector and its three members are in every dual-channel config.
SetLoad(p) ==
    /\ pc[p] = "load"
    /\ \/ Readable(cfg) /\ Goto(p, "open") /\ UNCHANGED pin
       \/ ~Readable(cfg) /\ ReturnErr(p)
    /\ UNCHANGED <<boxVars, history>>

\* Mutant: the file is truncated although it cannot be written.
SetOpenTruncates(p) ==
    /\ pc[p] = "open"
    /\ cfg' = Empty
    /\ \/ Goto(p, "write") /\ NoFault /\ UNCHANGED pin
       \/ Strike("write") /\ ReturnErr(p)
    /\ UNCHANGED <<svc, hot, urltest, hy2Up, history>>

\* config::save, first half: the file is opened and truncated.
SetOpen(p) ==
    /\ pc[p] = "open"
    /\ \/ /\ cfg' = Empty
          /\ Goto(p, "write")
          /\ NoFault
          /\ UNCHANGED pin
       \/ /\ Strike("write")
          /\ ReturnErr(p)
          /\ UNCHANGED cfg
    /\ UNCHANGED <<svc, hot, urltest, hy2Up, history>>

\* config::save, second half: the content is written.
SetWrite(p) ==
    /\ pc[p] = "write"
    /\ \/ /\ cfg' = Overwrite(cfg, target[p])
          /\ owner' = IF site[p] = "manual" THEN "user" ELSE "guard"
          /\ written' = written \cup {target[p]}
          /\ Goto(p, "put")
          /\ NoFault
          /\ UNCHANGED pin
       \/ /\ Strike("enospc")
          /\ ReturnErr(p)
          /\ UNCHANGED <<cfg, history>>
    /\ UNCHANGED <<svc, hot, urltest, hy2Up>>

(***************************************************************************)
(* controller_addr (a second read of config.json) and the PUT.  A PUT that *)
(* times out may still have been carried out.                              *)
(***************************************************************************)
SetPut(p) ==
    /\ pc[p] = "put"
    /\ \/ /\ Readable(cfg) /\ svc = "active"
          /\ hot' = target[p]
          /\ ReturnOk(p)
          /\ NoFault
       \/ /\ ~(Readable(cfg) /\ svc = "active")
          /\ Goto(p, "fallback")
          /\ NoFault
          /\ UNCHANGED <<hot, pin>>
       \/ /\ Readable(cfg) /\ svc = "active"
          /\ Strike("api")
          /\ hot' \in {hot, target[p]}
          /\ Goto(p, "fallback")
          /\ UNCHANGED pin
    /\ UNCHANGED <<cfg, svc, urltest, hy2Up, history>>

\* The API did not answer: start sing-box if it is not running, else give up.
SetFallback(p) ==
    /\ pc[p] = "fallback"
    /\ \/ /\ svc = "active"
          /\ ReturnErr(p)
          /\ NoFault
          /\ UNCHANGED <<svc, hot, urltest>>
       \/ svc # "active" /\ StartOk /\ ReturnOk(p)
       \/ svc # "active" /\ StartErr /\ ReturnErr(p)
    /\ UNCHANGED <<cfg, hy2Up, history>>

SelectorStep(p) ==
    \/ SetLoad(p)
    \/ SetOpen(p)
    \/ SetWrite(p)
    \/ SetPut(p)
    \/ SetFallback(p)

SwitchInit ==
    /\ pc = [p \in Procs |-> "idle"]
    /\ target = [p \in Procs |-> AutoOut]
    /\ site = [p \in Procs |-> "manual"]
    /\ pin = NoPin
    /\ owner = "install"
    /\ written = {AutoOut}
=============================================================================
