-------------------------------- MODULE MCRio --------------------------------
(* Instances of RioSession and RioCore for TLC.  RioSession has its own,     *)
(* smaller idea of a core (any worker dispatches any completion), so that    *)
(* the two do not interact here: a behaviour is of the one `part` names.     *)
EXTENDS RioSession, RioCore

VARIABLE part

allVars == <<part, sessionVars, coreVars>>

PartsInit ==
    /\ part \in {"session", "core"} /\ SessionInit /\ CoreInit
    /\ part = "core" => way = "accept"

PartsNext ==
    \/ part = "session" /\ SessionNext /\ UNCHANGED <<part, coreVars>>
    \/ part = "core" /\ CoreNext /\ UNCHANGED <<part, sessionVars>>

(* SessionFairness, for the behaviours of its part.                          *)
PartsFairness ==
    /\ \A t \in Threads : WF_sessionVars(part = "session" /\ Runs(t))
    /\ WF_sessionVars(part = "session" /\ GiveBack)

PartsSpec == PartsInit /\ [][PartsNext]_allVars /\ PartsFairness
=============================================================================
