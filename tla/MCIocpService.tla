---------------------------- MODULE MCIocpService ----------------------------
(* Instances of IocpService and IocpListener for TLC.  IocpService has its   *)
(* own, smaller idea of a listener, so that the two do not interact here: a  *)
(* behaviour is of the one that `part` names.                                *)
EXTENDS IocpService, IocpListener

VARIABLE part

allVars == <<part, serviceVars, listenerVars>>

InService(A) == part = "service" /\ A /\ UNCHANGED <<part, listenerVars>>
InListener(A) == part = "listener" /\ A /\ UNCHANGED <<part, serviceVars>>

PartsInit ==
    /\ part \in {"service", "listener"} /\ ServiceInit /\ ListenerInit
    /\ part = "listener" => kind = "client"

PartsNext == InService(ServiceNext) \/ InListener(ListenerNext)

(* ServiceFairness and ListenerFairness, each for the behaviours of its part.*)
PartsFairness ==
    /\ \A t \in Threads : WF_serviceVars(part = "service" /\ (ThreadStep(t) \/ (t \in Workers /\ WorkerStep(t))))
    /\ WF_serviceVars(part = "service" /\ (\E s \in Sessions : SweepNext(s)))
    /\ WF_serviceVars(part = "service" /\ CloserStep)
    /\ \A t \in AcceptThreads : WF_listenerVars(part = "listener" /\ Continue(t))
    /\ WF_listenerVars(part = "listener" /\ Cancelled)

PartsSpec == PartsInit /\ [][PartsNext]_allVars /\ PartsFairness
=============================================================================
