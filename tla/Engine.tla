-------------------------------- MODULE Engine --------------------------------
(***************************************************************************)
(* The engine controller of qkboxd (core/qkboxd/engine.go) and the runtime *)
(* owner it drives: a sing-box instance in this process, or one that the   *)
(* privileged provider runs for it (provider_runtime_owner.go).            *)
(*                                                                         *)
(* The engine's mutex covers single sections; the owner's Start and Stop   *)
(* are called without it, in the states "starting" and "stopping".  Each   *)
(* operator below is such a section, or the owner's call together with the *)
(* section that records its outcome; Qkboxd says who takes them and when.  *)
(***************************************************************************)
EXTENDS QkboxdConstants

VARIABLES
  engine,    \* state, the profile of the runtime owner held, was its Stop called?
  box        \* the profiles whose sing-box instance runs

NoRuntime == [state |-> "idle", profile |-> None, asked |-> "no"]

EngineStates == {"idle", "starting", "started", "stopping", "fatal"}

EngineTypeOK ==
  /\ engine \in [state: EngineStates, profile: Profile \cup {None}, asked: {"no", "yes"}]
  /\ box \subseteq Profile

EngineInit == engine = NoRuntime /\ box = {}

\* Variant: a fatal engine may start again although it holds an owner.
MayStartOverFatal == engine.state \in {"idle", "fatal"}

MayStart ==
  \/ engine.state = "idle"
  \/ engine.state = "fatal" /\ engine.profile = None

BeginStart ==
  /\ MayStart
  /\ engine' = [NoRuntime EXCEPT !.state = "starting"]
  /\ UNCHANGED box

\* The provider lends the machine network once.
Lendable(p) == p \in Hosted => box \cap Hosted = {}

StartSucceeds(p) ==
  /\ engine.state = "starting"
  /\ Lendable(p)
  /\ engine' = [state |-> "started", profile |-> p, asked |-> "no"]
  /\ box' = box \cup {p}

\* A call to the provider may time out after it has been obeyed.
LostReply(p) == "rpc" \in Faults /\ p \in Hosted /\ Lendable(p)

StartFails(p) ==
  /\ engine.state = "starting"
  /\ engine' = NoRuntime
  /\ \/ ("start" \in Faults \/ ~Lendable(p)) /\ UNCHANGED box
     \/ LostReply(p) /\ box' = box \cup {p}

MayStop == engine.state \in {"started", "fatal"} /\ engine.profile # None

BeginStop ==
  /\ MayStop
  /\ engine' = [engine EXCEPT !.state = "stopping"]
  /\ UNCHANGED box

\* The provider's owner forgets that it was started before it asks for the
\* stop: asked again, it has nothing to do.
Forgotten == engine.profile \in Hosted /\ engine.asked = "yes"

StopSucceeds ==
  /\ engine.state = "stopping"
  /\ engine' = NoRuntime
  /\ box' = IF Forgotten THEN box ELSE box \ {engine.profile}

StopFails ==
  /\ engine.state = "stopping" /\ ~Forgotten
  /\ engine' = [engine EXCEPT !.state = "fatal", !.asked = "yes"]
  /\ \/ "stop" \in Faults /\ UNCHANGED box
     \/ "rpc" \in Faults /\ engine.profile \in Hosted /\ box' = box \ {engine.profile}

\* The provider ends an instance that nobody heartbeats for: one left behind,
\* or the owner's own once its heartbeat loop has met an error.
Reclaimed(p) ==
  /\ p \in box \cap Hosted
  /\ engine.profile = p => "rpc" \in Faults
  /\ box' = box \ {p}
  /\ UNCHANGED engine

\* The process ends; instances in it end with it, the provider's go on.
EngineLost == engine' = NoRuntime /\ box' = box \cap Hosted
=============================================================================
