---------------------------- MODULE MCAcceptance ----------------------------
(* Instances of the parts that decide on acceptance. The parts share no      *)
(* state, so a behaviour follows one of them and leaves the others at rest.  *)
EXTENDS CheckRuntime, QualityFlow, EvidenceGates

VARIABLE part

MCJobs == 1 .. 2
MCKeySymmetry == Permutations(Keys)
MCAttempts == [t \in TaskIds |-> IF t = "up" THEN 2 ELSE 1]
MCFiles == [t \in TaskIds |-> IF t = "up" THEN {1, 2} ELSE {1}]

MCVars == <<part, checkVars, flowVars, gateVars>>

MCInit ==
  /\ part \in {"checks", "flow", "gates"}
  /\ CheckInit /\ FlowInit /\ GateInit
  /\ part # "checks" => target = 1 /\ check = 1
  /\ part # "flow" => tree = 1
  /\ part # "gates" => files["up"] = 1 /\ \A s \in Stages : rules[s] = "none"

(* The files move away from the first version, or the command, not both.     *)
WorldNarrow == target' = 1 \/ check' = 1

MCNext ==
  /\ UNCHANGED part
  /\ \/ part = "checks" /\ CheckNext /\ WorldNarrow /\ UNCHANGED <<flowVars, gateVars>>
     \/ part = "flow" /\ FlowNext /\ UNCHANGED <<checkVars, gateVars>>
     \/ part = "gates" /\ GateNext /\ UNCHANGED <<checkVars, flowVars>>

MCSpec == MCInit /\ [][MCNext]_MCVars
=============================================================================
