------------------------------- MODULE Waypoint -------------------------------
(***************************************************************************)
(* The mesh side of a pass: the namespace is labelled for the ambient      *)
(* mesh, and its one waypoint follows what all its services together need. *)
(* Whoever passes recomputes it from the specs it lists then.              *)
(***************************************************************************)
EXTENDS Namespace

LabelNamespace ==
  /\ pc = "label" /\ pc' = "options"
  /\ ambient' = TRUE
  /\ UNCHANGED <<life, spec, services, routes, workload, share, options, gateway,
                 adapter, spent, who, seen, ready, todo>>

(* Mutant: nobody looks at the other services.                               *)
WaypointWantedAlone == seen.mesh
(* The service itself asks for it, or any other that is not being deleted.   *)
WaypointWanted == seen.mesh \/ \E m \in Meshed : m # who

WaypointStep(o, g) ==
  /\ options' = o /\ gateway' = g
  /\ UNCHANGED <<life, spec, services, routes, workload, share, ambient, adapter,
                 spent, who, seen, ready, todo>>

(* The ConfigMap is written before the Gateway that names it, with a ceiling *)
(* for the services that are in the mesh now.                                *)
UpsertOptions ==
  /\ pc = "options" /\ WaypointWanted /\ pc' = "gateway"
  /\ WaypointStep(WaypointMax(Cardinality(Meshed)), gateway)
UpsertGateway == pc = "gateway" /\ pc' = "deploy" /\ WaypointStep(options, TRUE)

(* Nobody needs it: the ConfigMap goes first, then the Gateway.              *)
DeleteOptions ==
  /\ pc = "options" /\ ~WaypointWanted /\ pc' = "ungate"
  /\ WaypointStep(0, gateway)
DeleteGateway == pc = "ungate" /\ pc' = "deploy" /\ WaypointStep(options, FALSE)

WaypointPass == LabelNamespace \/ UpsertOptions \/ UpsertGateway
                \/ DeleteOptions \/ DeleteGateway
=============================================================================
