---------------------------- MODULE HabitatKeys ----------------------------
(* The cache keys of the Habitats, "<namespace>/<name>": what the work     *)
(* queue carries and what the cluster's objects are named after.           *)
CONSTANT Keys
=============================================================================
