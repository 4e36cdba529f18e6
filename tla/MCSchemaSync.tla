--------------------------- MODULE MCSchemaSync ---------------------------
(* SchemaSync for TLC. No symmetry: ResetRepairs is a liveness property.   *)
EXTENDS SchemaSync
=============================================================================
