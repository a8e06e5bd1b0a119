------------------------------ MODULE Overlap ------------------------------
(***************************************************************************)
(* wolf-server is one asyncio process: request handlers interleave at      *)
(* every await, and each has a database session of its own (get_db).       *)
(* overlap tells the deployments in which two requests about one account   *)
(* or one organization may be in flight together from those in which they  *)
(* never are; nothing in the code keeps them apart.                        *)
(***************************************************************************)
VARIABLE overlap

OInit == overlap \in BOOLEAN
=============================================================================
