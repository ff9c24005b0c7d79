-------------------------------- MODULE Files --------------------------------
(***************************************************************************)
(* The files that requests mention, and their directories.                 *)
(***************************************************************************)
CONSTANTS Path, Directory, DirOf

ASSUME FilesAssumption == DirOf \in [Path -> Directory]
=============================================================================
