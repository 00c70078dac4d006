-------------------------------- MODULE MCTools --------------------------------
(* The bounds of the run of Tools.                                         *)
EXTENDS Tools, NamespaceRefinement, TLC

(* Scripts run on sound disks, of which they make every disk that a death  *)
(* inside fs_umount can leave; the other commands run on those as well.  A *)
(* script closes its files before it mounts the volume a second time.      *)
ScriptsOnSoundDisks ==
  Script /\ call.pc # "saving" => VolumeSound(disk.fat, disk.root, Live(disk.root))

ScriptsClose == num_open_files <= NumFds

=============================================================================
