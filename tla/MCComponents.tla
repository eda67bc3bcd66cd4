---------------------------- MODULE MCComponents ----------------------------
(* Components for TLC.                                                       *)
EXTENDS Components

MCLoadedSets ==
  {{"SystemLogControl"}, {"DeviceControl", "FileScanControl"},
   {"ClipboardControl", "FileScanControl"}}
=============================================================================
