--------------------------- MODULE MCFileMonitor ----------------------------
(* Instances of FileMonitor for TLC; no symmetry, since liveness is checked. *)
(* The windows that FileMonitor opens and closes at will, and the            *)
(* configuration it is started with, are checked on a short day and a        *)
(* narrow integer.                                                           *)
EXTENDS FileMonitor, Config

MCDefault == [interval_seconds |-> 2, timeout_minutes |-> 3]
MCUnit == [interval_seconds |-> 2, timeout_minutes |-> 3]

SomeChecks == {<< >>} \cup
  {<<[path |-> f, window |-> w], [path |-> g, window |-> NotConfigured]>> :
     f, g \in {"f", "g"}, w \in {NotConfigured, [startMin |-> 3, endMin |-> 1, configured |-> TRUE],
                                 [startMin |-> 3, endMin |-> 3, configured |-> TRUE]}}

Configs == [number : [Settings -> 0 .. 9], apiEnabled : BOOLEAN, keys : {<< >>, <<"k">>},
            fileMonitorEnabled : BOOLEAN, checks : SomeChecks,
            mediaEnabled : BOOLEAN, searchDirs : {<< >>}, driveMounts : {{}, {"O:"}}]

ASSUME BoundedWindows == WindowIsInterval
ASSUME BoundedConfigs == \A c \in Configs : Valid(c) => SupportsModels(c)
=============================================================================
