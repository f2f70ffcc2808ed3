------------------------------- MODULE Config --------------------------------
(***************************************************************************)
(* internal/config/config.go: what Load() accepts and what the getters     *)
(* make of it.  A number that is missing or 0 stands for its default, so   *)
(* nothing can be switched off by a 0; a time is multiplied into           *)
(* nanoseconds in 64 bits, without an upper bound on what is configured.   *)
(***************************************************************************)
EXTENDS TimeWindow, Sequences

CONSTANTS Default,      \* the Default... constants, by the name of the setting
          Times,        \* settings that become a time.Duration
          Percentages,  \* settings with lte=100
          Unit,         \* nanoseconds in the second, minute or day of each of Times
          IntMax        \* the largest int64

Settings == DOMAIN Default

ASSUME ConfigAssumption ==
  /\ Times \subseteq Settings /\ Percentages \subseteq Settings
  /\ Unit \in [Times -> Nat \ {0}] /\ IntMax \in Nat
  /\ \A s \in Settings : Default[s] \in Nat \ {0}

(* A product in 64 bits. *)
Wrap(n) == ((n + IntMax + 1) % (2 * (IntMax + 1))) - IntMax - 1

(* cmp.Or, in every getter. *)
Or(value, default) == IF value = 0 THEN default ELSE value

Get(c, s) == Or(c.number[s], Default[s])

GetDuration(c, s) == Wrap(Get(c, s) * Unit[s])

(* Interval and StatTimeout test for <= 0. *)
GetInterval(c, s) == Wrap((IF c.number[s] <= 0 THEN Default[s] ELSE c.number[s]) * Unit[s])

-----------------------------------------------------------------------------
(* The numeric tags: gte=0, lte=100; omitempty,gte=1 accepts the same. *)
ValidNumbers(c) ==
  /\ c.number \in [Settings -> Nat]
  /\ \A s \in Percentages : c.number[s] <= 100

ValidateAPIConfig(c) == c.apiEnabled => c.keys # << >>

(* Windows are parsed also when the monitor is disabled. *)
ValidateFileMonitorConfig(c) ==
  /\ \A i \in DOMAIN c.checks : c.checks[i].window \in Parsed
  /\ c.fileMonitorEnabled =>
       /\ c.checks # << >>
       /\ \A i, j \in DOMAIN c.checks : i < j => c.checks[i].path # c.checks[j].path

ValidateMediaFileCheckConfig(c) == c.mediaEnabled => c.searchDirs # << >> \/ c.driveMounts # {}

Valid(c) == /\ ValidNumbers(c) /\ ValidateAPIConfig(c)
            /\ ValidateFileMonitorConfig(c) /\ ValidateMediaFileCheckConfig(c)

-----------------------------------------------------------------------------
Fits(c, s) == Get(c, s) * Unit[s] <= IntMax

(* What the other modules assume of a configuration that was loaded: limits *)
(* and durations are positive when the product fits its 64 bits, an enabled *)
(* monitor has one check per path, and a window both opens and closes.      *)
SupportsModels(c) ==
  /\ \A s \in Settings : Get(c, s) > 0
  /\ \A s \in Times : Fits(c, s) => /\ GetDuration(c, s) = Get(c, s) * Unit[s]
                                    /\ GetDuration(c, s) > 0
                                    /\ GetInterval(c, s) = GetDuration(c, s)
  /\ c.fileMonitorEnabled =>
       /\ DOMAIN c.checks # {}
       /\ \A i, j \in DOMAIN c.checks : c.checks[i].path = c.checks[j].path => i = j
  /\ \A i \in DOMAIN c.checks :
       c.checks[i].window.configured =>
         \E open, shut \in Minutes : /\ Active(c.checks[i].window, open)
                                     /\ ~Active(c.checks[i].window, shut)
=============================================================================
