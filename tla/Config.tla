------------------------------- MODULE Config -------------------------------
(***************************************************************************)
(* LoadConfig (config.go): defaults, then the YAML file, then environment  *)
(* variables, each layer overriding the one before where its value passes  *)
(* that layer's own test.                                                  *)
(*                                                                         *)
(* Data.  The settings that are numbers or durations (in seconds) are the  *)
(* members of Setting; a layer maps each to an integer, or to Unset when   *)
(* it says nothing or something that does not parse.  A file in which an   *)
(* integer field does not parse is refused as a whole.                     *)
(***************************************************************************)
EXTENDS Integers

CONSTANTS
    Unset,       \* nothing, or nothing that parses
    Refused,     \* LoadConfig returns an error, and the process exits
    Generated,   \* the random secret
    BaseTarget   \* the target made from BASE_PATH

Duration == {"scan_interval", "scan_timeout", "discovery_interval"}
Cap == {"max_files_per_dir", "max_stat_files"}
Span == {"min_delay", "trace_lookback_days"}
Setting == Duration \cup Cap \cup Span \cup {"scan_workers", "MAX_DEPTH"}

Default ==
    [s \in Setting |->
        CASE s = "scan_interval" -> 120
          [] s = "scan_timeout" -> 90
          [] s = "discovery_interval" -> 21600
          [] s = "scan_workers" -> 2
          [] s = "max_files_per_dir" -> 0
          [] s = "max_stat_files" -> 5000
          [] s = "min_delay" -> 600
          [] s = "trace_lookback_days" -> 7
          [] s = "MAX_DEPTH" -> 1]

Positive == Duration \cup {"scan_workers", "MAX_DEPTH"}

\* applyFileConfig: the caps are pointers, and taken as they are.
FileTakes(s, v) ==
    /\ v \in Int
    /\ s # "MAX_DEPTH"
    /\ s \in Positive => v > 0
    /\ s \in Span => v >= 0

\* Fault: a zero in the environment is taken for every setting.
EnvTakesZero(s, v) == v \in Int /\ v >= 0

\* applyEnvOverrides, and MAX_DEPTH of the BASE_PATH fallback.
EnvTakes(s, v) ==
    /\ v \in Int
    /\ v >= 0
    /\ s \in Positive => v > 0

Effective(s, file, env) ==
    IF EnvTakes(s, env[s]) THEN env[s]
    ELSE IF FileTakes(s, file[s]) THEN file[s] ELSE Default[s]

\* "Ensure every target has a sane MaxDepth."
Sane(t) == IF t.depth = 0 /\ t.pattern = <<>> THEN [t EXCEPT !.depth = 1] ELSE t

LoadedTargets(l) ==
    IF l.file.targets # <<>> THEN l.file.targets
    ELSE IF l.env.base
         THEN <<[BaseTarget EXCEPT
                    !.depth = Effective("MAX_DEPTH", l.file.setting, l.env.setting)]>>
         ELSE <<>>

\* A string of one layer over that of the layers below.
Over(x, y) == IF x # Unset THEN x ELSE y
Secret(l) == Over(l.env.secret, Over(l.file.secret, Generated))
TracelogDir(l) == Over(l.env.tracelog_dir, Over(l.file.tracelog_dir, l.file.tracelog))

\* The layers l: the file and the environment, each with the settings that are
\* numbers, a secret and a trace directory; the file with its targets and the
\* first directory of its tracelog list, the environment with BASE_PATH.
LoadConfig(l) ==
    IF ~l.file.parses \/ LoadedTargets(l) = <<>> THEN Refused
    ELSE [setting |-> [s \in Setting |-> Effective(s, l.file.setting, l.env.setting)],
          targets |-> [i \in DOMAIN LoadedTargets(l) |-> Sane(LoadedTargets(l)[i])],
          secret |-> Secret(l),
          tracelog_dir |-> TracelogDir(l)]

\* What the rest of the program takes for granted: tickers that do not panic, a
\* semaphore with a slot, a deadline ahead, a secret to compare with, targets,
\* and days and delays that do not count backwards.
Usable(c) ==
    /\ \A s \in Duration \cup {"scan_workers"} : c.setting[s] \in Nat \ {0}
    /\ \A s \in Span : c.setting[s] \in Nat
    /\ \A s \in Cap : c.setting[s] \in Int
    /\ c.secret # Unset
    /\ c.targets # <<>>
    /\ \A i \in DOMAIN c.targets : c.targets[i].depth = 0 => c.targets[i].pattern # <<>>

=============================================================================
