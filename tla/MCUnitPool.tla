----------------------------- MODULE MCUnitPool -----------------------------
(* Libraries and commands for TLC's runs of UnitPool.                      *)
EXTENDS UnitPool

CONSTANTS a, b, c
Units == {a, b, c}

\* a requires b, which wants c: the shape of the units of regress.ps1
Chain == [n \in Units |-> CASE n = a -> [NoUnit EXCEPT !.requires = {b}]
                            [] n = b -> [NoUnit EXCEPT !.wants = {c}]
                            [] n = c -> [NoUnit EXCEPT !.requiredBy = {a}]]
\* a target with a .wants directory; c needs b too
Target == [n \in Units |-> CASE n = a -> [NoUnit EXCEPT !.wantsDir = {b, c}]
                             [] n = b -> NoUnit
                             [] n = c -> [NoUnit EXCEPT !.requires = {b}]]
\* the required b is missing
Missing == [n \in {a, c} |-> IF n = a THEN [NoUnit EXCEPT !.requires = {b, c}] ELSE NoUnit]
\* the wanted b is missing
Wanting == [n \in {a, c} |-> IF n = a THEN [NoUnit EXCEPT !.wants = {b}, !.requires = {c}] ELSE NoUnit]
\* a and b want each other; c requires a
Cycle == [n \in Units |-> CASE n = a -> [NoUnit EXCEPT !.wants = {b}]
                            [] n = b -> [NoUnit EXCEPT !.requires = {a}]
                            [] n = c -> [NoUnit EXCEPT !.mentions = {a}]]
Single == [n \in {a} |-> NoUnit]

FilesLibraries == {Chain, Target, Missing, Wanting, Cycle}
ReloadLibraries == {Chain, Target, Missing, Cycle}
SingleLibraries == {Single}

Of(op, n) == [op |-> op, units |-> <<n>>]
FilesCommands ==
  {Of("enable", a), Of("enable", c), Of("mask", a), Of("mask", b), Of("disable", b),
   Of("start", a), Of("stop", b), Of("unmask", b), [op |-> "enable", units |-> <<b, a>>],
   [op |-> "mask", units |-> <<a, b>>], Of("is-active", b)}
Reload == [op |-> "daemon-reload", units |-> << >>]
ReloadCommands ==
  {Of("enable", a), Of("enable", c), Of("mask", b), Of("unmask", b), Of("is-enabled", a),
   Of("kill", a), Of("start", a), Reload}
DisableCommands == {Of("enable", a), Of("disable", a), Of("is-enabled", a)}
EnableReload == {Of("enable", a), Reload}
=============================================================================
