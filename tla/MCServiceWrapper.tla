-------------------------- MODULE MCServiceWrapper --------------------------
(* Unit files for TLC's runs of ServiceWrapper.                            *)
EXTENDS ServiceWrapper

Plain == [pre |-> << >>, main |-> TRUE, post |-> 0, stop |-> FALSE,
          stopPost |-> 0, gated |-> FALSE, deps |-> FALSE, restart |-> "NO"]

PreUnit     == [Plain EXCEPT !.pre = <<FALSE, TRUE>>, !.gated = TRUE, !.stopPost = 1]
AlwaysUnit  == [Plain EXCEPT !.pre = <<FALSE>>, !.restart = "ALWAYS", !.deps = TRUE]
SuccessUnit == [Plain EXCEPT !.post = 1, !.restart = "ON_SUCCESS"]
FailureUnit == [Plain EXCEPT !.restart = "ON_FAILURE"]
RunUnits == {PreUnit, AlwaysUnit, SuccessUnit, FailureUnit}

\* Units whose ExecStop races with the service thread.
StopUnit     == [Plain EXCEPT !.stop = TRUE, !.restart = "ALWAYS"]
StopDepsUnit == [Plain EXCEPT !.stop = TRUE, !.stopPost = 1, !.deps = TRUE,
                              !.main = FALSE, !.gated = TRUE]
StopUnits == {StopUnit, StopDepsUnit}

\* The units of the liveness run: one whose stop runs a command after the end
\* of the service thread, one whose main process may end before the stop.
LiveUnits == {[Plain EXCEPT !.main = FALSE, !.stopPost = 1], Plain}

PlainUnits    == {Plain}
StopPostUnits == {[Plain EXCEPT !.stopPost = 1]}
=============================================================================
