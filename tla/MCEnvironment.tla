--------------------------- MODULE MCEnvironment ----------------------------
(* One job with two services, of which one declares a health check; on the *)
(* host its steps start a child that keeps their output open and a daemon  *)
(* that leaves their process group.                                        *)
EXTENDS Environment

CONSTANTS s1, s2, child, detached

MCServices == {s1, s2}
MCChecked == {s1}
MCKids == {child, detached}
MCEscaped == {detached}
MCHolding == {child}
=============================================================================
