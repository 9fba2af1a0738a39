---------------------------- MODULE MCAuthSession ----------------------------
(* Values for the runs of AuthSession: one tab with two requests. *)
EXTENDS AuthSession, TLC

CONSTANTS ta, c1, c2

OneTab == {ta}
TwoCalls == {c1, c2}
TabOfBoth == [c \in TwoCalls |-> ta]

=============================================================================
