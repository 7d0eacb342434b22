---------------------------- MODULE MCSupervision ----------------------------
(* An instance of Supervision for TLC: the peripheral and a session.          *)
EXTENDS Supervision

CONSTANTS Agent, Cli

TwoPeers == {Agent, Cli}
OneSession == {Cli}
Shown ==
    {{"stuck", "reports"}, {"probation", "reports", "replace"},
     {"sessions", "levels"}, {"sessions", "stuck", "events"},
     {"stuck", "shutdown"}, {"sessions", "shutdown"}}
SessionsOnly == {{"sessions"}}
=============================================================================
