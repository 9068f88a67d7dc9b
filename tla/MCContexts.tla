----------------------------- MODULE MCContexts -----------------------------
(* Two context objects, one of which has an action, and three environments,  *)
(* one of which cannot be set.                                               *)
EXTENDS Contexts, TLC

CONSTANTS quiet, timed

MCName  == {"path", "duration"}
MCValue == {"MAIN"}
MCBinds ==
    (quiet :> [path |-> "MAIN", duration |-> Unbound])
        @@ (timed :> [path |-> "MAIN", duration |-> Unbound])

MCVar  == {"SENTRY_DSN", "MOCK_AWS"}
MCEnvs == {[MOCK_AWS |-> "True"], [SENTRY_DSN |-> ""],
           [MOCK_AWS |-> "True", SENTRY_DSN |-> Invalid]}

=============================================================================
