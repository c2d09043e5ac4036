------------------------------- MODULE MCDaemon -------------------------------
(* Small instances of Daemon, with the five statements of migrate. *)
EXTENDS Daemon

Migration == <<"souls", "key_subscriptions", "soul_subscriptions",
               "key_subscriptions_target", "soul_subscriptions_target">>
=============================================================================
