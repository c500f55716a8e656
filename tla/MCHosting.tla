------------------------------- MODULE MCHosting -------------------------------
(* One server with two worlds that are alike, whose panel asks for backups, for   *)
(* restores, or for jar changes and the restarts that apply them.                *)
EXTENDS Hosting, TLC

Alike == Permutations(Worlds)
Alone ==
    {{"backup", "watchdog", "timeouts"},
     {"restart", "watchdog", "timeouts"},
     {"restore", "watchdog"},
     {"restore", "timeouts", "disk"}}
================================================================================
