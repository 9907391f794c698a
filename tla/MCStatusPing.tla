---------------------------- MODULE MCStatusPing ----------------------------
(* StatusPing on three releases, two of which share a protocol number.     *)
EXTENDS StatusPing

MCReleases == {[protocol |-> 768, name |-> "1.21.2"],
               [protocol |-> 768, name |-> "1.21.3"],
               [protocol |-> 769, name |-> "1.21.4"]}

MCConfigInfo == [protocol |-> 0, name |-> "configured"]

=============================================================================
