------------------------------- MODULE Config -------------------------------
(***************************************************************************)
(* apply_server_properties in src/config.rs: what the lines of a mounted   *)
(* server.properties override in config.toml. A line is its key and value, *)
(* both trimmed; a comment, a blank line or one without "=" is a line of   *)
(* no known key.                                                           *)
(***************************************************************************)
EXTENDS Integers

CONSTANTS
    AsI32,       \* the values that parse as an i32, and what they parse to
    AsU16,       \* those that parse as a u16
    NoRcon       \* config.rcon is None

(* An empty value is no number.                                            *)
ASSUME NumberAssumption == "" \notin DOMAIN AsI32 \cup DOMAIN AsU16

DefaultRconPort == 25575

(* The locals of the function as it starts; it returns at once from a file *)
(* it cannot read, which changes no more than a file of no lines.          *)
Locals(config) ==
    [max_players |-> config.max_players, online_motd |-> config.online_motd,
     rcon_enabled |-> FALSE, rcon_port |-> DefaultRconPort, rcon_password |-> ""]

ApplyLine_StaysEnabled(found, line) ==
    IF line.key = "max-players" /\ line.value \in DOMAIN AsI32
    THEN [found EXCEPT !.max_players = AsI32[line.value]]
    ELSE IF line.key = "motd" THEN [found EXCEPT !.online_motd = line.value]
    ELSE IF line.key = "enable-rcon"
    THEN [found EXCEPT !.rcon_enabled = @ \/ line.value = "true"]
    ELSE IF line.key = "rcon.port" /\ line.value \in DOMAIN AsU16
    THEN [found EXCEPT !.rcon_port = AsU16[line.value]]
    ELSE IF line.key = "rcon.password" THEN [found EXCEPT !.rcon_password = line.value]
    ELSE found

(* A player limit that does not parse is passed over; a port that does not *)
(* is the default again.                                                   *)
ApplyLine(found, line) ==
    CASE line.key = "max-players" /\ line.value \in DOMAIN AsI32 ->
            [found EXCEPT !.max_players = AsI32[line.value]]
      [] line.key = "motd" -> [found EXCEPT !.online_motd = line.value]
      [] line.key = "enable-rcon" -> [found EXCEPT !.rcon_enabled = line.value = "true"]
      [] line.key = "rcon.port" ->
            [found EXCEPT !.rcon_port =
                IF line.value \in DOMAIN AsU16 THEN AsU16[line.value] ELSE DefaultRconPort]
      [] line.key = "rcon.password" -> [found EXCEPT !.rcon_password = line.value]
      [] OTHER -> found

(* What the function leaves, once the lines are read: rcon in config.toml  *)
(* wins over the file's.                                                   *)
ApplyServerProperties(config, found) ==
    [max_players |-> found.max_players,
     online_motd |-> found.online_motd,
     rcon |-> IF found.rcon_enabled /\ found.rcon_password # "" /\ config.rcon = NoRcon
              THEN [port |-> found.rcon_port, password |-> found.rcon_password]
              ELSE config.rcon]
=============================================================================
