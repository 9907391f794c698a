------------------------------ MODULE MCInputs ------------------------------
(* Inputs on small alphabets. Bytes: NUL, small lengths, a letter, the     *)
(* continuation bit alone and with other bits, and a byte no text holds.   *)
EXTENDS Inputs, TLC

MCBytes == {0, 1, 2, 65, 97, 128, 255}

(* Both sides of every change of length, and of zero.                      *)
MCNumbers == {-2147483647 - 1, -1, 0, 1, 127, 128, 129, 255, 16383, 16384, 2097151,
              2097152, 268435455, 268435456, 2147483647}

MCLines ==
    {[key |-> "max-players", value |-> v] : v \in {"7", "70000", "junk"}}
        \cup {[key |-> "motd", value |-> v] : v \in {"7", "junk"}}
        \cup {[key |-> "enable-rcon", value |-> v] : v \in {"true", "junk"}}
        \cup {[key |-> "rcon.port", value |-> v] : v \in {"7", "70000"}}
        \cup {[key |-> "rcon.password", value |-> v] : v \in {"junk", ""}}
        \cup {[key |-> "#", value |-> "7"]}

MCAsI32 == "7" :> 7 @@ "70000" :> 70000
MCAsU16 == "7" :> 7

MCConfigs ==
    {[max_players |-> 20, online_motd |-> "config", rcon |-> r] :
        r \in {NoRcon, [port |-> 1, password |-> "config"]}}
=============================================================================
