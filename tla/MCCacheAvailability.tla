------------------------- MODULE MCCacheAvailability -------------------------
(* Instances of CacheAvailability for TLC.                                 *)
EXTENDS CacheAvailability

Config(s, a) == [c \in Caches |-> [status |-> s, addresses |-> a]]

(* A cache that comes and goes, that is ONLINE or polled with both         *)
(* addresses, and that loses the IPv6 one when it is taken down.           *)
Changing == {Config("absent", {}), Config("ONLINE", Protocols),
             Config("REPORTED", Protocols), Config("ADMIN_DOWN", {"IPv4"})}

(* A polled cache with both addresses.                                     *)
Steady == {Config("REPORTED", Protocols)}

(* The same, until it is taken down.                                       *)
TakenDown == Steady \cup {Config("ADMIN_DOWN", Protocols)}

(* Both protocols find the same, or IPv6 is broken.                        *)
Found(f, g) == [c \in Caches |-> [p \in Protocols |-> IF p = "IPv4" THEN f ELSE g]]
Broken   == {Found("good", "good"), Found("good", "error")}
Fine     == {Found("good", "good")}
=============================================================================
