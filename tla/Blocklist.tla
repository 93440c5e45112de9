------------------------------- MODULE Blocklist -------------------------------
(***************************************************************************)
(* The allowlist and the blocklist of the Intrusion Prevention System, the *)
(* state that every automatic and manual response of Network Guardian      *)
(* writes.  All of them run on the engine's event loop, and block_ip does  *)
(* not suspend between its check of the allowlist and its write.           *)
(*                                                                         *)
(* An entry is represented by the time it has left, so that a greater      *)
(* number is a stronger block.  An entry whose time has run out is one     *)
(* with nothing left: is_blocked and blocked_ips drop it before they       *)
(* answer.                                                                 *)
(***************************************************************************)
EXTENDS Naturals

CONSTANTS
    IPs,            \* the addresses that may be blocked
    AllowedAtStart, \* the allowlist of a new IPS (the loopback addresses)
    LongestBlock    \* the longest temporary block, in ticks

ASSUME BlocklistAssumption ==
    /\ AllowedAtStart \subseteq IPs
    /\ LongestBlock \in Nat \ {0}

VARIABLES
    allowlist,      \* _allowlist
    block           \* _blocklist: the time left, 0 where there is no entry

blocklistVars == <<allowlist, block>>

NotBlocked == 0
Permanent  == LongestBlock + 1     \* expires_at is None
Durations  == 1 .. Permanent       \* what block_ip is asked for

BlocklistTypeOK ==
    /\ allowlist \subseteq IPs
    /\ block \in [IPs -> 0 .. Permanent]

BlocklistInit ==
    /\ allowlist = AllowedAtStart
    /\ block = [ip \in IPs |-> NotBlocked]

IsBlocked(ip) == block[ip] # NotBlocked

(* Mutant: an allowlisted address is blocked like any other. *)
AfterBlockUnchecked(ip, duration) == duration

(* The entry of an address after block_ip: a new entry replaces the old one *)
(* whatever either says, and the request is refused for an allowlisted one. *)
AfterBlock(ip, duration) == IF ip \in allowlist THEN block[ip] ELSE duration

BlockIP(ip, duration) ==
    /\ block' = [block EXCEPT ![ip] = AfterBlock(ip, duration)]
    /\ UNCHANGED allowlist

UnblockIP(ip) ==
    /\ IsBlocked(ip)
    /\ block' = [block EXCEPT ![ip] = NotBlocked]
    /\ UNCHANGED allowlist

(* Mutant: the entry made before the address was allowlisted is kept. *)
AddToAllowlistKeepingBlock(ip) ==
    /\ allowlist' = allowlist \cup {ip}
    /\ UNCHANGED block

AddToAllowlist(ip) ==
    /\ allowlist' = allowlist \cup {ip}
    /\ block' = [block EXCEPT ![ip] = NotBlocked]

RemoveFromAllowlist(ip) ==
    /\ ip \in allowlist
    /\ allowlist' = allowlist \ {ip}
    /\ UNCHANGED block

(* The entries after a tick of the clock. *)
Elapsed == [ip \in IPs |-> IF block[ip] \in 1 .. LongestBlock THEN block[ip] - 1 ELSE block[ip]]

(* Nobody the operator trusts is blocked: block_ip refuses an allowlisted    *)
(* address, and an address that is allowlisted while blocked is released by *)
(* the same call.                                                           *)
AllowlistIsSafe == \A ip \in allowlist : ~IsBlocked(ip)

================================================================================
