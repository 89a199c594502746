--------------------------- MODULE RegistryConfig ---------------------------
(***************************************************************************)
(* Where a client's configuration is kept on Windows: a registry key       *)
(* (src/common/config.cpp, config_entry.cpp, registry.hpp, registry.cpp).  *)
(* It is written one value at a time by whoever destroys a Config, and     *)
(* read back when the client is started.  Whether a configuration is       *)
(* delivered, and the file that Linux has instead, is ConfigUpdate's       *)
(* subject.                                                                *)
(*                                                                         *)
(* A configuration is a function c: c[0] is "count", the number n of its   *)
(* entries, and c[1] .. c[N * n] are their values in order, N of each:     *)
(* process_name, cpu_usage, mem_usage, disk_usage, network_usage.  (A name *)
(* is a number like the others; its unit is 1.)  The registry has the      *)
(* values that are there, under the same numbers.                          *)
(***************************************************************************)
EXTENDS Integers, FiniteSets

CONSTANTS
  N,           \* values of an entry
  Unit,        \* 1, CPU_UNIT, MEM_UNIT, ...: for each of them
  Size,        \* the sizes of their types
  Configs,     \* configurations the server sends
  Default,     \* Config::default_config, in units
  Initial,     \* what the registry may be at first
  MaxSets,     \* bound: configurations received
  MaxKills,    \* bound: client kills
  MaxFails     \* bound: registry calls that fail

Field(k)  == ((k - 1) % N) + 1
Slots(n)  == 0 .. N * n
Values    == UNION {0 .. Size[f] - 1 : f \in 1 .. N}
IsConfig(c) ==
  /\ c[0] \in Nat /\ c \in [Slots(c[0]) -> Nat]
  /\ \A k \in DOMAIN c \ {0} : c[k] \in 0 .. Size[Field(k)] - 1

Nothing == [k \in {} |-> 0]

ASSUME RegistryAssumption ==
  /\ N \in Nat \ {0}
  /\ Unit \in [1 .. N -> Nat \ {0}] /\ Size \in [1 .. N -> Nat \ {0}]
  /\ \A c \in Configs \cup {Default} : IsConfig(c)
  /\ \A c \in Initial : c = Nothing \/ IsConfig(c)
  /\ MaxSets \in Nat /\ MaxKills \in Nat /\ MaxFails \in Nat

VARIABLES
  reg,       \* the registry key
  \* the client
  pc,        \* "down", "up", or in write_config: "delete", "write"
  next,      \* the value to be written next
  config,    \* the configuration in memory
  writes,    \* calls of write_config yet to end
  sets, kills, fails,
  \* history
  was,       \* what was read at start, if the configuration is still that
  saved,     \* the latest configuration of which each value was written, or the first
  missing,   \* the current write_config has failed to write a value
  kept,      \* a call of RegDeleteTreeW has not deleted everything
  cut        \* a write_config was killed, or failed in part, since then

rvars == <<reg, pc, next, config, writes, sets, kills, fails, was, saved, missing, kept, cut>>

RegistryTypeOK ==
  /\ DOMAIN reg \subseteq Nat /\ \A k \in DOMAIN reg : reg[k] \in Nat
  /\ pc \in {"down", "up", "delete", "write"} /\ next \in Nat
  /\ IsConfig(config) /\ writes \in 0 .. 2
  /\ \A c \in {was, saved} : c = Nothing \/ IsConfig(c)
  /\ sets \in 0 .. MaxSets /\ kills \in 0 .. MaxKills /\ fails \in 0 .. MaxFails
  /\ missing \in BOOLEAN /\ kept \in BOOLEAN /\ cut \in BOOLEAN

RegistryInit ==
  /\ reg \in Initial /\ saved = reg
  /\ pc = "down" /\ next = 0 /\ config = Default /\ writes = 0
  /\ sets = 0 /\ kills = 0 /\ fails = 0
  /\ was = Nothing /\ missing = FALSE /\ kept = FALSE /\ cut = FALSE

\* Mutation: the product is computed in a wider type and not cut to size.
AfterRead_Wide(c) == [k \in DOMAIN c |-> IF k = 0 THEN c[0] ELSE c[k] * Unit[Field(k)]]

\* convert_after_read
AfterRead(c) ==
  [k \in DOMAIN c |-> IF k = 0 THEN c[0] ELSE (c[k] * Unit[Field(k)]) % Size[Field(k)]]

\* Mutation: mem_usage is divided by the unit of disk_usage.
BeforeWrite_Unit(c) ==
  [k \in DOMAIN c |->
     IF k = 0 THEN c[0] ELSE c[k] \div Unit[IF Field(k) = 3 THEN 4 ELSE Field(k)]]

\* convert_before_write
BeforeWrite(c) == [k \in DOMAIN c |-> IF k = 0 THEN c[0] ELSE c[k] \div Unit[Field(k)]]

\* Mutation: one entry more than "count" is read.
Readable_OneMore(r) == 0 \in DOMAIN r /\ Slots(r[0] + 1) \subseteq DOMAIN r

\* Whether read_config returns 0: "count" and each value of each entry is there.
Readable(r) == 0 \in DOMAIN r /\ Slots(r[0]) \subseteq DOMAIN r

\* The entries read_config reads: those after the first "count" are not looked at.
Read(r) == [k \in Slots(r[0]) |-> r[k]]
-----------------------------------------------------------------------------
\* read_config, or default_config if that fails: because a value is not there,
\* or because a key of those there are cannot be opened or a value not queried.
\* (The rest is then read all the same, and not used.)  The temporary that is
\* assigned from is written when it is destroyed, as is the one passed to
\* ClientLogger.
Start ==
  /\ pc = "down" /\ pc' = "up"
  /\ \/ /\ Readable(reg)
        /\ config' = AfterRead(Read(reg)) /\ writes' = 1 /\ was' = Read(reg)
        /\ UNCHANGED fails
     \/ /\ config' = AfterRead(Default) /\ writes' = 2 /\ was' = Nothing
        /\ IF Readable(reg) THEN fails < MaxFails /\ fails' = fails + 1
                            ELSE UNCHANGED fails
  /\ UNCHANGED <<reg, next, sets, kills, saved, missing, kept, cut>>

\* set_config, when the server has sent c: written once, and once more when
\* the parameter is destroyed.
SetConfig(c) ==
  /\ pc = "up" /\ writes = 0 /\ sets < MaxSets
  /\ sets' = sets + 1 /\ config' = c /\ writes' = 2 /\ was' = Nothing
  /\ UNCHANGED <<reg, pc, next, kills, fails, saved, missing, kept, cut>>

BeginWrite ==
  /\ pc = "up" /\ writes > 0 /\ pc' = "delete" /\ missing' = FALSE
  /\ UNCHANGED <<reg, next, config, writes, sets, kills, fails, was, saved, kept, cut>>

\* The values of a key: of an entry's, or "count" alone.
KeyOf(i) == IF i = 0 THEN {0} ELSE N * (i - 1) + 1 .. N * i

\* RegDeleteTreeW deletes the keys of the entries, then the one with "count".
DeleteKey(i) ==
  /\ pc = "delete" /\ KeyOf(i) \cap DOMAIN reg # {}
  /\ i = 0 => DOMAIN reg = {0}
  /\ reg' = [k \in DOMAIN reg \ KeyOf(i) |-> reg[k]]
  /\ UNCHANGED <<pc, next, config, writes, sets, kills, fails, was, saved, missing, kept, cut>>

\* It has deleted all or fails, and its result is not looked at.
EndDelete ==
  /\ pc = "delete" /\ pc' = "write" /\ next' = 0
  /\ IF DOMAIN reg = {}
       THEN UNCHANGED <<fails, kept>>
       ELSE fails < MaxFails /\ fails' = fails + 1 /\ kept' = TRUE
  /\ UNCHANGED <<reg, config, writes, sets, kills, was, saved, missing, cut>>

\* Mutation: "count" is set to the number of entries written so far.
SetValue_CountLater ==
  /\ pc = "write" /\ next \in DOMAIN config /\ next' = next + 1
  /\ reg' = [k \in DOMAIN reg \cup {next, 0} |->
               IF k = 0 THEN (next + N - 1) \div N
                        ELSE IF k = next THEN BeforeWrite(config)[k] ELSE reg[k]]
  /\ saved' = IF next' \in DOMAIN config THEN saved ELSE BeforeWrite(config)
  /\ UNCHANGED <<pc, config, writes, sets, kills, fails, was, missing, kept, cut>>

\* serialize_registry and set_dword of "count"; errors are not looked at.
SetValue ==
  /\ pc = "write" /\ next \in DOMAIN config /\ next' = next + 1
  /\ \/ /\ reg' = [k \in DOMAIN reg \cup {next} |->
                     IF k = next THEN BeforeWrite(config)[k] ELSE reg[k]]
        /\ saved' = IF missing \/ next' \in DOMAIN config THEN saved ELSE BeforeWrite(config)
        /\ UNCHANGED <<fails, missing>>
     \/ /\ fails < MaxFails /\ fails' = fails + 1 /\ missing' = TRUE
        /\ UNCHANGED <<reg, saved>>
  /\ UNCHANGED <<pc, config, writes, sets, kills, was, kept, cut>>

EndWrite ==
  /\ pc = "write" /\ next \notin DOMAIN config
  /\ pc' = "up" /\ writes' = writes - 1 /\ cut' = missing
  /\ UNCHANGED <<reg, next, config, sets, kills, fails, was, saved, missing, kept>>

Kill ==
  /\ pc # "down" /\ kills < MaxKills
  /\ kills' = kills + 1 /\ pc' = "down" /\ writes' = 0 /\ was' = Nothing
  /\ cut' = (cut \/ pc \in {"delete", "write"})
  /\ UNCHANGED <<reg, next, config, sets, fails, saved, missing, kept>>

RegistryNext ==
  \/ Start \/ BeginWrite \/ EndDelete \/ SetValue \/ EndWrite \/ Kill
  \/ \E c \in Configs : SetConfig(c)
  \/ \E i \in {0} \cup {(k - 1) \div N + 1 : k \in DOMAIN reg \ {0}} : DeleteKey(i)

RegistrySpec == RegistryInit /\ [][RegistryNext]_rvars
-----------------------------------------------------------------------------
(***************************************************************************)
(* Properties                                                              *)
(***************************************************************************)

\* What a client that is started reads, if it can read anything, is the
\* configuration that was last saved in full, never some values of one and
\* some of another, wherever write_config was killed and whichever values it
\* failed to write.  Unless RegDeleteTreeW has failed, which write_config does
\* not look at either.
NeverMixed == ~kept /\ Readable(reg) => reg = saved

\* A client is started with the default, which it then writes over what is
\* there, only if there never was a configuration, write_config was killed or
\* could not write a value, or a registry call fails at this very start (which
\* read_config does not tell from a key that is not there).
DefaultOnlyIfCut ==
  [][pc = "down" /\ pc' = "up" /\ was' = Nothing =>
       saved = Nothing \/ cut \/ fails' # fails]_rvars

\* Reading a configuration and writing it, as each start does, changes no
\* threshold, unless it does not fit its type in the units of the memory
\* (convert_after_read), or registry calls failed.
StartKeepsThresholds ==
  pc = "up" /\ writes = 0 /\ was # Nothing /\ fails = 0 =>
    \A k \in DOMAIN was \ {0} :
      was[k] * Unit[Field(k)] < Size[Field(k)] => k \in DOMAIN reg /\ reg[k] = was[k]
=============================================================================
