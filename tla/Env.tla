-------------------------------- MODULE Env --------------------------------
(***************************************************************************)
(* U-Boot's environment on an MMC device (env_mmc.c, env_common.c), in     *)
(* both forms the source has: with a redundant copy and a serial number    *)
(* (CONFIG_ENV_OFFSET_REDUND), and with one copy, as this board is built.  *)
(* The device writes block after block, may fail, and the power may go at  *)
(* any moment.                                                             *)
(*                                                                         *)
(* An environment is a function from blocks to contents. The CRC, in the   *)
(* first block with the serial number, is the data it was computed from:   *)
(* that two environments have the same CRC is left out.                    *)
(***************************************************************************)
EXTENDS Integers

CONSTANTS
  Blocks,      \* blocks of a copy: CONFIG_ENV_SIZE / write_bl_len
  Contents,    \* what a block may hold
  SerialSize,  \* the values of env_t.flags: 256
  default_environment

Environments == [1 .. Blocks -> Contents]

ASSUME EnvAssumption ==
  /\ Blocks \in Nat \ {0}
  /\ SerialSize \in Nat /\ SerialSize > 2
  /\ default_environment \in Environments

VARIABLES
  redundant,                       \* CONFIG_ENV_OFFSET_REDUND
  disk,                            \* the copies, at offset1 and offset2
  pc,
  env_htab, env_valid, env_flags,  \* memory: the environment, the copy it
                                   \* is from, its serial number
  env_new, copy, n, ret,           \* saveenv, and the blocks written so far
  blind,                           \* history: a read failed at the last boot
  failed                           \* history: a write failed since

memory == <<env_htab, env_valid, env_flags>>
saving == <<env_new, copy, n, ret>>
vars == <<redundant, disk, pc, memory, saving, blind, failed>>

none == <<>>  \* no environment
Copies == {1, 2}
Serials == 0 .. SerialSize - 1
Other(k) == 3 - k

crc_ok(k) == disk[k].crc = disk[k].data

\* Mutated form: the serial number's wrap is not recognised.
NewerNoWrap(f1, f2) == IF f1 >= f2 THEN 1 ELSE 2

\* The copy that has the newer serial number.
Newer(f1, f2) ==
  IF f1 = SerialSize - 1 /\ f2 = 0 THEN 2
  ELSE IF f2 = SerialSize - 1 /\ f1 = 0 THEN 1
  ELSE IF f1 >= f2 THEN 1 ELSE 2

\* The copy that is used, given which can be; 0 for the default environment.
Select(ok) ==
  IF ~redundant THEN IF ok[1] THEN 1 ELSE 0
  ELSE IF ok[1] /\ ok[2] THEN Newer(disk[1].flags, disk[2].flags)
  ELSE IF ok[1] THEN 1 ELSE IF ok[2] THEN 2 ELSE 0

\* What is in memory before env_relocate: env_init's env_valid, and zeros.
Forget ==
  /\ env_htab' = default_environment /\ env_valid' = 1 /\ env_flags' = 0
  /\ env_new' = default_environment /\ copy' = 1 /\ n' = 0 /\ ret' = 0
  /\ blind' = FALSE /\ failed' = FALSE

\* The device has what an earlier board has left, or nothing valid.
Init ==
  /\ redundant \in BOOLEAN
  /\ \E data \in Environments : \E blank \in BOOLEAN :
       disk = [k \in Copies |->
                 [crc |-> IF blank \/ k = 2 THEN none ELSE data, flags |-> 0, data |-> data]]
  /\ pc = "off"
  /\ env_htab = default_environment /\ env_valid = 1 /\ env_flags = 0
  /\ env_new = default_environment /\ copy = 1 /\ n = 0 /\ ret = 0
  /\ blind = FALSE /\ failed = FALSE

-----------------------------------------------------------------------------
set_default_env == env_htab' = default_environment
\* Importing may fail; then, too, the default environment is used.
env_import(k) == env_htab' = disk[k].data \/ set_default_env
env_export == env_new' = env_htab  \* and its CRC

\* env_relocate_spec, with the copies the device lets it read: none when the
\* device cannot be initialised.
env_relocate_spec(readable) ==
  /\ pc = "off" /\ pc' = "up"
  /\ LET k == Select([c \in Copies |-> c \in readable /\ crc_ok(c)])
     IN  IF k = 0
         THEN set_default_env /\ UNCHANGED <<env_valid, env_flags>>
         ELSE /\ env_import(k) /\ env_valid' = k
              /\ env_flags' = IF redundant THEN disk[k].flags ELSE env_flags
  /\ blind' = (readable # Copies)
  /\ UNCHANGED <<redundant, disk, saving, failed>>

\* The user changes variables (do_env_set and its like, to any effect).
setenv(e) ==
  /\ pc = "up" /\ env_htab' = e
  /\ UNCHANGED <<redundant, disk, pc, env_valid, env_flags, saving, blind, failed>>

\* Mutated form: the serial number is not increased.
saveenvSameSerial ==
  /\ pc = "up" /\ pc' = "write_env"
  /\ env_export /\ n' = 0 /\ UNCHANGED <<env_flags, ret>>
  /\ copy' = IF redundant /\ env_valid = 1 THEN 2 ELSE 1
  /\ UNCHANGED <<redundant, disk, env_htab, env_valid, blind, failed>>

\* saveenv, when the device can be initialised and the environment fits, up
\* to write_env. (It returns 1 and does nothing otherwise.) The serial number
\* is counted here, whatever becomes of the write.
saveenv ==
  /\ pc = "up" /\ pc' = "write_env"
  /\ env_export /\ n' = 0 /\ UNCHANGED ret
  /\ env_flags' = IF redundant THEN (env_flags + 1) % SerialSize ELSE env_flags
  /\ copy' = IF redundant /\ env_valid = 1 THEN 2 ELSE 1
  /\ UNCHANGED <<redundant, disk, env_htab, env_valid, blind, failed>>

\* The device writes the next block of the copy.
WriteBlock ==
  /\ pc = "write_env" /\ n < Blocks /\ n' = n + 1
  /\ disk' = [disk EXCEPT ![copy] =
       [crc |-> IF n = 0 THEN env_new ELSE @.crc,
        flags |-> IF n = 0 THEN env_flags ELSE @.flags,
        data |-> [@.data EXCEPT ![n + 1] = env_new[n + 1]]]]
  /\ UNCHANGED <<redundant, pc, memory, env_new, copy, ret, blind, failed>>

\* Mutated form: env_valid stays at the copy that is now the older one.
SaveDoneNoToggle ==
  /\ pc = "write_env" /\ n = Blocks
  /\ ret' = 0 /\ UNCHANGED env_valid
  /\ pc' = "up"
  /\ UNCHANGED <<redundant, disk, env_htab, env_flags, env_new, copy, n, blind, failed>>

\* The rest of saveenv: every block has been written ...
SaveDone ==
  /\ pc = "write_env" /\ n = Blocks
  /\ ret' = 0 /\ env_valid' = IF redundant THEN Other(env_valid) ELSE env_valid
  /\ pc' = "up"
  /\ UNCHANGED <<redundant, disk, env_htab, env_flags, env_new, copy, n, blind, failed>>

\* ... or the device reports fewer, however many have been.
SaveFails ==
  /\ pc = "write_env"
  /\ ret' = 1 /\ failed' = TRUE /\ pc' = "up"
  /\ UNCHANGED <<redundant, disk, memory, env_new, copy, n, blind>>

PowerOff == pc # "off" /\ pc' = "off" /\ Forget /\ UNCHANGED <<redundant, disk>>

Next ==
  \/ \E readable \in SUBSET Copies : env_relocate_spec(readable)
  \/ \E e \in Environments : setenv(e)
  \/ saveenv \/ WriteBlock \/ SaveDone \/ SaveFails \/ PowerOff

Spec == Init /\ [][Next]_vars

-----------------------------------------------------------------------------
\* What the next boot finds, if it can read the device.
Chosen == Select([c \in Copies |-> crc_ok(c)])
Stored == IF Chosen = 0 THEN none ELSE disk[Chosen].data

TypeOK ==
  /\ redundant \in BOOLEAN
  /\ disk \in [Copies -> [crc : Environments \cup {none}, flags : Serials, data : Environments]]
  /\ pc \in {"off", "up", "write_env"}
  /\ env_htab \in Environments /\ env_valid \in Copies /\ env_flags \in Serials
  /\ env_new \in Environments /\ copy \in Copies /\ n \in 0 .. Blocks /\ ret \in {0, 1}
  /\ blind \in BOOLEAN /\ failed \in BOOLEAN

\* The redundant copy does what the README's CONFIG_ENV_OFFSET_REDUND says it
\* is for: once an environment is stored, a boot finds a valid one, whatever
\* write is cut short or fails, at any block. Two cases are excepted: a session
\* whose boot could not read the device (blind), which does not know which copy
\* to spare; and an environment stored only by a write that reported a failure.
BackupKept ==
  [][redundant /\ ~blind /\ (failed => crc_ok(env_valid)) /\ Stored # none
       => Stored' # none]_vars

\* As long as no read and no write has failed, a save with a redundant copy is
\* atomic: a boot finds what it would have found before, until it finds the new
\* one.
SaveIsAtomic ==
  [][redundant /\ ~blind /\ ~failed => Stored' \in {Stored, env_new}]_vars

\* The serial number that is written is recognised as newer than that of the
\* other copy, unless a write that failed was counted where it wrapped.
Ordered ==
  ~blind /\ (failed => env_flags - disk[Other(copy)].flags \in 1 .. SerialSize - 2)

\* What saveenv reports as done is what the next boot finds, where the serial
\* numbers are Ordered.
SavedIsStored ==
  [][pc = "write_env" /\ pc' = "up" /\ ret' = 0 /\ (redundant => Ordered)
       => Stored' = env_new]_vars

\* The same for every save. It does not hold: each failed save counts the
\* serial number, and 255 -> 0 is recognised only as a step of one; and after
\* a boot that could not read the device the numbers start again from 0.
SavedAlwaysStored ==
  [][pc = "write_env" /\ pc' = "up" /\ ret' = 0 => Stored' = env_new]_vars
=============================================================================
