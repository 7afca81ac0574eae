----------------------------- MODULE EnvProofs -----------------------------
(***************************************************************************)
(* Proofs about Env for every number of blocks, every contents and every   *)
(* range of serial numbers: with a redundant copy a save is atomic, a      *)
(* backup survives, and what saveenv reports as done is found at boot.     *)
(***************************************************************************)
EXTENDS Env, TLAPS

\* While a copy is being written its first block is complete with the new
\* serial number, and the blocks up to n have their new contents.
WriteInv ==
  pc = "write_env" =>
    /\ copy = IF redundant /\ env_valid = 1 THEN 2 ELSE 1
    /\ n > 0 => disk[copy].crc = env_new /\ disk[copy].flags = env_flags
    /\ \A i \in 1 .. n : disk[copy].data[i] = env_new[i]

\* As long as no read and no write has failed, memory knows the copy that a
\* boot would use and its serial number, and writes the next one.
SerialInv ==
  redundant /\ ~blind /\ ~failed =>
    /\ pc = "up" => \/ Chosen = 0
                    \/ Chosen = env_valid /\ env_flags = disk[env_valid].flags
    /\ pc = "write_env" =>
         \/ ~crc_ok(env_valid) /\ (n = 0 => ~crc_ok(copy))
         \/ /\ crc_ok(env_valid) /\ (n = 0 => Chosen = env_valid)
            /\ env_flags = (disk[env_valid].flags + 1) % SerialSize

IInv == TypeOK /\ WriteInv /\ SerialInv

-----------------------------------------------------------------------------
\* The successor of a serial number.
LEMMA NextSerial ==
  ASSUME NEW f \in Serials
  PROVE  /\ (f + 1) % SerialSize \in Serials
         /\ (f + 1) % SerialSize = IF f = SerialSize - 1 THEN 0 ELSE f + 1
<1>1. CASE f = SerialSize - 1
  <2>1. f + 1 = SerialSize
    BY <1>1, EnvAssumption DEF Serials
  <2>2. SerialSize % SerialSize = 0
    BY EnvAssumption
  <2> QED BY <1>1, <2>1, <2>2, EnvAssumption DEF Serials
<1>2. CASE f # SerialSize - 1
  <2>1. f + 1 \in 0 .. SerialSize - 1
    BY <1>2, EnvAssumption DEF Serials
  <2>2. \A x \in 0 .. SerialSize - 1 : x % SerialSize = x
    BY EnvAssumption
  <2> QED BY <1>2, <2>1, <2>2, EnvAssumption DEF Serials
<1> QED BY <1>1, <1>2

\* A serial number is recognised as newer than its predecessor, on either
\* side, at the wrap as well.
LEMMA SuccessorIsNewer ==
  ASSUME NEW f \in Serials
  PROVE  Newer(f, (f + 1) % SerialSize) = 2 /\ Newer((f + 1) % SerialSize, f) = 1
BY NextSerial, EnvAssumption DEF Newer, Serials

\* So is one that is ahead without having wrapped.
LEMMA AheadIsNewer ==
  ASSUME NEW f \in Serials, NEW g \in Serials, g - f \in 1 .. SerialSize - 2
  PROVE  Newer(f, g) = 2 /\ Newer(g, f) = 1
BY EnvAssumption DEF Newer, Serials

\* The copy a boot uses.
LEMMA ChosenIs ==
  Chosen = IF ~redundant THEN IF crc_ok(1) THEN 1 ELSE 0
           ELSE IF crc_ok(1) /\ crc_ok(2) THEN Newer(disk[1].flags, disk[2].flags)
           ELSE IF crc_ok(1) THEN 1 ELSE IF crc_ok(2) THEN 2 ELSE 0
BY DEF Chosen, Select, Copies

\* It is a valid one.
LEMMA ChosenIsValid ==
  Chosen \in {0, 1, 2} /\ (Chosen # 0 => crc_ok(Chosen))
    /\ (redundant /\ (crc_ok(1) \/ crc_ok(2)) => Chosen # 0)
BY ChosenIs DEF Newer

LEMMA EnvironmentIsSome == \A e \in Environments : e # none
<1> SUFFICES ASSUME NEW e \in Environments, e = << >> PROVE FALSE
  BY DEF none
<1>1. DOMAIN e = 1 .. Blocks
  BY DEF Environments
<1>2. 1 \in DOMAIN e
  BY <1>1, EnvAssumption
<1> QED BY <1>2
-----------------------------------------------------------------------------
LEMMA InitOK == Init => IInv
<1> SUFFICES ASSUME Init PROVE IInv
  OBVIOUS
<1>1. PICK data \in Environments, blank \in BOOLEAN :
        disk = [k \in Copies |->
                 [crc |-> IF blank \/ k = 2 THEN none ELSE data, flags |-> 0, data |-> data]]
  BY DEF Init
<1>2. disk \in [Copies -> [crc : Environments \cup {none}, flags : Serials, data : Environments]]
  BY <1>1, EnvAssumption DEF Serials
<1>3. TypeOK
  <2>1. 0 \in Serials /\ 0 \in 0 .. Blocks
    BY EnvAssumption DEF Serials
  <2> QED BY <1>2, <2>1, EnvAssumption, Zenon DEF Init, TypeOK, Copies
<1> QED BY <1>3 DEF Init, IInv, WriteInv, SerialInv

\* What one block changes.
LEMMA BlockWritten ==
  ASSUME TypeOK, WriteBlock
  PROVE  /\ n + 1 \in 1 .. Blocks /\ n' = n + 1
         /\ disk' \in [Copies -> [crc : Environments \cup {none}, flags : Serials, data : Environments]]
         /\ disk'[Other(copy)] = disk[Other(copy)]
         /\ disk'[copy].crc = IF n = 0 THEN env_new ELSE disk[copy].crc
         /\ disk'[copy].flags = IF n = 0 THEN env_flags ELSE disk[copy].flags
         /\ disk'[copy].data = [disk[copy].data EXCEPT ![n + 1] = env_new[n + 1]]
<1>1. n + 1 \in 1 .. Blocks /\ n' = n + 1 /\ copy \in Copies /\ Other(copy) \in Copies /\ Other(copy) # copy
  BY EnvAssumption DEF TypeOK, WriteBlock, Other, Copies
<1>2. disk[copy] \in [crc : Environments \cup {none}, flags : Serials, data : Environments]
  BY <1>1 DEF TypeOK
<1>3. env_new[n + 1] \in Contents /\ disk[copy].data \in [1 .. Blocks -> Contents]
  BY <1>1, <1>2 DEF TypeOK, Environments
<1> DEFINE r == [crc |-> IF n = 0 THEN env_new ELSE disk[copy].crc,
                 flags |-> IF n = 0 THEN env_flags ELSE disk[copy].flags,
                 data |-> [disk[copy].data EXCEPT ![n + 1] = env_new[n + 1]]]
<1>4. disk' = [disk EXCEPT ![copy] = r]
  BY DEF WriteBlock
<1>5. /\ r.crc = IF n = 0 THEN env_new ELSE disk[copy].crc
      /\ r.flags = IF n = 0 THEN env_flags ELSE disk[copy].flags
      /\ r.data = [disk[copy].data EXCEPT ![n + 1] = env_new[n + 1]]
  OBVIOUS
<1>6. r \in [crc : Environments \cup {none}, flags : Serials, data : Environments]
  BY <1>2, <1>3, <1>5, Zenon DEF TypeOK, Environments
<1>7. disk' \in [Copies -> [crc : Environments \cup {none}, flags : Serials, data : Environments]]
      /\ disk'[copy] = r /\ disk'[Other(copy)] = disk[Other(copy)]
  BY <1>1, <1>4, <1>6 DEF TypeOK
<1> QED BY <1>1, <1>5, <1>7

LEMMA StepType == TypeOK /\ [Next]_vars => TypeOK'
<1> SUFFICES ASSUME TypeOK, [Next]_vars PROVE TypeOK'
  OBVIOUS
<1>1. ASSUME NEW readable \in SUBSET Copies, env_relocate_spec(readable) PROVE TypeOK'
  <2> DEFINE k == Select([c \in Copies |-> c \in readable /\ crc_ok(c)])
  <2>1. k \in {0, 1, 2}
    BY DEF Select, Newer
  <2>2. k # 0 => disk[k].data \in Environments /\ disk[k].flags \in Serials
    BY <2>1 DEF TypeOK, Copies
  <2>3. env_htab' \in Environments /\ env_valid' \in Copies /\ env_flags' \in Serials
    <3>1. CASE k = 0
      BY <1>1, <3>1, EnvAssumption DEF env_relocate_spec, set_default_env, TypeOK
    <3>2. CASE k # 0
      BY <1>1, <2>1, <2>2, <3>2, EnvAssumption
        DEF env_relocate_spec, env_import, set_default_env, TypeOK, Copies
    <3> QED BY <3>1, <3>2
  <2>4. blind' \in BOOLEAN
    BY <1>1 DEF env_relocate_spec
  <2> QED BY <1>1, <2>3, <2>4 DEF env_relocate_spec, TypeOK, saving
<1>2. ASSUME NEW e \in Environments, setenv(e) PROVE TypeOK'
  BY <1>2 DEF setenv, TypeOK, saving
<1>3. CASE saveenv
  <2>1. env_flags' \in Serials
    BY <1>3, NextSerial DEF saveenv, TypeOK
  <2> QED BY <1>3, <2>1, EnvAssumption DEF saveenv, env_export, TypeOK, Copies
<1>4. CASE WriteBlock
  <2>1. n' \in 0 .. Blocks
    BY <1>4, BlockWritten, EnvAssumption
  <2>2. disk' \in [Copies -> [crc : Environments \cup {none}, flags : Serials, data : Environments]]
    BY <1>4, BlockWritten
  <2> QED BY <1>4, <2>1, <2>2 DEF WriteBlock, TypeOK, memory
<1>5. CASE SaveDone
  BY <1>5 DEF SaveDone, TypeOK, Copies, Other
<1>6. CASE SaveFails
  BY <1>6 DEF SaveFails, TypeOK, memory
<1>7. CASE PowerOff
  <2>1. 0 \in Serials /\ 0 \in 0 .. Blocks
    BY EnvAssumption DEF Serials
  <2> QED BY <1>7, <2>1, EnvAssumption, Zenon DEF PowerOff, Forget, TypeOK, Copies
<1>8. CASE UNCHANGED vars
  BY <1>8 DEF vars, memory, saving, TypeOK
<1> QED BY <1>1, <1>2, <1>3, <1>4, <1>5, <1>6, <1>7, <1>8 DEF Next

LEMMA StepWrite == TypeOK /\ WriteInv /\ [Next]_vars => WriteInv'
<1> SUFFICES ASSUME TypeOK, WriteInv, [Next]_vars, pc' = "write_env"
             PROVE  /\ copy' = IF redundant' /\ env_valid' = 1 THEN 2 ELSE 1
                    /\ n' > 0 => disk'[copy'].crc = env_new' /\ disk'[copy'].flags = env_flags'
                    /\ \A i \in 1 .. n' : disk'[copy'].data[i] = env_new'[i]
  BY DEF WriteInv
<1>1. CASE saveenv
  BY <1>1 DEF saveenv
<1>2. CASE WriteBlock
  <2>1. pc = "write_env" /\ UNCHANGED <<redundant, env_valid, env_flags, env_new, copy>>
    BY <1>2 DEF WriteBlock, memory
  <2>2. n \in Nat /\ n' = n + 1 /\ n + 1 \in 1 .. Blocks
    BY <1>2, BlockWritten, EnvAssumption DEF TypeOK
  <2>3. disk'[copy].crc = env_new /\ disk'[copy].flags = env_flags
    BY <1>2, <2>1, <2>2, BlockWritten DEF WriteInv
  <2>4. ASSUME NEW i \in 1 .. n' PROVE disk'[copy].data[i] = env_new[i]
    <3>1. disk[copy].data \in [1 .. Blocks -> Contents]
      BY DEF TypeOK, Environments
    <3>2. disk'[copy].data = [disk[copy].data EXCEPT ![n + 1] = env_new[n + 1]]
      BY <1>2, BlockWritten
    <3>3. CASE i = n + 1
      BY <2>2, <3>1, <3>2, <3>3, Zenon
    <3>4. CASE i # n + 1
      <4>1. i \in 1 .. n /\ i \in 1 .. Blocks
        BY <2>2, <3>4, EnvAssumption DEF TypeOK
      <4> QED BY <2>1, <3>1, <3>2, <3>4, <4>1 DEF WriteInv
    <3> QED BY <3>3, <3>4
  <2> QED BY <2>1, <2>3, <2>4 DEF WriteInv
<1>3. CASE UNCHANGED vars
  BY <1>3 DEF vars, memory, saving, WriteInv
<1>4. CASE \E readable \in SUBSET Copies : env_relocate_spec(readable)
  BY <1>4 DEF env_relocate_spec
<1>5. CASE \E e \in Environments : setenv(e)
  BY <1>5 DEF setenv
<1>6. CASE SaveDone \/ SaveFails \/ PowerOff
  BY <1>6 DEF SaveDone, SaveFails, PowerOff
<1> QED BY <1>1, <1>2, <1>3, <1>4, <1>5, <1>6 DEF Next

\* Environments with the same blocks are the same.
LEMMA SameBlocks ==
  ASSUME NEW e \in Environments, NEW f \in Environments, \A i \in 1 .. Blocks : e[i] = f[i]
  PROVE  e = f
<1>1. e = [i \in 1 .. Blocks |-> e[i]] /\ f = [i \in 1 .. Blocks |-> f[i]]
  BY DEF Environments
<1>2. [i \in 1 .. Blocks |-> e[i]] = [i \in 1 .. Blocks |-> f[i]]
  BY Zenon
<1> QED BY <1>1, <1>2, Zenon

\* A copy whose first block is written is valid when it holds env_new.
LEMMA ValidIsNew ==
  ASSUME TypeOK, WriteInv, pc = "write_env", n > 0
  PROVE  /\ crc_ok(copy) <=> disk[copy].data = env_new
         /\ n = Blocks => crc_ok(copy)
<1>1. disk[copy].crc = env_new
  BY DEF WriteInv
<1>2. ASSUME n = Blocks PROVE disk[copy].data = env_new
  <2>1. disk[copy].data \in Environments /\ env_new \in Environments
    BY DEF TypeOK
  <2>2. \A i \in 1 .. Blocks : disk[copy].data[i] = env_new[i]
    BY <1>2 DEF WriteInv
  <2> QED BY <2>1, <2>2, SameBlocks
<1>3. crc_ok(copy) <=> disk[copy].data = env_new
  BY <1>1 DEF crc_ok
<1> QED BY <1>2, <1>3

\* In the redundant form the copy being written is the other one.
LEMMA WritesOther ==
  ASSUME TypeOK, WriteInv, pc = "write_env", redundant
  PROVE  /\ copy \in {1, 2} /\ env_valid \in {1, 2} /\ copy # env_valid
         /\ copy = Other(env_valid) /\ env_valid = Other(copy)
BY DEF TypeOK, WriteInv, Copies, Other

\* When the number written is the next one, a boot uses the new copy as soon
\* as it is valid, and the old one until then.
LEMMA NextIsChosen ==
  ASSUME TypeOK, WriteInv, pc = "write_env", redundant, n > 0, crc_ok(env_valid),
         env_flags = (disk[env_valid].flags + 1) % SerialSize
  PROVE  Chosen = IF crc_ok(copy) THEN copy ELSE env_valid
<1>1. disk[copy].flags = env_flags
  BY DEF WriteInv
<1>2. disk[env_valid].flags \in Serials
  BY DEF TypeOK
<1>3. CASE env_valid = 1
  <2>1. copy = 2
    BY <1>3, WritesOther
  <2>2. Newer(disk[1].flags, disk[2].flags) = 2
    BY <1>1, <1>2, <1>3, <2>1, SuccessorIsNewer
  <2> QED BY <1>3, <2>1, <2>2, ChosenIs
<1>4. CASE env_valid = 2
  <2>1. copy = 1
    BY <1>4, WritesOther
  <2>2. Newer(disk[1].flags, disk[2].flags) = 1
    BY <1>1, <1>2, <1>4, <2>1, SuccessorIsNewer
  <2> QED BY <1>4, <2>1, <2>2, ChosenIs
<1> QED BY <1>3, <1>4, WritesOther

\* What a boot finds depends on the device alone.
LEMMA SameDisk ==
  ASSUME UNCHANGED <<redundant, disk>>
  PROVE  /\ Chosen' = Chosen /\ Stored' = Stored
         /\ \A k \in Copies : crc_ok(k)' <=> crc_ok(k)
BY Zenon DEF Chosen, Stored, Select, crc_ok, Newer

\* A complete write that is the next one, or has no rival, is what a boot uses.
LEMMA CompleteIsChosen ==
  ASSUME IInv, pc = "write_env", n = Blocks, redundant, ~blind, ~failed
  PROVE  Chosen = copy /\ crc_ok(copy) /\ disk[copy].flags = env_flags
<1>1. n > 0 /\ crc_ok(copy) /\ disk[copy].flags = env_flags
  BY ValidIsNew, EnvAssumption DEF IInv, WriteInv
<1>2. CASE ~crc_ok(env_valid)
  BY <1>1, <1>2, ChosenIs, WritesOther DEF IInv
<1>3. CASE crc_ok(env_valid)
  BY <1>1, <1>3, NextIsChosen DEF IInv, SerialInv
<1> QED BY <1>1, <1>2, <1>3

LEMMA StepSerial == IInv /\ [Next]_vars => SerialInv'
<1> SUFFICES ASSUME IInv, [Next]_vars, redundant', ~blind', ~failed' PROVE SerialInv'
  BY DEF SerialInv
<1> USE DEF IInv
<1>1. ASSUME NEW readable \in SUBSET Copies, env_relocate_spec(readable) PROVE SerialInv'
  <2>1. readable = Copies /\ UNCHANGED <<redundant, disk>> /\ pc' = "up"
    <3>1. blind' = (readable # Copies) /\ UNCHANGED <<redundant, disk>> /\ pc' = "up"
      BY <1>1, Zenon DEF env_relocate_spec
    <3> QED BY <3>1, Zenon
  <2>2. Chosen = Select([c \in Copies |-> c \in readable /\ crc_ok(c)])
    BY <2>1, Zenon DEF Chosen, Select, Copies
  <2>3. Chosen # 0 => env_valid' = Chosen /\ env_flags' = disk[Chosen].flags
    BY <1>1, <2>1, <2>2 DEF env_relocate_spec
  <2>4. Chosen' = 0 \/ (Chosen' = env_valid' /\ env_flags' = disk'[env_valid'].flags)
    BY <2>1, <2>3, SameDisk, Zenon
  <2> QED BY <2>1, <2>4 DEF SerialInv
<1>2. ASSUME NEW e \in Environments, setenv(e) PROVE SerialInv'
  <2>1. UNCHANGED <<redundant, disk, pc, env_valid, env_flags, blind, failed>> /\ pc = "up"
    BY <1>2, Zenon DEF setenv
  <2> QED BY <2>1, SameDisk DEF SerialInv
<1>3. CASE saveenv
  <2>1. /\ UNCHANGED <<redundant, disk, env_valid, blind, failed>>
        /\ pc = "up" /\ pc' = "write_env" /\ n' = 0
        /\ env_flags' = (env_flags + 1) % SerialSize
    BY <1>3, Zenon DEF saveenv
  <2>2. env_valid \in Copies /\ copy' \in Copies
    BY StepType DEF TypeOK
  <2>3. CASE Chosen = 0
    <3>1. ~crc_ok(1) /\ ~crc_ok(2)
      BY <2>1, <2>3, ChosenIsValid
    <3>2. ~crc_ok(env_valid)' /\ ~crc_ok(copy)'
      BY <2>1, <2>2, <3>1 DEF crc_ok, Copies
    <3> QED BY <2>1, <3>2 DEF SerialInv
  <2>4. CASE Chosen = env_valid /\ env_flags = disk[env_valid].flags
    <3>1. crc_ok(env_valid)
      BY <2>2, <2>4, ChosenIsValid DEF Copies
    <3>2. crc_ok(env_valid)'
      BY <2>1, <3>1 DEF crc_ok
    <3> QED BY <2>1, <2>4, <3>2, SameDisk DEF SerialInv
  <2> QED BY <2>1, <2>3, <2>4 DEF SerialInv
<1>4. CASE WriteBlock
  <2>1. /\ UNCHANGED <<redundant, env_valid, env_flags, copy, blind, failed>>
        /\ pc = "write_env" /\ pc' = "write_env"
    BY <1>4, Zenon DEF WriteBlock, memory
  <2>2. n' # 0
    BY <1>4, BlockWritten
  <2>3. disk'[env_valid] = disk[env_valid]
    BY <1>4, <2>1, BlockWritten, WritesOther
  <2>4. crc_ok(env_valid)' <=> crc_ok(env_valid)
    BY <2>1, <2>3 DEF crc_ok
  <2> QED BY <2>1, <2>2, <2>3, <2>4 DEF SerialInv
<1>5. CASE SaveDone
  <2>1. /\ UNCHANGED <<redundant, disk, env_flags, blind, failed>>
        /\ pc = "write_env" /\ n = Blocks /\ pc' = "up" /\ env_valid' = Other(env_valid)
    BY <1>5, Zenon DEF SaveDone
  <2>2. env_valid' = copy
    BY <2>1, WritesOther
  <2>3. Chosen = copy /\ disk[copy].flags = env_flags
    BY <2>1, CompleteIsChosen
  <2> QED BY <2>1, <2>2, <2>3, SameDisk DEF SerialInv
<1>6. CASE SaveFails
  BY <1>6 DEF SaveFails
<1>7. CASE PowerOff
  BY <1>7 DEF PowerOff, SerialInv
<1>8. CASE UNCHANGED vars
  <2>1. UNCHANGED <<redundant, disk, pc, env_valid, env_flags, copy, n, blind, failed>>
    BY <1>8, Zenon DEF vars, memory, saving
  <2>2. env_valid \in Copies /\ copy \in Copies
    BY DEF TypeOK
  <2> QED BY <2>1, <2>2, SameDisk DEF SerialInv, crc_ok
<1> QED BY <1>1, <1>2, <1>3, <1>4, <1>5, <1>6, <1>7, <1>8 DEF Next

\* The inductive invariant, for every environment size and serial range.
THEOREM Inductive == Spec => []IInv
<1>1. Init => IInv
  BY InitOK
<1>2. IInv /\ [Next]_vars => IInv'
  BY StepType, StepWrite, StepSerial DEF IInv
<1> QED BY <1>1, <1>2, PTL DEF Spec

-----------------------------------------------------------------------------
(* The lemmas above as one formula, which also holds after a step.         *)
DiskFacts ==
  /\ Chosen = IF ~redundant THEN IF crc_ok(1) THEN 1 ELSE 0
              ELSE IF crc_ok(1) /\ crc_ok(2) THEN Newer(disk[1].flags, disk[2].flags)
              ELSE IF crc_ok(1) THEN 1 ELSE IF crc_ok(2) THEN 2 ELSE 0
  /\ Chosen \in {0, 1, 2}
  /\ redundant /\ (crc_ok(1) \/ crc_ok(2)) => Chosen # 0
  /\ TypeOK /\ WriteInv /\ pc = "write_env" /\ n > 0 =>
       (crc_ok(copy) => disk[copy].data = env_new)
  /\ /\ TypeOK /\ WriteInv /\ pc = "write_env" /\ redundant /\ n > 0 /\ crc_ok(env_valid)
     /\ env_flags = (disk[env_valid].flags + 1) % SerialSize
     => Chosen = IF crc_ok(copy) THEN copy ELSE env_valid

LEMMA FactsNow == DiskFacts
<1>1. Chosen \in {0, 1, 2} /\ (redundant /\ (crc_ok(1) \/ crc_ok(2)) => Chosen # 0)
  BY ChosenIsValid
<1>2. TypeOK /\ WriteInv /\ pc = "write_env" /\ n > 0 =>
        (crc_ok(copy) => disk[copy].data = env_new)
  BY ValidIsNew
<1>3. /\ TypeOK /\ WriteInv /\ pc = "write_env" /\ redundant /\ n > 0 /\ crc_ok(env_valid)
      /\ env_flags = (disk[env_valid].flags + 1) % SerialSize
      => Chosen = IF crc_ok(copy) THEN copy ELSE env_valid
  BY NextIsChosen
<1> QED BY <1>1, <1>2, <1>3, ChosenIs DEF DiskFacts

LEMMA FactsAfter == DiskFacts'
<1>1. DiskFacts
  BY FactsNow
<1> QED BY <1>1, PTL

\* A block leaves the other copy alone, and a copy that is valid with the new
\* environment stays so.
LEMMA BlockKeeps ==
  ASSUME IInv, WriteBlock, redundant
  PROVE  /\ crc_ok(env_valid)' <=> crc_ok(env_valid)
         /\ disk'[env_valid] = disk[env_valid]
         /\ n > 0 /\ crc_ok(copy) => crc_ok(copy)'
         /\ env_valid' = env_valid /\ copy' = copy /\ redundant' /\ env_new' = env_new
         /\ env_flags' = env_flags /\ pc = "write_env" /\ pc' = "write_env" /\ n' > 0
<1> USE DEF IInv
<1>1. /\ env_valid' = env_valid /\ copy' = copy /\ redundant' /\ env_new' = env_new
      /\ env_flags' = env_flags /\ pc = "write_env" /\ pc' = "write_env"
  BY DEF WriteBlock, memory
<1>2. disk'[env_valid] = disk[env_valid]
  BY <1>1, BlockWritten, WritesOther
<1>3. crc_ok(env_valid)' <=> crc_ok(env_valid)
  BY <1>1, <1>2 DEF crc_ok
<1>4. n' > 0
  BY BlockWritten, EnvAssumption DEF TypeOK
<1>5. ASSUME n > 0, crc_ok(copy) PROVE crc_ok(copy)'
  <2>1. disk[copy].crc = env_new /\ disk[copy].data = env_new
    BY <1>1, <1>5, ValidIsNew DEF WriteInv
  <2>2. env_new \in [1 .. Blocks -> Contents] /\ n + 1 \in 1 .. Blocks
    BY BlockWritten DEF TypeOK, Environments
  <2>3. [env_new EXCEPT ![n + 1] = env_new[n + 1]] = env_new
    BY <2>2
  <2>4. disk'[copy].crc = env_new /\ disk'[copy].data = env_new
    BY <2>1, <2>3, BlockWritten
  <2> QED BY <1>1, <2>4 DEF crc_ok
<1> QED BY <1>1, <1>2, <1>3, <1>4, <1>5

\* Only a block that is written changes the device.
LEMMA OnlyBlocks ==
  ASSUME [Next]_vars, ~WriteBlock
  PROVE  UNCHANGED <<redundant, disk>>
BY Zenon DEF Next, vars, env_relocate_spec, setenv, saveenv, SaveDone, SaveFails, PowerOff

LEMMA BackupStep ==
  ASSUME IInv, IInv', [Next]_vars, redundant, ~blind, failed => crc_ok(env_valid), Stored # none
  PROVE  Stored' # none
<1>1. CASE ~WriteBlock
  BY <1>1, OnlyBlocks, SameDisk, Zenon
<1>2. CASE WriteBlock
  <2>1. Chosen # 0
    BY DEF Stored
  <2>2. copy \in {1, 2} /\ env_valid \in {1, 2} /\ copy # env_valid
    BY <1>2, BlockKeeps, WritesOther DEF IInv
  <2>3. crc_ok(env_valid)' \/ crc_ok(copy)'
    <3>1. CASE crc_ok(env_valid)
      BY <1>2, <3>1, BlockKeeps
    <3>2. CASE ~crc_ok(env_valid)
      <4>1. crc_ok(copy)
        BY <2>1, <2>2, <3>2, ChosenIsValid
      <4>2. n > 0
        <5>1. pc = "write_env"
          BY <1>2, BlockKeeps
        <5>2. n # 0
          BY <3>2, <4>1, <5>1 DEF IInv, SerialInv
        <5> QED BY <5>2, EnvAssumption DEF IInv, TypeOK
      <4> QED BY <1>2, <4>1, <4>2, BlockKeeps
    <3> QED BY <3>1, <3>2
  <2>4. crc_ok(1)' \/ crc_ok(2)'
    <3>1. copy' = copy /\ env_valid' = env_valid
      BY <1>2, BlockKeeps
    <3> QED BY <2>2, <2>3, <3>1
  <2>5. Chosen' \in {1, 2}
    BY <1>2, <2>4, FactsAfter, BlockKeeps DEF DiskFacts
  <2>6. disk'[Chosen'].data \in Environments
    BY <2>5 DEF IInv, TypeOK, Copies
  <2> QED BY <2>5, <2>6, EnvironmentIsSome DEF Stored
<1> QED BY <1>1, <1>2

LEMMA AtomicStep ==
  ASSUME IInv, IInv', [Next]_vars, redundant, ~blind, ~failed
  PROVE  Stored' \in {Stored, env_new}
<1>1. CASE ~WriteBlock
  BY <1>1, OnlyBlocks, SameDisk, Zenon
<1>2. CASE WriteBlock
  <2>1. copy \in {1, 2} /\ env_valid \in {1, 2} /\ copy # env_valid
    BY <1>2, BlockKeeps, WritesOther DEF IInv
  <2>2. n \in Nat
    BY EnvAssumption DEF IInv, TypeOK
  <2>3. CASE crc_ok(copy)'
    <3>1. disk'[copy].data = env_new
      BY <1>2, <2>3, FactsAfter, BlockKeeps DEF DiskFacts, IInv
    <3>2. Chosen' = copy
      <4>1. CASE ~crc_ok(env_valid)'
        BY <1>2, <2>1, <2>3, <4>1, FactsAfter, BlockKeeps DEF DiskFacts
      <4>2. CASE crc_ok(env_valid)'
        <5>1. (env_flags = (disk[env_valid].flags + 1) % SerialSize)'
          BY <1>2, <4>2, BlockKeeps DEF IInv, SerialInv
        <5> QED BY <1>2, <2>3, <4>2, <5>1, FactsAfter, BlockKeeps DEF DiskFacts, IInv
      <4> QED BY <4>1, <4>2
    <3> QED BY <2>1, <3>1, <3>2 DEF Stored
  <2>4. CASE ~crc_ok(copy)'
    <3>1. n = 0 \/ ~crc_ok(copy)
      BY <1>2, <2>2, <2>4, BlockKeeps
    <3>2. CASE crc_ok(env_valid)
      <4>1. Chosen' = env_valid
        BY <1>2, <2>1, <2>4, <3>2, FactsAfter, BlockKeeps DEF DiskFacts
      <4>2. Chosen = env_valid
        <5>1. CASE n = 0
          BY <1>2, <3>2, <5>1, BlockKeeps DEF IInv, SerialInv
        <5>2. CASE ~crc_ok(copy)
          BY <2>1, <3>2, <5>2, ChosenIs
        <5> QED BY <3>1, <5>1, <5>2
      <4> QED BY <1>2, <2>1, <4>1, <4>2, BlockKeeps DEF Stored
    <3>3. CASE ~crc_ok(env_valid)
      <4>1. Chosen' = 0
        BY <1>2, <2>1, <2>4, <3>3, FactsAfter, BlockKeeps DEF DiskFacts
      <4>2. ~crc_ok(copy)
        BY <1>2, <3>1, <3>3, BlockKeeps DEF IInv, SerialInv
      <4>3. Chosen = 0
        BY <2>1, <3>3, <4>2, ChosenIs
      <4> QED BY <4>1, <4>3 DEF Stored
    <3> QED BY <3>2, <3>3
  <2> QED BY <2>3, <2>4
<1> QED BY <1>1, <1>2

LEMMA SavedStep ==
  ASSUME IInv, [Next]_vars, pc = "write_env", pc' = "up", ret' = 0, redundant => Ordered
  PROVE  Stored' = env_new
<1> USE DEF IInv
<1>1. SaveDone
  BY DEF Next, vars, env_relocate_spec, setenv, saveenv, WriteBlock, SaveFails, PowerOff
<1>2. n = Blocks /\ n > 0 /\ UNCHANGED <<redundant, disk>>
  BY <1>1, EnvAssumption DEF SaveDone
<1>3. crc_ok(copy) /\ disk[copy].data = env_new /\ disk[copy].flags = env_flags
  BY <1>2, ValidIsNew DEF WriteInv
<1>4. copy \in {1, 2}
  BY DEF TypeOK, Copies
<1>5. Chosen = copy
  <2>1. CASE ~redundant
    BY <1>3, <2>1, ChosenIs DEF WriteInv
  <2>2. CASE redundant /\ ~failed
    BY <1>2, <2>2, CompleteIsChosen DEF Ordered
  <2>3. CASE redundant /\ failed /\ ~crc_ok(Other(copy))
    BY <1>3, <1>4, <2>3, ChosenIs DEF Other
  <2>4. CASE redundant /\ failed /\ crc_ok(Other(copy))
    <3>1. env_flags - disk[Other(copy)].flags \in 1 .. SerialSize - 2
      BY <2>4 DEF Ordered
    <3>2. env_flags \in Serials /\ disk[Other(copy)].flags \in Serials
      BY <1>4 DEF TypeOK, Other, Copies
    <3>3. CASE copy = 1
      <4>1. Newer(disk[1].flags, disk[2].flags) = 1
        BY <1>3, <3>1, <3>2, <3>3, AheadIsNewer DEF Other
      <4> QED BY <1>3, <2>4, <3>3, <4>1, ChosenIs DEF Other
    <3>4. CASE copy = 2
      <4>1. Newer(disk[1].flags, disk[2].flags) = 2
        BY <1>3, <3>1, <3>2, <3>4, AheadIsNewer DEF Other
      <4> QED BY <1>3, <2>4, <3>4, <4>1, ChosenIs DEF Other
    <3> QED BY <1>4, <3>3, <3>4
  <2> QED BY <2>1, <2>2, <2>3, <2>4 DEF TypeOK
<1> QED BY <1>2, <1>3, <1>4, <1>5, SameDisk DEF Stored

-----------------------------------------------------------------------------
\* Type correctness of the environment's state on the device and in memory.
THEOREM TypeCorrect == Spec => []TypeOK
<1>1. IInv => TypeOK
  BY DEF IInv
<1> QED BY <1>1, Inductive, PTL

\* With a redundant copy, a stored environment survives every power cut and
\* every failed write of saveenv (env_mmc.c).
THEOREM BackupIsKept == Spec => BackupKept
<1>1. IInv /\ IInv' /\ [Next]_vars =>
        [redundant /\ ~blind /\ (failed => crc_ok(env_valid)) /\ Stored # none
           => Stored' # none]_vars
  BY BackupStep
<1> QED BY <1>1, Inductive, PTL DEF Spec, BackupKept

\* With a redundant copy and no failed write, saveenv is atomic, at the wrap
\* of the serial number as well.
THEOREM SavesAreAtomic == Spec => SaveIsAtomic
<1>1. IInv /\ IInv' /\ [Next]_vars =>
        [redundant /\ ~blind /\ ~failed => Stored' \in {Stored, env_new}]_vars
  BY AtomicStep
<1> QED BY <1>1, Inductive, PTL DEF Spec, SaveIsAtomic

\* What saveenv reports as done is what the next boot finds, in both forms.
THEOREM SavesAreStored == Spec => SavedIsStored
<1>1. IInv /\ [Next]_vars =>
        [pc = "write_env" /\ pc' = "up" /\ ret' = 0 /\ (redundant => Ordered)
           => Stored' = env_new]_vars
  BY SavedStep
<1> QED BY <1>1, Inductive, PTL DEF Spec, SavedIsStored
=============================================================================
