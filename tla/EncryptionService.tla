------------------------- MODULE EncryptionService -------------------------
(***************************************************************************)
(* EncryptionService (src/services/encryptionService.ts) and the commands  *)
(* that use it: the store on the disk in the clear, or encrypted twice, for*)
(* synchronisation and as the local shadow, with what is needed to check a *)
(* password beside it.  Every key of globalState is written by itself, and *)
(* VS Code may be closed between two writes.                               *)
(*                                                                         *)
(* A key stands for a password with its salt and iterations; the user knows*)
(* the passwords.  Of a store only the number of its last edit is kept.    *)
(***************************************************************************)
EXTENDS Naturals, FiniteSetsExt

CONSTANTS
    None,
    Legacy,     \* keys derived with fewer iterations than today
    MaxKey,     \* bound: keys derived
    MaxEdit     \* bound: edits

VARIABLES
    plain, enc, shadow, meta,   \* the entries of globalState
    key,        \* _derivedKey
    hash,       \* _lastVerificationHash
    mem,        \* the store in ConnectionManager, None before it is loaded
    saver,      \* a save under way
    cmd,        \* a command under way: one at a time
    keys,       \* keys derived so far
    acked,      \* the last edit whose save has returned
    foreign,    \* another device has changed the password
    excused     \* a save overlapped a command, or a crash found it half done

disk == <<plain, enc, shadow, meta>>
memory == <<key, hash, mem>>
vars == <<disk, memory, saver, cmd, keys, acked, foreign, excused>>

Key == 1 .. MaxKey
Edit == 0 .. MaxEdit
Blob == [key : Key, data : Edit]
Idle == [kind |-> None, pc |-> "idle", key |-> None, data |-> None]
NoSave == [pc |-> "idle", blob |-> None]

\* The setting of a fresh installation, or a store encrypted some time ago.
Init ==
    /\ \/ plain = 0 /\ enc = None /\ shadow = None /\ meta = None
       \/ /\ plain = None /\ meta = 1
          /\ enc = [key |-> 1, data |-> 0] /\ shadow = enc
    /\ key = None /\ hash = None /\ mem = None
    /\ saver = NoSave /\ cmd = Idle /\ keys = 1
    /\ acked = 0 /\ foreign = FALSE /\ excused = FALSE

Reads(blob, k) == blob # None /\ k # None /\ blob.key = k

\* A command may overlap a save, and a save a command.
Overlap == excused' = (excused \/ (cmd # Idle /\ cmd.pc \notin {"save", "saving"}))

-----------------------------------------------------------------------------
(* loadStore, loadLocalStore and load() *)

\* The shadow, or failing that the memory, merged with the synchronised copy;
\* with no password there is only the plain store.  A store that could not be
\* read is not there to be edited: the views show it as locked.
Load ==
    /\ saver = NoSave
    /\ meta = None \/ key # None
    /\ LET local == IF meta # None /\ Reads(shadow, key) THEN shadow.data ELSE mem
           remote == IF meta = None THEN plain
                     ELSE IF Reads(enc, key) THEN enc.data ELSE None
           found == (IF meta = None /\ plain # None THEN {plain} ELSE {local, remote}) \ {None}
           changed == meta # None /\ enc # None /\ ~Reads(enc, key)
                      /\ hash # None /\ meta # hash
       IN  /\ mem' = IF found # {} THEN Max(found)
                     ELSE IF plain = None /\ enc = None THEN 0 ELSE None
           /\ key' = IF changed THEN None ELSE key
           /\ hash' = IF changed THEN None ELSE hash
    /\ cmd' = IF cmd.pc = "load" THEN Idle ELSE cmd
    /\ UNCHANGED <<disk, saver, keys, acked, foreign, excused>>

-----------------------------------------------------------------------------
(* saveStore *)

EditStore ==
    /\ mem # None /\ mem < MaxEdit /\ saver = NoSave
    /\ mem' = mem + 1
    /\ saver' = [NoSave EXCEPT !.pc = "enc"]
    /\ Overlap
    /\ UNCHANGED <<disk, key, hash, cmd, keys, acked, foreign>>

\* The plain store is written at once, the encrypted one twice, a locked one
\* not at all.
SaveEnc ==
    /\ saver.pc = "enc"
    /\ \/ /\ meta = None
          /\ plain' = mem /\ acked' = mem /\ saver' = NoSave
          /\ Overlap
          /\ UNCHANGED enc
       \/ /\ meta # None /\ key # None
          /\ enc' = [key |-> key, data |-> mem]
          /\ saver' = [pc |-> "shadow", blob |-> enc']
          /\ Overlap
          /\ UNCHANGED <<plain, acked>>
       \/ /\ meta # None /\ key = None
          /\ saver' = NoSave
          /\ excused' = (excused \/ cmd.kind = "setup")
          /\ UNCHANGED <<plain, enc, acked>>
    /\ cmd' = IF cmd.pc = "saving" THEN Idle ELSE cmd
    /\ UNCHANGED <<shadow, meta, memory, keys, foreign>>

SaveShadow ==
    /\ saver.pc = "shadow"
    /\ shadow' = saver.blob
    /\ acked' = saver.blob.data
    /\ foreign' = (foreign /\ saver.blob.key # meta)
    /\ saver' = NoSave
    /\ Overlap
    /\ UNCHANGED <<plain, enc, meta, memory, cmd, keys>>

-----------------------------------------------------------------------------
(* Commands.  A key is derived first, which takes a while. *)

Begin(kind, data) ==
    /\ cmd = Idle /\ keys < MaxKey
    /\ keys' = keys + 1
    /\ cmd' = [kind |-> kind, pc |-> "derived", key |-> keys', data |-> data]
    /\ excused' = (excused \/ saver # NoSave)

\* setupMasterPassword: also when a password is set and the store unlocked.
Setup ==
    /\ meta = None \/ key # None
    /\ mem # None
    /\ Begin("setup", None)
    /\ UNCHANGED <<disk, memory, saver, acked, foreign>>

SetupEnc ==
    /\ cmd.kind = "setup" /\ cmd.pc = "derived"
    /\ IF plain # None
       THEN /\ enc' = [key |-> cmd.key, data |-> plain]
            /\ cmd' = [cmd EXCEPT !.pc = "erase"]
       ELSE /\ cmd' = [cmd EXCEPT !.pc = "meta"]
            /\ UNCHANGED enc
    /\ UNCHANGED <<plain, shadow, meta, memory, saver, keys, acked, foreign, excused>>

\* Variant for sensitivity: the plain store stays.
SetupKeeps ==
    /\ cmd.kind = "setup" /\ cmd.pc = "erase"
    /\ cmd' = [cmd EXCEPT !.pc = "meta"]
    /\ UNCHANGED <<disk, memory, saver, keys, acked, foreign, excused>>

SetupErase ==
    /\ cmd.kind = "setup" /\ cmd.pc = "erase"
    /\ plain' = None
    /\ cmd' = [cmd EXCEPT !.pc = "meta"]
    /\ UNCHANGED <<enc, shadow, meta, memory, saver, keys, acked, foreign, excused>>

\* changeMasterPassword: the password is checked, the blob must open with it.
Change ==
    /\ meta # None /\ mem # None
    /\ enc # None => enc.key = meta
    /\ Begin("change", IF enc # None THEN enc.data ELSE None)
    /\ UNCHANGED <<disk, memory, saver, acked, foreign>>

\* Both copies are encrypted anew, the synchronised one first.
Rekey ==
    /\ cmd.kind \in {"change", "migrate"}
    /\ LET blob == [key |-> cmd.key, data |-> cmd.data]
       IN  \/ /\ cmd.pc = "derived" /\ cmd.data = None
              /\ cmd' = [cmd EXCEPT !.pc = "meta"]
              /\ UNCHANGED <<enc, shadow>>
           \/ /\ cmd.pc = "derived" /\ cmd.data # None
              /\ enc' = blob /\ cmd' = [cmd EXCEPT !.pc = "shadow"]
              /\ UNCHANGED shadow
           \/ /\ cmd.pc = "shadow"
              /\ shadow' = blob /\ cmd' = [cmd EXCEPT !.pc = "meta"]
              /\ UNCHANGED enc
    /\ UNCHANGED <<plain, meta, memory, saver, keys, acked, foreign, excused>>

\* The parameters of the new key, and the key.  A migration that finds the
\* store locked meanwhile leaves it so.
WriteMeta ==
    /\ cmd.kind \in {"setup", "change", "migrate"} /\ cmd.pc = "meta"
    /\ meta' = cmd.key
    /\ IF cmd.kind = "migrate" /\ key = None
       THEN UNCHANGED <<key, hash>>
       ELSE key' = cmd.key /\ hash' = cmd.key
    /\ cmd' = IF cmd.kind = "migrate" THEN Idle ELSE [cmd EXCEPT !.pc = "save"]
    /\ UNCHANGED <<plain, enc, shadow, mem, saver, keys, acked, foreign, excused>>

\* The command saves the store in memory.
SaveAfter ==
    /\ cmd.pc = "save" /\ saver = NoSave
    /\ saver' = [NoSave EXCEPT !.pc = "enc"]
    /\ cmd' = [cmd EXCEPT !.pc = "saving"]
    /\ UNCHANGED <<disk, memory, keys, acked, foreign, excused>>

\* removeMasterPassword: the store is read, the rest is erased, and what was
\* read is written.
Remove ==
    /\ meta # None /\ key # None /\ cmd = Idle
    /\ LET data == IF Reads(enc, key) THEN enc.data ELSE None
       IN  /\ cmd' = [Idle EXCEPT !.kind = "remove", !.pc = "meta", !.data = data]
           /\ excused' = (excused \/ saver # NoSave \/ data = None)
    /\ key' = None
    /\ UNCHANGED <<disk, hash, mem, saver, keys, acked, foreign>>

\* Variant for sensitivity: the plain store is not written at the end.
RemoveUnwritten == [meta |-> "enc", enc |-> "shadow", shadow |-> "load"]

RemoveOrder == [meta |-> "enc", enc |-> "shadow", shadow |-> "plain", plain |-> "load"]

RemoveStep ==
    /\ cmd.kind = "remove" /\ cmd.pc # "load"
    /\ meta' = IF cmd.pc = "meta" THEN None ELSE meta
    /\ enc' = IF cmd.pc = "enc" THEN None ELSE enc
    /\ shadow' = IF cmd.pc = "shadow" THEN None ELSE shadow
    /\ plain' = IF cmd.pc = "plain" /\ cmd.data # None THEN cmd.data ELSE plain
    /\ cmd' = [cmd EXCEPT !.pc = RemoveOrder[cmd.pc]]
    /\ UNCHANGED <<memory, saver, keys, acked, foreign, excused>>

-----------------------------------------------------------------------------
(* Lock, unlock, crash, the other device *)

\* Unlocking with an old key starts its migration.
Unlock ==
    /\ meta # None /\ cmd = Idle
    /\ key' = meta /\ hash' = meta
    /\ IF meta \in Legacy /\ keys < MaxKey /\ (enc # None => enc.key = meta)
       THEN Begin("migrate", IF enc # None THEN enc.data ELSE None)
       ELSE UNCHANGED <<cmd, keys, excused>>
    /\ UNCHANGED <<disk, mem, saver, acked, foreign>>

Lock ==
    /\ key # None
    /\ key' = None
    /\ UNCHANGED <<disk, hash, mem, saver, cmd, keys, acked, foreign, excused>>

\* Between two of a command's writes the store can be unreadable.
Torn ==
    \/ cmd.kind = "setup" /\ cmd.pc \in {"meta", "save", "saving"}
    \/ cmd.kind \in {"change", "migrate"} /\ cmd.pc = "meta"
    \/ cmd.kind \in {"change", "migrate"} /\ cmd.pc = "shadow" /\ ~Reads(shadow, meta)
    \/ cmd.kind = "remove" /\ cmd.pc \in {"enc", "shadow", "plain"}

Crash ==
    /\ key' = None /\ hash' = None /\ mem' = None
    /\ saver' = NoSave /\ cmd' = Idle
    /\ excused' = (excused \/ Torn \/ foreign)
    /\ UNCHANGED <<disk, keys, acked, foreign>>

\* Settings Sync delivers a store under a new password, without our last edits.
RemoteChange(data) ==
    /\ meta # None /\ cmd = Idle /\ keys < MaxKey
    /\ keys' = keys + 1
    /\ enc' = [key |-> keys', data |-> data] /\ meta' = keys'
    /\ foreign' = TRUE
    /\ UNCHANGED <<plain, shadow, memory, saver, cmd, acked, excused>>

Next ==
    \/ Load \/ EditStore \/ SaveEnc \/ SaveShadow
    \/ Setup \/ SetupEnc \/ SetupErase \/ Change \/ Rekey \/ WriteMeta \/ SaveAfter
    \/ Remove \/ RemoveStep \/ Unlock \/ Lock \/ Crash
    \/ \E data \in 0 .. acked : RemoteChange(data)

Spec == Init /\ [][Next]_vars

-----------------------------------------------------------------------------
(* Properties *)

TypeOK ==
    /\ plain \in Edit \cup {None} /\ {enc, shadow} \subseteq Blob \cup {None}
    /\ {meta, key, hash} \subseteq Key \cup {None}
    /\ mem \in Edit \cup {None} /\ saver.blob \in Blob \cup {None}
    /\ cmd.data \in Edit \cup {None} /\ keys \in 0 .. MaxKey

\* What VS Code finds when it is started again and the password is entered.
Found ==
    IF meta = None THEN {plain} \ {None}
    ELSE {b.data : b \in {c \in {enc, shadow} : Reads(c, meta)}}

\* Whenever VS Code is closed, between any two writes of a save, a change of
\* the password or a migration, the password opens a copy with every edit whose
\* save has returned; but for the gaps listed in Torn, and until this device
\* has saved again after the password was changed on another one.
Recoverable ==
    Torn \/ foreign \/ excused \/ \E d \in Found : d >= acked

\* When nothing is under way, what is encrypted is not also there in the clear,
\* and the key in memory is the one whose parameters are on the disk.
Consistent ==
    cmd = Idle /\ ~excused /\ meta # None =>
        /\ plain = None
        /\ key # None /\ ~foreign => key = meta
=============================================================================
