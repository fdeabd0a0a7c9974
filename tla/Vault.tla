-------------------------------- MODULE Vault --------------------------------
(***************************************************************************)
(* The identity vault of the desktop client and the files it lives in.     *)
(*                                                                         *)
(* The vault is behind a mutex.  A command edits it in one critical        *)
(* section and persists it in a second one; a save, a change of the        *)
(* passphrase and the first start each hold the mutex while they take      *)
(* several steps on the disk.  The program may die between any two steps   *)
(* and any step on the disk may fail.  A rename is atomic, and a file that *)
(* was synced before it was renamed is complete; external: the filesystem. *)
(* The vault and the passphrase change write files of their own names      *)
(* beside it, one at a time under the mutex.  What a failure leaves of one *)
(* is truncated before anything reads it, so a leftover is not kept.       *)
(***************************************************************************)
EXTENDS Naturals, Sequences, FiniteSets, SequencesExt

CONSTANTS
  Key,              \* key pairs, each named by its fingerprint
  Text,             \* nicknames and labels
  Passphrase,
  Plain,            \* no passphrase: a vault that is not encrypted
  Garbled,          \* sealed with a key no passphrase leads to
  Nothing,          \* no file, or no vault in memory
  Torn,             \* a file cut off by a crash or a failed write
  MaxLevel,         \* bound on the proof of work
  MaxWaiting,       \* bound on commands between their edit and their save
  MaxMiners         \* bound on mining threads

ASSUME VaultAssumption ==
  /\ MaxLevel \in Nat /\ MaxWaiting \in Nat /\ MaxMiners \in Nat
  /\ {Plain, Garbled} \cap Passphrase = {} /\ Plain # Garbled
  /\ Nothing # Torn

VARIABLES
  vault,                  \* vault.json
  draft,                  \* the .tmp or .rekey file being written beside it
  legacy, backup,         \* the single-key file of version 1, and what it becomes
  mem,                    \* AppState.vault
  holder,                 \* what the holder of its mutex is doing, or Nothing
  waiting,                \* commands that edited the vault and have yet to save it
  miners,                 \* mining threads: the key, and the level they will reach
  used,                   \* keys ever generated
  owed,                   \* keys the user was shown and did not ask to remove
  removed,                \* keys whose removal was confirmed
  confirmed, unsure       \* the passphrase last confirmed, and those with no answer yet

files == <<vault, draft, legacy, backup>>
ghosts == <<owed, removed, confirmed, unsure>>
vars == <<files, mem, holder, waiting, miners, used, ghosts>>

Entry == [key : Key, level : 0 .. MaxLevel, text : Text]
Protection == Passphrase \cup {Plain}
Book == [entries : Seq(Entry) \ {<<>>}, active : Key, pass : Protection]

(* A command between its edit and its answer; a mining thread; what the    *)
(* holder of the mutex may be doing.                                       *)
Command == [op : {"add", "edit", "remove"}, key : Key]
Miner == [key : Key, level : 0 .. MaxLevel]
Holder ==
  [doing : {"save"}, step : {"write", "rename"}, command : Command]
  \cup [doing : {"rekey"}, step : {"write", "verify", "rename", "answer"}, pass : Protection]
  \cup [doing : {"create"}, step : {"write", "rename", "retire"}]

(* Absence is no file, no vault and nobody. *)
ASSUME AbsenceAssumption ==
  /\ Nothing \notin Book /\ Torn \notin Book
  /\ Nothing \notin Entry /\ Torn \notin Entry
  /\ Nothing \notin Holder

NewEntry(k, t) == [key |-> k, level |-> 0, text |-> t]
KeysOf(v) == {v.entries[i].key : i \in DOMAIN v.entries}
File(v) == v \notin {Nothing, Torn}

(* Keystore::load takes the one key of a version 1 file. *)
FromLegacy(e) == [entries |-> <<e>>, active |-> e.key, pass |-> Plain]

(* What a start would find: the vault, or failing that the old file. *)
Durable ==
  IF vault # Nothing THEN vault
  ELSE IF legacy \in {Nothing, Torn} THEN Nothing ELSE FromLegacy(legacy)

Init ==
  /\ vault = Nothing /\ draft = Nothing /\ backup = Nothing
  /\ \E k \in Key, t \in Text :
       legacy \in {Nothing, Torn, NewEntry(k, t)} /\ used = IF File(legacy) THEN {k} ELSE {}
  /\ mem = Nothing /\ holder = Nothing
  /\ waiting = {} /\ miners = {}
  /\ owed = {} /\ removed = {} /\ confirmed = Plain /\ unsure = {}

-----------------------------------------------------------------------------
(* Editing, in the first critical section of a command. *)

Up == mem # Nothing

(* Mutant: nobody waits for the mutex. *)
FreeUnlocked == Up

(* The mutex is free for the next critical section. *)
Free == Up /\ holder = Nothing

(* The command will save next, on whichever thread it runs. *)
Await(op, k) ==
  /\ Free
  /\ Cardinality(waiting) < MaxWaiting
  /\ waiting' = waiting \cup {[op |-> op, key |-> k]}
  /\ UNCHANGED <<files, holder>>

PlaceOf(v, k) == CHOOSE j \in DOMAIN v.entries : v.entries[j].key = k
With(k, f) == [mem EXCEPT !.entries[PlaceOf(mem, k)] = f]
EntryOf(k) == CHOOSE e \in Entry : e.key = k /\ \E i \in DOMAIN mem.entries : mem.entries[i] = e

(* add_identity: a fresh key, which becomes the active one. *)
AddIdentity(k, t) ==
  /\ k \notin used
  /\ Await("add", k)
  /\ mem' = [mem EXCEPT !.entries = Append(@, NewEntry(k, t)), !.active = k]
  /\ used' = used \cup {k}
  /\ UNCHANGED <<miners, ghosts>>

(* set_nickname, of the active identity, and set_identity_label, of any. *)
SetText(k, t) ==
  /\ Up /\ k \in KeysOf(mem)
  /\ Await("edit", k)
  /\ mem' = With(k, [EntryOf(k) EXCEPT !.text = t])
  /\ UNCHANGED <<miners, used, ghosts>>

SetActiveIdentity(k) ==
  /\ Up /\ k \in KeysOf(mem)
  /\ Await("edit", k)
  /\ mem' = [mem EXCEPT !.active = k]
  /\ UNCHANGED <<miners, used, ghosts>>

(* Keys are distinct, so retain drops one entry. *)
Without(v, k) == RemoveAt(v.entries, PlaceOf(v, k))

(* Mutant: the selection is left on the removed key. *)
RemovedDangling(v, k) == [v EXCEPT !.entries = Without(v, k)]

(* Vault::remove moves the selection to whatever remains. *)
Removed(v, k) ==
  [v EXCEPT !.entries = Without(v, k),
            !.active = IF @ = k THEN Head(Without(v, k)).key ELSE @]

(* remove_identity.  The key of a live connection is refused as well; the  *)
(* connections are those of module Desktop.                                *)
RemoveIdentity(k) ==
  /\ Up /\ k \in KeysOf(mem) /\ Len(mem.entries) > 1
  /\ Await("remove", k)
  /\ mem' = Removed(mem, k)
  /\ owed' = owed \ {k}
  /\ UNCHANGED <<miners, used, removed, confirmed, unsure>>

(* mine: the search ends when it has the target, and keeps the best. *)
MinedLevel(level, target) == IF target > level THEN target ELSE level

(* mine_identity works on a copy of the active key, for minutes. *)
MineIdentity(target) ==
  /\ Free
  /\ Cardinality(miners) < MaxMiners
  /\ LET e == EntryOf(mem.active)
     IN miners' = miners \cup {[key |-> e.key, level |-> MinedLevel(e.level, target)]}
  /\ UNCHANGED <<files, mem, holder, waiting, used, ghosts>>

(* Mutant: the mined identity is put back when it is no longer there. *)
SetCounterAdding(m) ==
  IF m.key \in KeysOf(mem) THEN With(m.key, [EntryOf(m.key) EXCEPT !.level = m.level])
  ELSE [mem EXCEPT !.entries = Append(@, [key |-> m.key, level |-> m.level, text |-> CHOOSE t \in Text : TRUE])]

(* Vault::set_counter: a key that is gone is left alone. *)
SetCounter(m) ==
  IF m.key \in KeysOf(mem) THEN With(m.key, [EntryOf(m.key) EXCEPT !.level = m.level]) ELSE mem

(* The thread is done and writes the witness back. *)
Mined(m) ==
  /\ m \in miners
  /\ miners' = miners \ {m}
  /\ mem' = SetCounter(m)
  /\ IF mem' = mem /\ m.key \notin KeysOf(mem)
     THEN Free /\ UNCHANGED <<files, holder, waiting>>
     ELSE Await("edit", m.key)
  /\ UNCHANGED <<used, ghosts>>

-----------------------------------------------------------------------------
(* Saving, in the second critical section. *)

(* A command gets the mutex and opens the temporary file. *)
Save(c) ==
  /\ Free
  /\ c \in waiting
  /\ waiting' = waiting \ {c}
  /\ holder' = [doing |-> "save", step |-> "write", command |-> c]
  /\ draft' = Torn
  /\ UNCHANGED <<vault, legacy, backup, mem, miners, used, ghosts>>

Holds(doing, step) == Up /\ holder # Nothing /\ holder.doing = doing /\ holder.step = step

Goto(step) == holder' = [holder EXCEPT !.step = step]

Same == UNCHANGED <<mem, waiting, miners, used>>

(* Mutant: the vault file itself is rewritten. *)
WriteInPlace ==
  /\ \E doing \in {"save", "create"} : Holds(doing, "write")
  /\ draft' = mem /\ vault' = Torn
  /\ Goto("rename")
  /\ Same /\ UNCHANGED <<legacy, backup, ghosts>>

(* write_private: the whole vault, synced. *)
Write ==
  /\ \E doing \in {"save", "create"} : Holds(doing, "write")
  /\ draft' = mem
  /\ Goto("rename")
  /\ Same /\ UNCHANGED <<vault, legacy, backup, ghosts>>

(* What the answer of a finished save tells the user. *)
Answered(c) ==
  /\ owed' = IF c.op = "add" /\ c.key \in KeysOf(mem) THEN owed \cup {c.key} ELSE owed
  /\ removed' = IF c.op = "remove" THEN removed \cup {c.key} ELSE removed
  /\ UNCHANGED <<confirmed, unsure>>

RenameSaved ==
  /\ Holds("save", "rename")
  /\ vault' = draft /\ draft' = Nothing
  /\ holder' = Nothing
  /\ Answered(holder.command)
  /\ Same /\ UNCHANGED <<legacy, backup>>

(* The disk refuses a step: the command reports an error and the edit      *)
(* stays in memory, to go out with the next save.                          *)
SaveFails ==
  /\ Holds("save", "write") \/ Holds("save", "rename")
  /\ holder' = Nothing /\ draft' = Nothing
  /\ Same /\ UNCHANGED <<vault, legacy, backup, ghosts>>

-----------------------------------------------------------------------------
(* set_vault_passphrase, under one lock: Vault::rewrite_verified. *)

SetVaultPassphrase(p) ==
  /\ Free
  /\ holder' = [doing |-> "rekey", step |-> "write", pass |-> p]
  /\ draft' = Torn
  /\ unsure' = {p}
  /\ UNCHANGED <<vault, legacy, backup, owed, removed, confirmed>> /\ Same

(* VaultKey::fresh and seal: a sealed file ought to open with the          *)
(* passphrase its key was derived from; it may be one that nothing opens.  *)
Seals(p) == IF p = Plain THEN {Plain} ELSE {p, Garbled}

WriteCandidate ==
  /\ Holds("rekey", "write")
  /\ \E sealed \in Seals(holder.pass) : draft' = [mem EXCEPT !.pass = sealed]
  /\ Goto("verify")
  /\ Same /\ UNCHANGED <<vault, legacy, backup, ghosts>>

(* VaultKey::open: only the key it was sealed with opens a sealed file. *)
Unseals(sealed, p) == sealed = p

(* A plain file ignores the passphrase. *)
Opens(f, p) == File(f) /\ (f.pass = Plain \/ Unseals(f.pass, p))

(* Vault::parse: a selection that dangles moves to the first.   *)
Parsed(f) ==
  [f EXCEPT !.active = IF @ \in KeysOf(f) THEN @ ELSE Head(f.entries).key]

HoldsTheSame(f) == Parsed(f).entries = mem.entries /\ Parsed(f).active = mem.active

(* Mutant: the candidate is taken as it is. *)
VerifiedBlindly == TRUE

(* Read back from the disk with the passphrase the user will type. *)
Verified == Opens(draft, holder.pass) /\ HoldsTheSame(draft)

Verify ==
  /\ Holds("rekey", "verify")
  /\ IF Verified THEN Goto("rename") /\ UNCHANGED <<draft, unsure>>
     ELSE draft' = Nothing /\ holder' = Nothing /\ unsure' = {}
  /\ Same /\ UNCHANGED <<vault, legacy, backup, owed, removed, confirmed>>

RenameCandidate ==
  /\ Holds("rekey", "rename")
  /\ vault' = draft /\ draft' = Nothing
  /\ mem' = [mem EXCEPT !.pass = holder.pass]
  /\ Goto("answer")
  /\ UNCHANGED <<legacy, backup, waiting, miners, used, ghosts>>

(* The mutex is released and the command returns. *)
PassphraseSet ==
  /\ Holds("rekey", "answer")
  /\ holder' = Nothing
  /\ confirmed' = holder.pass /\ unsure' = {}
  /\ Same /\ UNCHANGED <<files, owed, removed>>

(* An error leaves the identities as they were, the passphrase too. *)
RekeyFails ==
  /\ \E step \in {"write", "verify", "rename"} : Holds("rekey", step)
  /\ holder' = Nothing /\ draft' = Nothing
  /\ unsure' = {}
  /\ Same /\ UNCHANGED <<vault, legacy, backup, owed, removed, confirmed>>

-----------------------------------------------------------------------------
(* Starting and dying. *)

(* AppState::load_with_passphrase with a vault on disk. *)
Open(p) ==
  /\ mem = Nothing /\ Opens(vault, p)
  /\ mem' = Parsed(vault)
  /\ owed' = KeysOf(vault)
  /\ confirmed' = vault.pass /\ unsure' = {}
  /\ UNCHANGED <<files, holder, waiting, miners, used, removed>>

(* Vault::create: the old key if there is one, else a new one; an old file *)
(* that will not load is an error.  The vault is not in use before the end.*)
(* create takes a passphrase too, and would seal the new vault without     *)
(* reading it back; nothing calls it with one (AppState::load gives None). *)
Create(k, t) ==
  /\ mem = Nothing /\ vault = Nothing /\ legacy # Torn
  /\ \/ legacy = Nothing /\ k \notin used /\ mem' = FromLegacy(NewEntry(k, t))
     \/ legacy # Nothing /\ k = legacy.key /\ t = legacy.text /\ mem' = FromLegacy(legacy)
  /\ used' = used \cup {k}
  /\ holder' = [doing |-> "create", step |-> "write"]
  /\ draft' = Torn
  /\ UNCHANGED <<vault, legacy, backup, waiting, miners, ghosts>>

RenameCreated ==
  /\ Holds("create", "rename")
  /\ vault' = draft /\ draft' = Nothing
  /\ IF legacy # Nothing THEN Goto("retire") /\ UNCHANGED owed
     ELSE holder' = Nothing /\ owed' = KeysOf(mem)
  /\ Same /\ UNCHANGED <<legacy, backup, removed, confirmed, unsure>>

(* Only once the new file is safely on disk. *)
RetireLegacy ==
  /\ Holds("create", "retire")
  /\ backup' = legacy /\ legacy' = Nothing
  /\ holder' = Nothing
  /\ owed' = KeysOf(mem)
  /\ Same /\ UNCHANGED <<vault, draft, removed, confirmed, unsure>>

(* The program is closed, killed or crashes, or a start fails. *)
Crash ==
  /\ Up
  /\ mem' = Nothing /\ holder' = Nothing /\ waiting' = {} /\ miners' = {}
  /\ draft' = Nothing
  /\ UNCHANGED <<vault, legacy, backup, used, ghosts>>

-----------------------------------------------------------------------------
Next ==
  \/ \E k \in Key, t \in Text : AddIdentity(k, t) \/ SetText(k, t) \/ Create(k, t)
  \/ \E k \in Key : SetActiveIdentity(k) \/ RemoveIdentity(k)
  \/ \E target \in 0 .. MaxLevel : MineIdentity(target)
  \/ \E m \in miners : Mined(m)
  \/ \E c \in waiting : Save(c)
  \/ Write \/ RenameSaved \/ SaveFails
  \/ \E p \in Protection : SetVaultPassphrase(p) \/ Open(p)
  \/ WriteCandidate \/ Verify \/ RenameCandidate \/ PassphraseSet \/ RekeyFails
  \/ RenameCreated \/ RetireLegacy \/ Crash

Spec == Init /\ [][Next]_vars

-----------------------------------------------------------------------------
TypeOK ==
  /\ vault \in Book \cup {Nothing}
  /\ draft \in Book \cup [entries : Seq(Entry), active : Key, pass : {Garbled}] \cup {Nothing, Torn}
  /\ legacy \in Entry \cup {Nothing, Torn} /\ backup \in Entry \cup {Nothing, Torn}
  /\ mem \in Book \cup {Nothing}
  /\ holder \in Holder \cup {Nothing}
  /\ waiting \subseteq Command /\ miners \subseteq Miner
  /\ used \subseteq Key /\ owed \subseteq Key /\ removed \subseteq Key
  /\ confirmed \in Protection /\ unsure \subseteq Protection

Promise == INSTANCE AtomicVault WITH book <- mem, durable <- Durable, Passphrase <- Protection

(* Through crashes and failed writes at every step, what a start would     *)
(* find is always a whole vault: the files implement the atomic vault.     *)
ImplementsAtomicVault == Promise!Spec

(* A key the user was shown and did not ask to remove can always be read   *)
(* back: no crash, failed save, migration or change of the passphrase      *)
(* leaves the disk without it.                                             *)
NoKeyLost == owed # {} => File(vault) /\ owed \subseteq KeysOf(vault)

(* The vault on disk opens with the passphrase the user was last told is   *)
(* in force or, after a crash in the middle of a change, with the new one. *)
UserCanOpen == File(vault) => vault.pass \in {confirmed} \cup unsure

(* A key whose removal was confirmed stays away: no save of another        *)
(* command, no mining thread and no restart brings it back.                *)
RemovedStaysGone ==
  \A k \in removed :
    /\ Up => k \notin KeysOf(mem)
    /\ File(vault) => k \notin KeysOf(vault)

(* Vault::active expects the selected identity to exist and panics when it *)
(* does not: the selection never dangles, in memory or in what is written. *)
ActiveExists ==
  \A v \in {mem, vault} : File(v) => v.active \in KeysOf(v)
=============================================================================
