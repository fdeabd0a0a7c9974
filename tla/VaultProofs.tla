---------------------------- MODULE VaultProofs -----------------------------
(***************************************************************************)
(* Proofs about Vault, for any keys, texts, passphrases and bounds: what   *)
(* is safe on the disk through crashes and failed writes, and that the     *)
(* files implement the atomic vault.                                       *)
(***************************************************************************)
EXTENDS Vault, SequenceTheorems, TLAPS

-----------------------------------------------------------------------------
(* The inductive invariant *)

DistinctKeys(v) ==
  \A i, j \in DOMAIN v.entries : v.entries[i].key = v.entries[j].key => i = j

(* A vault a user can work with. *)
Sound(v) == DistinctKeys(v) /\ v.active \in KeysOf(v)

SoundVaults ==
  /\ mem # Nothing => Sound(mem)
  /\ vault # Nothing => Sound(vault)

(* A key that is generated is new. *)
KeysUsed ==
  /\ mem # Nothing => KeysOf(mem) \subseteq used
  /\ vault # Nothing => KeysOf(vault) \subseteq used
  /\ legacy \in Entry => legacy.key \in used
  /\ removed \subseteq used

(* While the program is down nobody holds the mutex or waits for it.  The  *)
(* vault is in use only once it is on disk.                                *)
Creating == holder # Nothing /\ holder.doing = "create" /\ holder.step \in {"write", "rename"}

Started ==
  /\ mem = Nothing => holder = Nothing /\ waiting = {}
  /\ mem # Nothing => (vault = Nothing <=> Creating)
  /\ vault = Nothing => owed = {} /\ removed = {} /\ confirmed = Plain

(* The mutex keeps the vault still while it is written: what is about to   *)
(* be renamed is what is in memory.                                        *)
Staged ==
  holder # Nothing =>
    /\ holder.step = "rename" /\ holder.doing \in {"save", "create"} => draft = mem
    /\ holder.step = "retire" => vault = mem
    /\ holder.step = "answer" => vault = mem /\ mem.pass = holder.pass
    /\ holder.step = "verify" =>
         \E sealed \in Seals(holder.pass) : draft = [mem EXCEPT !.pass = sealed]
    /\ holder.step = "rename" /\ holder.doing = "rekey" =>
         draft = [mem EXCEPT !.pass = holder.pass]

(* A command that removed a key has removed it from memory for good,       *)
(* whether it waits for the mutex, saves, or has been answered.            *)
Saving == IF holder # Nothing /\ holder.doing = "save" THEN {holder.command} ELSE {}

Gone ==
  /\ \A c \in waiting \cup Saving :
       c.op = "remove" => c.key \in used \ KeysOf(mem)
  /\ mem # Nothing => removed \cap KeysOf(mem) = {}
  /\ vault # Nothing => removed \cap KeysOf(vault) = {}

Owed ==
  /\ mem # Nothing => owed \subseteq KeysOf(mem)
  /\ vault # Nothing => owed \subseteq KeysOf(vault)

(* The passphrase in memory, on disk and in the user's head.               *)
Rekeyed == holder # Nothing /\ holder.doing = "rekey" /\ holder.step = "answer"

Protected ==
  /\ holder # Nothing /\ holder.doing = "rekey" => unsure = {holder.pass}
  /\ mem # Nothing /\ ~ Rekeyed =>
       mem.pass = confirmed /\ (vault # Nothing => vault.pass = confirmed)
  /\ mem = Nothing /\ vault # Nothing => vault.pass \in {confirmed} \cup unsure

IInv ==
  /\ TypeOK /\ SoundVaults /\ KeysUsed /\ Started
  /\ Staged /\ Gone /\ Owed /\ Protected

-----------------------------------------------------------------------------
(* What the operators on a vault do *)

\* The fields of a vault: at least one identity, and keys that are keys.
LEMMA BookFields ==
  ASSUME NEW v \in Book
  PROVE  /\ v.entries \in Seq(Entry) /\ v.entries # <<>>
         /\ v.active \in Key /\ v.pass \in Protection
         /\ Len(v.entries) \in Nat \ {0}
         /\ DOMAIN v.entries = 1 .. Len(v.entries)
         /\ \A i \in DOMAIN v.entries : v.entries[i] \in Entry
         /\ KeysOf(v) \subseteq Key
<1>1. /\ v.entries \in Seq(Entry) /\ v.entries # <<>>
      /\ v.active \in Key /\ v.pass \in Protection
  BY DEF Book
<1>2. /\ Len(v.entries) \in Nat \ {0}
      /\ DOMAIN v.entries = 1 .. Len(v.entries)
      /\ \A i \in DOMAIN v.entries : v.entries[i] \in Entry
  BY <1>1, LenProperties, EmptySeq, ElementOfSeq
<1> QED BY <1>1, <1>2 DEF KeysOf, Entry

\* Updating one or two fields of a vault leaves the others.
LEMMA BookUpdates ==
  ASSUME NEW v \in Book, NEW x, NEW y
  PROVE  /\ [v EXCEPT !.entries = x] = [entries |-> x, active |-> v.active, pass |-> v.pass]
         /\ [v EXCEPT !.active = y] = [entries |-> v.entries, active |-> y, pass |-> v.pass]
         /\ [v EXCEPT !.pass = y] = [entries |-> v.entries, active |-> v.active, pass |-> y]
         /\ [v EXCEPT !.entries = x, !.active = y] = [entries |-> x, active |-> y, pass |-> v.pass]
<1>1. [v EXCEPT !.entries = x, !.active = y] \in [entries : {x}, active : {y}, pass : {v.pass}]
  BY DEF Book
<1>2. \A w \in [entries : {x}, active : {y}, pass : {v.pass}] :
        w = [entries |-> x, active |-> y, pass |-> v.pass]
  OBVIOUS
<1>3. [v EXCEPT !.entries = x, !.active = y] = [entries |-> x, active |-> y, pass |-> v.pass]
  BY <1>1, <1>2
<1> QED BY <1>3 DEF Book

\* Vault::get finds the one entry of a key.
LEMMA EntryOfKey ==
  ASSUME mem \in Book, Sound(mem), NEW k \in KeysOf(mem)
  PROVE  /\ PlaceOf(mem, k) \in DOMAIN mem.entries
         /\ mem.entries[PlaceOf(mem, k)].key = k
         /\ EntryOf(k) \in Entry /\ EntryOf(k).key = k
<1>1. PICK i \in DOMAIN mem.entries : mem.entries[i].key = k
  BY DEF KeysOf
<1>2. PlaceOf(mem, k) \in DOMAIN mem.entries /\ mem.entries[PlaceOf(mem, k)].key = k
  BY <1>1 DEF PlaceOf
<1>3. mem.entries[i] \in Entry
  BY <1>1, BookFields
<1>4. EntryOf(k) \in Entry /\ EntryOf(k).key = k
  BY <1>1, <1>3 DEF EntryOf
<1> QED BY <1>2, <1>4

\* Replacing the entry of a key by another of that key changes no key.
LEMMA WithKeepsKeys ==
  ASSUME mem \in Book, Sound(mem), NEW k \in KeysOf(mem),
         NEW e \in Entry, e.key = k
  PROVE  /\ With(k, e) \in Book /\ Sound(With(k, e))
         /\ With(k, e).pass = mem.pass
         /\ KeysOf(With(k, e)) = KeysOf(mem)
<1> DEFINE p == PlaceOf(mem, k)
           s == [mem.entries EXCEPT ![p] = e]
           w == With(k, e)
<1>1. p \in DOMAIN mem.entries /\ mem.entries[p].key = k
  BY EntryOfKey
<1>2. w = [mem EXCEPT !.entries = s]
  BY DEF With
<1>3. s \in Seq(Entry) /\ s # <<>> /\ DOMAIN s = DOMAIN mem.entries
  <2>1. s \in Seq(Entry) /\ Len(s) = Len(mem.entries)
    BY <1>1, BookFields, ExceptSeq
  <2> QED BY <2>1, BookFields, LenProperties, EmptySeq
<1>4. /\ w.entries = s /\ w.active = mem.active /\ w.pass = mem.pass
      /\ w \in Book
  <2>1. mem = [entries |-> mem.entries, active |-> mem.active, pass |-> mem.pass]
    BY DEF Book
  <2> HIDE DEF s
  <2>2. w = [entries |-> s, active |-> mem.active, pass |-> mem.pass]
    BY <1>2, <2>1 DEF Book
  <2> QED BY <2>2, <1>3, BookFields DEF Book
<1>5. \A i \in DOMAIN s : s[i].key = mem.entries[i].key
  BY <1>1, BookFields
<1> HIDE DEF s, w
<1>6. KeysOf(w) = KeysOf(mem)
  BY <1>3, <1>4, <1>5 DEF KeysOf
<1>7. Sound(w)
  BY <1>3, <1>4, <1>5, <1>6 DEF Sound, DistinctKeys
<1> QED BY <1>4, <1>6, <1>7 DEF w

\* Vault::add appends an entry of a new key and selects it.
LEMMA AppendAddsKey ==
  ASSUME mem \in Book, Sound(mem), NEW k \in Key \ KeysOf(mem), NEW t \in Text
  PROVE  LET v == [mem EXCEPT !.entries = Append(@, NewEntry(k, t)), !.active = k]
         IN /\ v \in Book /\ Sound(v) /\ v.pass = mem.pass
            /\ KeysOf(v) = KeysOf(mem) \cup {k}
<1> DEFINE e == NewEntry(k, t)
           s == Append(mem.entries, e)
           n == Len(mem.entries)
           v == [mem EXCEPT !.entries = Append(@, e), !.active = k]
<1>1. e \in Entry /\ e.key = k
  BY VaultAssumption DEF NewEntry, Entry
<1> HIDE DEF e
<1>2. /\ s \in Seq(Entry) /\ s # <<>>
      /\ n \in Nat \ {0} /\ DOMAIN mem.entries = 1 .. n
      /\ DOMAIN s = 1 .. (n + 1)
      /\ \A i \in 1 .. n : s[i] = mem.entries[i]
      /\ s[n + 1] = e
  BY <1>1, BookFields, AppendProperties, LenProperties
<1> HIDE DEF s, n
<1>3. v = [entries |-> s, active |-> k, pass |-> mem.pass]
  <2>1. v = [mem EXCEPT !.entries = s, !.active = k]
    BY DEF s
  <2> HIDE DEF v
  <2> QED BY <2>1, BookUpdates
<1> HIDE DEF v
<1>4. v \in Book /\ v.pass = mem.pass /\ v.entries = s /\ v.active = k
  BY <1>2, <1>3, BookFields DEF Book
<1>5. KeysOf(v) = KeysOf(mem) \cup {k}
  <2>1. ASSUME NEW x \in KeysOf(v) PROVE x \in KeysOf(mem) \cup {k}
    BY <1>1, <1>2, <1>4 DEF KeysOf
  <2>2. k \in KeysOf(v)
    BY <1>1, <1>2, <1>4, n + 1 \in 1 .. (n + 1) DEF KeysOf
  <2>3. ASSUME NEW x \in KeysOf(mem) PROVE x \in KeysOf(v)
    <3>1. PICK i \in 1 .. n : mem.entries[i].key = x
      BY <1>2 DEF KeysOf
    <3> QED BY <3>1, <1>2, <1>4, i \in 1 .. (n + 1) DEF KeysOf
  <2> QED BY <2>1, <2>2, <2>3
<1>6. DistinctKeys(v)
  <2>1. SUFFICES ASSUME NEW i \in 1 .. (n + 1), NEW j \in 1 .. (n + 1), s[i].key = s[j].key
                 PROVE  i = j
    BY <1>2, <1>4 DEF DistinctKeys
  <2>2. \A m \in 1 .. n : mem.entries[m].key # k
    BY <1>2 DEF KeysOf
  <2>3. CASE i \in 1 .. n /\ j \in 1 .. n
    BY <1>2, <2>1, <2>3 DEF Sound, DistinctKeys
  <2> QED BY <1>1, <1>2, <2>1, <2>2, <2>3
<1>7. Sound(v)
  BY <1>4, <1>5, <1>6 DEF Sound
<1> QED BY <1>4, <1>5, <1>7 DEF v, e

\* Vault::remove takes one key away, keeps the others and a selection.
LEMMA RemovedKeys ==
  ASSUME NEW v \in Book, Sound(v), NEW k \in KeysOf(v), Len(v.entries) > 1
  PROVE  /\ Removed(v, k) \in Book /\ Sound(Removed(v, k))
         /\ Removed(v, k).pass = v.pass
         /\ KeysOf(Removed(v, k)) = KeysOf(v) \ {k}
<1> DEFINE p == PlaceOf(v, k)
           n == Len(v.entries)
           s == Without(v, k)
           r == Removed(v, k)
<1>1. n \in Nat /\ n > 1 /\ DOMAIN v.entries = 1 .. n /\ v.entries \in Seq(Entry)
  BY BookFields
<1>2. p \in 1 .. n /\ v.entries[p].key = k
  <2>1. \E i \in DOMAIN v.entries : v.entries[i].key = k
    BY DEF KeysOf
  <2> QED BY <1>1, <2>1 DEF PlaceOf
<1> HIDE DEF p, n
<1>3. /\ s \in Seq(Entry) /\ s # <<>> /\ Len(s) = n - 1 /\ DOMAIN s = 1 .. (n - 1)
      /\ \A i \in 1 .. (n - 1) : s[i] = v.entries[IF i < p THEN i ELSE i + 1]
  <2> DEFINE a == SubSeq(v.entries, 1, p - 1)
             b == SubSeq(v.entries, p + 1, n)
  <2>0. \A i \in 1 .. n : v.entries[i] \in Entry
    BY <1>1, ElementOfSeq
  <2>1. /\ a \in Seq(Entry) /\ Len(a) = p - 1
        /\ \A i \in 1 .. (p - 1) : a[i] = v.entries[i]
    BY <1>1, <1>2, <2>0, SubSeqProperties DEF n
  <2>2. /\ b \in Seq(Entry) /\ Len(b) = n - p
        /\ \A i \in 1 .. (n - p) : b[i] = v.entries[p + i]
    BY <1>1, <1>2, <2>0, SubSeqProperties DEF n
  <2>3. s = a \o b
    BY DEF Without, RemoveAt, p, n
  <2> HIDE DEF a, b, s
  <2>4. /\ s \in Seq(Entry) /\ Len(s) = n - 1
        /\ \A i \in 1 .. (n - 1) : s[i] = IF i <= p - 1 THEN a[i] ELSE b[i - (p - 1)]
    <3>1. /\ s \in Seq(Entry) /\ Len(s) = Len(a) + Len(b)
          /\ \A i \in 1 .. (Len(a) + Len(b)) : s[i] = IF i <= Len(a) THEN a[i] ELSE b[i - Len(a)]
      BY <2>1, <2>2, <2>3, ConcatProperties
    <3>2. Len(a) + Len(b) = n - 1
      BY <1>1, <1>2, <2>1, <2>2
    <3> QED BY <3>1, <3>2, <2>1
  <2>5. ASSUME NEW i \in 1 .. (n - 1)
        PROVE  s[i] = v.entries[IF i < p THEN i ELSE i + 1]
    <3>1. CASE i < p
      BY <1>1, <1>2, <2>1, <2>4, <3>1
    <3>2. CASE ~ (i < p)
      <4>1. i - (p - 1) \in 1 .. (n - p) /\ p + (i - (p - 1)) = i + 1
        BY <1>1, <1>2, <3>2
      <4>2. s[i] = b[i - (p - 1)]
        BY <1>1, <1>2, <2>4, <3>2
      <4>3. b[i - (p - 1)] = v.entries[p + (i - (p - 1))]
        BY <2>2, <4>1
      <4> QED BY <3>2, <4>1, <4>2, <4>3
    <3> QED BY <3>1, <3>2
  <2>6. DOMAIN s = 1 .. (n - 1) /\ s # <<>>
    BY <1>1, <2>4, LenProperties, EmptySeq
  <2> QED BY <2>4, <2>5, <2>6
<1> HIDE DEF s
<1>4. /\ r.entries = s /\ r.pass = v.pass
      /\ r.active = IF v.active = k THEN Head(s).key ELSE v.active
      /\ r = [entries |-> r.entries, active |-> r.active, pass |-> r.pass]
  <2>1. r = [v EXCEPT !.entries = s, !.active = IF v.active = k THEN Head(s).key ELSE v.active]
    BY DEF Removed, s
  <2> DEFINE y == IF v.active = k THEN Head(s).key ELSE v.active
  <2> HIDE DEF y
  <2>2. r = [entries |-> s, active |-> y, pass |-> v.pass]
    BY <2>1, BookUpdates DEF y
  <2> QED BY <2>2 DEF y
<1> HIDE DEF r
<1>5. KeysOf(r) = KeysOf(v) \ {k}
  <2>1. ASSUME NEW x \in KeysOf(r) PROVE x \in KeysOf(v) /\ x # k
    <3>1. PICK i \in 1 .. (n - 1) : x = s[i].key
      BY <1>3, <1>4 DEF KeysOf
    <3>2. PICK j \in 1 .. n : s[i] = v.entries[j] /\ j # p
      <4> DEFINE j == IF i < p THEN i ELSE i + 1
      <4>1. j \in 1 .. n /\ j # p
        BY <1>1, <1>2
      <4> QED BY <1>3, <4>1
    <3> QED BY <1>1, <1>2, <3>1, <3>2 DEF KeysOf, Sound, DistinctKeys
  <2>2. ASSUME NEW x \in KeysOf(v), x # k PROVE x \in KeysOf(r)
    <3>1. PICK j \in 1 .. n : x = v.entries[j].key
      BY <1>1 DEF KeysOf
    <3>2. j # p
      BY <1>2, <2>2, <3>1
    <3>3. PICK i \in 1 .. (n - 1) : s[i] = v.entries[j]
      <4>1. CASE j < p
        BY <1>1, <1>2, <1>3, <4>1, j \in 1 .. (n - 1)
      <4>2. CASE j > p
        BY <1>1, <1>2, <1>3, <4>2, j - 1 \in 1 .. (n - 1), ~ (j - 1 < p), (j - 1) + 1 = j
      <4> QED BY <1>2, <3>2, <4>1, <4>2
    <3> QED BY <1>3, <1>4, <3>1, <3>3 DEF KeysOf
  <2> QED BY <2>1, <2>2
<1>6. DistinctKeys(r)
  <2>1. SUFFICES ASSUME NEW i \in 1 .. (n - 1), NEW j \in 1 .. (n - 1), s[i].key = s[j].key
                 PROVE  i = j
    BY <1>3, <1>4 DEF DistinctKeys
  <2> DEFINE f(m) == IF m < p THEN m ELSE m + 1
  <2>2. f(i) \in 1 .. n /\ f(j) \in 1 .. n /\ (f(i) = f(j) => i = j)
    BY <1>1, <1>2
  <2>3. v.entries[f(i)].key = v.entries[f(j)].key
    BY <1>3, <2>1
  <2> QED BY <1>1, <2>2, <2>3 DEF Sound, DistinctKeys
<1>7. r.active \in KeysOf(r)
  <2>1. CASE v.active = k
    <3>1. Head(s) = s[1] /\ 1 \in DOMAIN s
      BY <1>1, <1>3, HeadTailProperties
    <3> QED BY <1>4, <2>1, <3>1 DEF KeysOf
  <2>2. CASE v.active # k
    BY <1>4, <1>5, <2>2 DEF Sound
  <2> QED BY <2>1, <2>2
<1>8. r \in Book
  <2>1. r.active \in Key
    BY <1>5, <1>7, BookFields
  <2> QED BY <1>3, <1>4, <2>1, BookFields DEF Book
<1> QED BY <1>4, <1>5, <1>6, <1>7, <1>8 DEF Sound, r

\* A sound vault is read back as it was written; so is a single old key.
LEMMA ParsedSound ==
  ASSUME NEW v \in Book, Sound(v)
  PROVE  Parsed(v) = v
BY DEF Parsed, Sound, Book

LEMMA LegacySound ==
  ASSUME NEW e \in Entry
  PROVE  /\ FromLegacy(e) \in Book /\ Sound(FromLegacy(e))
         /\ FromLegacy(e).pass = Plain /\ KeysOf(FromLegacy(e)) = {e.key}
<1> DEFINE v == FromLegacy(e)
<1>1. v = [entries |-> <<e>>, active |-> e.key, pass |-> Plain] /\ e.key \in Key
  BY DEF FromLegacy, Entry
<1>2. <<e>> \in Seq(Entry) /\ <<e>> # <<>> /\ DOMAIN <<e>> = {1} /\ <<e>>[1] = e
  OBVIOUS
<1>3. v \in Book /\ v.entries = <<e>> /\ v.active = e.key /\ v.pass = Plain
  BY <1>1, <1>2 DEF Book, Protection
<1>4. KeysOf(v) = {e.key}
  BY <1>2, <1>3 DEF KeysOf
<1> QED BY <1>2, <1>3, <1>4 DEF Sound, DistinctKeys

-----------------------------------------------------------------------------
(* The holder of the mutex *)

\* What each kind of holder is and may do next.
LEMMA HolderFields ==
  ASSUME NEW h \in Holder
  PROVE  /\ h # Nothing
         /\ h.doing = "save" => h.step \in {"write", "rename"} /\ h.command \in Command
         /\ h.doing = "rekey" =>
              h.step \in {"write", "verify", "rename", "answer"} /\ h.pass \in Protection
         /\ h.doing = "create" => h.step \in {"write", "rename", "retire"}
         /\ h.doing \in {"save", "rekey", "create"}
BY AbsenceAssumption DEF Holder

\* A holder that moves on keeps what it is doing.
LEMMA GotoFields ==
  ASSUME NEW h \in Holder, NEW step,
         \/ h.doing = "save" /\ step \in {"write", "rename"}
         \/ h.doing = "rekey" /\ step \in {"write", "verify", "rename", "answer"}
         \/ h.doing = "create" /\ step \in {"write", "rename", "retire"}
  PROVE  LET g == [h EXCEPT !.step = step]
         IN /\ g \in Holder /\ g.doing = h.doing /\ g.step = step
            /\ h.doing = "save" => g.command = h.command
            /\ h.doing = "rekey" => g.pass = h.pass
<1>1. CASE h \in [doing : {"save"}, step : {"write", "rename"}, command : Command]
  BY <1>1 DEF Holder
<1>2. CASE h \in [doing : {"rekey"}, step : {"write", "verify", "rename", "answer"}, pass : Protection]
  BY <1>2 DEF Holder
<1>3. CASE h \in [doing : {"create"}, step : {"write", "rename", "retire"}]
  BY <1>3 DEF Holder
<1> QED BY <1>1, <1>2, <1>3 DEF Holder

-----------------------------------------------------------------------------
(* Edits in memory *)

(* What all edits have in common. *)
EditStep ==
  /\ mem \in Book /\ holder = Nothing
  /\ mem' \in Book /\ Sound(mem') /\ mem'.pass = mem.pass
  /\ KeysOf(mem') \subseteq KeysOf(mem) \cup (used' \ used)
  /\ used \subseteq used' /\ used' \subseteq Key /\ KeysOf(mem') \subseteq used'
  /\ owed' = owed \cap KeysOf(mem')
  /\ waiting' \subseteq Command
  /\ \A c \in waiting' \ waiting : c.op = "remove" => c.key \in used \ KeysOf(mem')
  /\ miners' \subseteq Miner
  /\ UNCHANGED <<files, holder, removed, confirmed, unsure>>

\* Vault::add, rename, set_active, remove and set_counter are edits.
LEMMA EditsAreEdits ==
  ASSUME IInv
  PROVE  /\ \A k \in Key, t \in Text : AddIdentity(k, t) \/ SetText(k, t) => EditStep
         /\ \A k \in Key : SetActiveIdentity(k) \/ RemoveIdentity(k) => EditStep
         /\ \A target \in 0 .. MaxLevel : MineIdentity(target) => EditStep
         /\ \A m \in miners : Mined(m) => EditStep
<1> USE DEF IInv, TypeOK
<1>a. Up => /\ mem \in Book /\ Sound(mem) /\ KeysOf(mem) \subseteq used
            /\ owed \subseteq KeysOf(mem)
  BY DEF Up, SoundVaults, KeysUsed, Owed
<1>b. \A op \in {"add", "edit", "remove"}, k \in Key : [op |-> op, key |-> k] \in Command
  BY DEF Command
<1>1. ASSUME NEW k \in Key, NEW t \in Text, AddIdentity(k, t) PROVE EditStep
  <2>1. /\ Up /\ holder = Nothing /\ k \notin used /\ used' = used \cup {k}
        /\ waiting' = waiting \cup {[op |-> "add", key |-> k]}
        /\ mem' = [mem EXCEPT !.entries = Append(@, NewEntry(k, t)), !.active = k]
        /\ UNCHANGED <<files, holder, miners, ghosts>>
    BY <1>1 DEF AddIdentity, Await, Free
  <2>2. /\ mem' \in Book /\ Sound(mem') /\ mem'.pass = mem.pass
        /\ KeysOf(mem') = KeysOf(mem) \cup {k}
    BY <1>a, <2>1, AppendAddsKey
  <2>3. waiting' \subseteq Command /\ [op |-> "add", key |-> k].op # "remove"
    BY <1>b, <2>1
  <2> QED BY <1>a, <2>1, <2>2, <2>3 DEF EditStep, ghosts
<1>2. ASSUME NEW k \in Key, NEW t \in Text, SetText(k, t) PROVE EditStep
  <2>1. /\ Up /\ holder = Nothing /\ k \in KeysOf(mem)
        /\ waiting' = waiting \cup {[op |-> "edit", key |-> k]}
        /\ mem' = With(k, [EntryOf(k) EXCEPT !.text = t])
        /\ UNCHANGED <<files, holder, miners, used, ghosts>>
    BY <1>2 DEF SetText, Await, Free
  <2>2. [EntryOf(k) EXCEPT !.text = t] \in Entry /\ [EntryOf(k) EXCEPT !.text = t].key = k
    <3>1. EntryOf(k) \in Entry /\ EntryOf(k).key = k
      BY <1>a, <2>1, EntryOfKey
    <3> QED BY <3>1 DEF Entry
  <2>3. /\ mem' \in Book /\ Sound(mem') /\ mem'.pass = mem.pass
        /\ KeysOf(mem') = KeysOf(mem)
    BY <1>a, <2>1, <2>2, WithKeepsKeys
  <2>4. waiting' \subseteq Command /\ [op |-> "edit", key |-> k].op # "remove"
    BY <1>b, <2>1
  <2> QED BY <1>a, <2>1, <2>3, <2>4 DEF EditStep, ghosts
<1>3. ASSUME NEW k \in Key, SetActiveIdentity(k) PROVE EditStep
  <2>1. /\ Up /\ holder = Nothing /\ k \in KeysOf(mem)
        /\ waiting' = waiting \cup {[op |-> "edit", key |-> k]}
        /\ mem' = [mem EXCEPT !.active = k]
        /\ UNCHANGED <<files, holder, miners, used, ghosts>>
    BY <1>3 DEF SetActiveIdentity, Await, Free
  <2>2. mem' = [entries |-> mem.entries, active |-> k, pass |-> mem.pass]
    BY <1>a, <2>1, BookUpdates
  <2>3. /\ mem' \in Book /\ Sound(mem') /\ mem'.pass = mem.pass
        /\ KeysOf(mem') = KeysOf(mem)
    <3>1. /\ mem' \in Book /\ mem'.entries = mem.entries /\ mem'.active = k
          /\ mem'.pass = mem.pass
      BY <1>a, <2>1, <2>2, BookFields DEF Book
    <3> QED BY <1>a, <2>1, <3>1 DEF Sound, DistinctKeys, KeysOf
  <2>4. waiting' \subseteq Command /\ [op |-> "edit", key |-> k].op # "remove"
    BY <1>b, <2>1
  <2> QED BY <1>a, <2>1, <2>3, <2>4 DEF EditStep, ghosts
<1>4. ASSUME NEW k \in Key, RemoveIdentity(k) PROVE EditStep
  <2>1. /\ Up /\ holder = Nothing /\ k \in KeysOf(mem) /\ Len(mem.entries) > 1
        /\ waiting' = waiting \cup {[op |-> "remove", key |-> k]}
        /\ mem' = Removed(mem, k) /\ owed' = owed \ {k}
        /\ UNCHANGED <<files, holder, miners, used, removed, confirmed, unsure>>
    BY <1>4 DEF RemoveIdentity, Await, Free
  <2>2. /\ mem' \in Book /\ Sound(mem') /\ mem'.pass = mem.pass
        /\ KeysOf(mem') = KeysOf(mem) \ {k}
    BY <1>a, <2>1, RemovedKeys
  <2>3. waiting' \subseteq Command /\ [op |-> "remove", key |-> k].key = k
    BY <1>b, <2>1
  <2> QED BY <1>a, <2>1, <2>2, <2>3 DEF EditStep
<1>5. ASSUME NEW target \in 0 .. MaxLevel, MineIdentity(target) PROVE EditStep
  <2> DEFINE e == EntryOf(mem.active)
             m == [key |-> e.key, level |-> MinedLevel(e.level, target)]
  <2>1. /\ Up /\ holder = Nothing
        /\ miners' = miners \cup {m}
        /\ UNCHANGED <<files, mem, holder, waiting, used, ghosts>>
    BY <1>5 DEF MineIdentity, Free
  <2>2. e \in Entry
    BY <1>a, <2>1, EntryOfKey DEF Sound
  <2> HIDE DEF e
  <2>3. m \in Miner
    BY <2>2 DEF Miner, Entry, MinedLevel
  <2> QED BY <1>a, <2>1, <2>3 DEF EditStep, ghosts
<1>6. ASSUME NEW m \in miners, Mined(m) PROVE EditStep
  <2>1. /\ Up /\ holder = Nothing
        /\ waiting' \in {waiting, waiting \cup {[op |-> "edit", key |-> m.key]}}
        /\ mem' = SetCounter(m) /\ miners' = miners \ {m}
        /\ UNCHANGED <<files, holder, used, ghosts>>
    BY <1>6 DEF Mined, Await, Free
  <2>2. m \in Miner /\ m.key \in Key /\ m.level \in 0 .. MaxLevel
    BY DEF Miner
  <2>3. /\ mem' \in Book /\ Sound(mem') /\ mem'.pass = mem.pass
        /\ KeysOf(mem') = KeysOf(mem)
    <3>1. CASE m.key \in KeysOf(mem)
      <4> DEFINE e == [EntryOf(m.key) EXCEPT !.level = m.level]
      <4>1. e \in Entry /\ e.key = m.key
        <5>1. EntryOf(m.key) \in Entry /\ EntryOf(m.key).key = m.key
          BY <1>a, <2>1, <3>1, EntryOfKey
        <5> QED BY <2>2, <5>1 DEF Entry
      <4>2. mem' = With(m.key, e)
        BY <2>1, <3>1 DEF SetCounter
      <4> HIDE DEF e
      <4> QED BY <1>a, <2>1, <3>1, <4>1, <4>2, WithKeepsKeys
    <3>2. CASE m.key \notin KeysOf(mem)
      BY <1>a, <2>1, <3>2 DEF SetCounter
    <3> QED BY <3>1, <3>2
  <2>4. waiting' \subseteq Command /\ [op |-> "edit", key |-> m.key].op # "remove"
    BY <1>b, <2>1, <2>2
  <2> QED BY <1>a, <2>1, <2>3, <2>4 DEF EditStep, ghosts
<1> QED BY <1>1, <1>2, <1>3, <1>4, <1>5, <1>6

\* An edit preserves the invariant: the disk is not touched, the keys in
\* memory that were there before or are new stay used, and a key that is
\* taken away is no longer owed.
LEMMA EditKeeps == IInv /\ EditStep => IInv'
<1> SUFFICES ASSUME IInv, EditStep PROVE IInv'
  OBVIOUS
<1>1. mem # Nothing /\ mem' # Nothing
  BY AbsenceAssumption DEF EditStep
<1>2. TypeOK'
  BY DEF IInv, TypeOK, EditStep, files
<1>3. SoundVaults' /\ KeysUsed' /\ Started'
  BY <1>1 DEF IInv, TypeOK, EditStep, files, SoundVaults, KeysUsed, Started, Creating, Gone
<1>4. Staged' /\ Protected'
  BY <1>1 DEF IInv, EditStep, files, Staged, Protected, Rekeyed
<1>5. Gone'
  BY <1>1 DEF IInv, TypeOK, EditStep, files, KeysUsed, Gone, Saving
<1>6. Owed'
  BY <1>1 DEF IInv, EditStep, files, Owed
<1> QED BY <1>2, <1>3, <1>4, <1>5, <1>6 DEF IInv

-----------------------------------------------------------------------------
(* Steps on the disk, starts and crashes *)

\* A command takes the mutex and opens its temporary file.
LEMMA SaveKeeps == ASSUME IInv, NEW c \in waiting, Save(c) PROVE IInv'
<1> DEFINE h == [doing |-> "save", step |-> "write", command |-> c]
<1>1. /\ Up /\ holder = Nothing /\ holder' = h /\ draft' = Torn
      /\ waiting' = waiting \ {c}
      /\ UNCHANGED <<vault, legacy, backup, mem, miners, used, ghosts>>
  BY DEF Save, Free
<1>2. h \in Holder /\ h.doing = "save" /\ h.step = "write" /\ h.command = c /\ h # Nothing
  BY AbsenceAssumption DEF IInv, TypeOK, Holder
<1> HIDE DEF h
<1> USE <1>1, <1>2
<1>3. TypeOK'
  BY DEF IInv, TypeOK, ghosts
<1>4. SoundVaults' /\ KeysUsed' /\ Started' /\ Owed'
  BY DEF IInv, SoundVaults, KeysUsed, Started, Creating, Owed, Up, ghosts
<1>5. Staged' /\ Protected'
  BY DEF IInv, Staged, Protected, Rekeyed, ghosts
<1>6. Gone'
  BY DEF IInv, Gone, Saving, ghosts
<1> QED BY <1>3, <1>4, <1>5, <1>6 DEF IInv

\* The holder is typed, and the vault is in memory while there is one.
LEMMA HoldsFacts ==
  ASSUME TypeOK, NEW doing, NEW step, Holds(doing, step)
  PROVE  /\ mem \in Book /\ mem # Nothing
         /\ holder \in Holder /\ holder # Nothing
         /\ holder.doing = doing /\ holder.step = step
BY DEF TypeOK, Holds, Up

\* write_private: what is on the disk beside the vault is what is in memory.
LEMMA WriteKeeps == IInv /\ Write => IInv'
<1> SUFFICES ASSUME IInv, Write PROVE IInv'
  OBVIOUS
<1>1. PICK doing \in {"save", "create"} : Holds(doing, "write")
  BY DEF Write
<1>2. /\ mem \in Book /\ mem # Nothing /\ holder \in Holder /\ holder # Nothing
      /\ holder.doing = doing /\ holder.step = "write"
  BY <1>1, HoldsFacts DEF IInv
<1>3. /\ holder' \in Holder /\ holder' # Nothing
      /\ holder'.doing = doing /\ holder'.step = "rename"
      /\ doing = "save" => holder'.command = holder.command
  BY <1>2, GotoFields, AbsenceAssumption DEF Write, Goto
<1>4. draft' = mem /\ UNCHANGED <<mem, waiting, miners, used, vault, legacy, backup, ghosts>>
  BY DEF Write, Same
<1> USE <1>2, <1>3, <1>4
<1>5. TypeOK'
  BY DEF IInv, TypeOK, ghosts
<1>6. SoundVaults' /\ KeysUsed' /\ Started' /\ Owed'
  BY DEF IInv, SoundVaults, KeysUsed, Started, Creating, Owed, ghosts
<1>7. Staged' /\ Protected'
  BY DEF IInv, Staged, Protected, Rekeyed, ghosts
<1>8. Gone'
  BY DEF IInv, Gone, Saving, ghosts
<1> QED BY <1>5, <1>6, <1>7, <1>8 DEF IInv

\* The rename of a save puts what is in memory on the disk, and answers.
LEMMA RenameSavedKeeps == IInv /\ RenameSaved => IInv'
<1> SUFFICES ASSUME IInv, RenameSaved PROVE IInv'
  OBVIOUS
<1>1. /\ mem \in Book /\ mem # Nothing /\ holder \in Holder /\ holder # Nothing
      /\ holder.doing = "save" /\ holder.step = "rename"
  BY HoldsFacts DEF IInv, RenameSaved
<1> DEFINE c == holder.command
<1>2. c \in Command /\ c.key \in Key
  BY <1>1, HolderFields DEF Command
<1>3. /\ vault' = mem /\ draft' = Nothing /\ holder' = Nothing
      /\ owed' = IF c.op = "add" /\ c.key \in KeysOf(mem) THEN owed \cup {c.key} ELSE owed
      /\ removed' = IF c.op = "remove" THEN removed \cup {c.key} ELSE removed
      /\ UNCHANGED <<mem, waiting, miners, used, legacy, backup, confirmed, unsure>>
  BY <1>1 DEF RenameSaved, Answered, Same, IInv, Staged
<1>4. c.op = "remove" => c.key \in used \ KeysOf(mem)
  BY <1>1 DEF IInv, Gone, Saving
<1> HIDE DEF c
<1>5. TypeOK'
  BY <1>1, <1>2, <1>3 DEF IInv, TypeOK
<1>6. SoundVaults' /\ KeysUsed' /\ Started' /\ Owed'
  BY <1>1, <1>3, <1>4 DEF IInv, SoundVaults, KeysUsed, Started, Creating, Owed
<1>7. Staged' /\ Protected'
  BY <1>1, <1>3 DEF IInv, Staged, Protected, Rekeyed
<1>8. Gone'
  BY <1>1, <1>3, <1>4 DEF IInv, Gone, Saving
<1> QED BY <1>5, <1>6, <1>7, <1>8 DEF IInv

\* A save that fails changes nothing but who holds the mutex.
LEMMA SaveFailsKeeps == IInv /\ SaveFails => IInv'
<1> SUFFICES ASSUME IInv, SaveFails PROVE IInv'
  OBVIOUS
<1>1. /\ mem \in Book /\ mem # Nothing /\ holder \in Holder /\ holder # Nothing
      /\ holder.doing = "save"
  BY HoldsFacts DEF IInv, SaveFails
<1>2. /\ draft' = Nothing /\ holder' = Nothing
      /\ UNCHANGED <<mem, waiting, miners, used, vault, legacy, backup, ghosts>>
  BY DEF SaveFails, Same
<1> USE <1>1, <1>2
<1>5. TypeOK'
  BY DEF IInv, TypeOK, ghosts
<1>6. SoundVaults' /\ KeysUsed' /\ Started' /\ Owed'
  BY DEF IInv, SoundVaults, KeysUsed, Started, Creating, Owed, ghosts
<1>7. Staged' /\ Protected'
  BY DEF IInv, Staged, Protected, Rekeyed, ghosts
<1>8. Gone'
  BY DEF IInv, Gone, Saving, ghosts
<1> QED BY <1>5, <1>6, <1>7, <1>8 DEF IInv

\* set_vault_passphrase takes the mutex.
LEMMA SetVaultPassphraseKeeps ==
  ASSUME IInv, NEW p \in Protection, SetVaultPassphrase(p) PROVE IInv'
<1> DEFINE h == [doing |-> "rekey", step |-> "write", pass |-> p]
<1>1. /\ Up /\ holder = Nothing /\ holder' = h /\ draft' = Torn /\ unsure' = {p}
      /\ UNCHANGED <<mem, waiting, miners, used, vault, legacy, backup, owed, removed, confirmed>>
  BY DEF SetVaultPassphrase, Free, Same
<1>2. h \in Holder /\ h.doing = "rekey" /\ h.step = "write" /\ h.pass = p /\ h # Nothing
  BY AbsenceAssumption DEF Holder
<1> HIDE DEF h
<1> USE <1>1, <1>2
<1>3. TypeOK'
  BY DEF IInv, TypeOK
<1>4. SoundVaults' /\ KeysUsed' /\ Started' /\ Owed'
  BY DEF IInv, SoundVaults, KeysUsed, Started, Creating, Owed, Up
<1>5. Staged' /\ Protected'
  BY DEF IInv, Staged, Protected, Rekeyed, Up
<1>6. Gone'
  BY DEF IInv, Gone, Saving
<1> QED BY <1>3, <1>4, <1>5, <1>6 DEF IInv

\* The candidate holds what is in memory, under some seal.
LEMMA WriteCandidateKeeps == IInv /\ WriteCandidate => IInv'
<1> SUFFICES ASSUME IInv, WriteCandidate PROVE IInv'
  OBVIOUS
<1>1. /\ mem \in Book /\ mem # Nothing /\ holder \in Holder /\ holder # Nothing
      /\ holder.doing = "rekey" /\ holder.step = "write" /\ holder.pass \in Protection
  BY HoldsFacts, HolderFields DEF IInv, WriteCandidate
<1>2. /\ holder' \in Holder /\ holder' # Nothing /\ holder'.doing = "rekey"
      /\ holder'.step = "verify" /\ holder'.pass = holder.pass
  BY <1>1, GotoFields, AbsenceAssumption DEF WriteCandidate, Goto
<1>3. PICK sealed \in Seals(holder.pass) : draft' = [mem EXCEPT !.pass = sealed]
  BY DEF WriteCandidate
<1>4. draft' \in Book \cup [entries : Seq(Entry), active : Key, pass : {Garbled}]
  <2>1. draft' = [entries |-> mem.entries, active |-> mem.active, pass |-> sealed]
    BY <1>1, <1>3, BookUpdates
  <2>2. sealed \in Protection \cup {Garbled}
    BY <1>1 DEF Seals
  <2> QED BY <1>1, <2>1, <2>2, BookFields DEF Book
<1>5. UNCHANGED <<mem, waiting, miners, used, vault, legacy, backup, ghosts>>
  BY DEF WriteCandidate, Same
<1> USE <1>1, <1>2, <1>5
<1>6. TypeOK'
  BY <1>4 DEF IInv, TypeOK, ghosts
<1>7. SoundVaults' /\ KeysUsed' /\ Started' /\ Owed'
  BY DEF IInv, SoundVaults, KeysUsed, Started, Creating, Owed, ghosts
<1>8. Staged' /\ Protected'
  BY <1>3 DEF IInv, Staged, Protected, Rekeyed, ghosts
<1>9. Gone'
  BY DEF IInv, Gone, Saving, ghosts
<1> QED BY <1>6, <1>7, <1>8, <1>9 DEF IInv

\* A candidate that opens with the new passphrase is sealed under it.
LEMMA VerifiedSeal ==
  ASSUME mem \in Book, NEW p \in Protection, NEW sealed \in Seals(p),
         draft = [mem EXCEPT !.pass = sealed], Opens(draft, p)
  PROVE  sealed = p
<1>1. draft.pass = sealed
  BY BookUpdates
<1>2. sealed = Plain \/ sealed = p
  BY <1>1 DEF Opens, Unseals
<1> QED BY <1>2, VaultAssumption DEF Seals, Protection

LEMMA VerifyKeeps == IInv /\ Verify => IInv'
<1> SUFFICES ASSUME IInv, Verify PROVE IInv'
  OBVIOUS
<1>1. /\ mem \in Book /\ mem # Nothing /\ holder \in Holder /\ holder # Nothing
      /\ holder.doing = "rekey" /\ holder.step = "verify" /\ holder.pass \in Protection
  BY HoldsFacts, HolderFields DEF IInv, Verify
<1>2. UNCHANGED <<mem, waiting, miners, used, vault, legacy, backup, owed, removed, confirmed>>
  BY DEF Verify, Same
<1> USE <1>1, <1>2
<1>3. CASE Verified
  <2>1. /\ holder' \in Holder /\ holder' # Nothing /\ holder'.doing = "rekey"
        /\ holder'.step = "rename" /\ holder'.pass = holder.pass
        /\ UNCHANGED <<draft, unsure>>
    <3>1. holder' = [holder EXCEPT !.step = "rename"] /\ UNCHANGED <<draft, unsure>>
      BY <1>3 DEF Verify, Goto
    <3> QED BY <3>1, GotoFields, AbsenceAssumption
  <2>2. draft = [mem EXCEPT !.pass = holder.pass]
    <3>1. PICK sealed \in Seals(holder.pass) : draft = [mem EXCEPT !.pass = sealed]
      BY DEF IInv, Staged
    <3> QED BY <1>3, <3>1, VerifiedSeal DEF Verified
  <2> USE <2>1, <2>2
  <2>3. TypeOK'
    BY DEF IInv, TypeOK
  <2>4. SoundVaults' /\ KeysUsed' /\ Started' /\ Owed'
    BY DEF IInv, SoundVaults, KeysUsed, Started, Creating, Owed
  <2>5. Staged' /\ Protected'
    BY DEF IInv, Staged, Protected, Rekeyed
  <2>6. Gone'
    BY DEF IInv, Gone, Saving
  <2> QED BY <2>3, <2>4, <2>5, <2>6 DEF IInv
<1>4. CASE ~ Verified
  <2>1. draft' = Nothing /\ holder' = Nothing /\ unsure' = {}
    BY <1>4 DEF Verify
  <2> USE <2>1
  <2>3. TypeOK'
    BY DEF IInv, TypeOK
  <2>4. SoundVaults' /\ KeysUsed' /\ Started' /\ Owed'
    BY DEF IInv, SoundVaults, KeysUsed, Started, Creating, Owed
  <2>5. Staged' /\ Protected'
    BY DEF IInv, Staged, Protected, Rekeyed
  <2>6. Gone'
    BY DEF IInv, Gone, Saving
  <2> QED BY <2>3, <2>4, <2>5, <2>6 DEF IInv
<1> QED BY <1>3, <1>4

\* The candidate becomes the vault; memory follows.
LEMMA RenameCandidateKeeps == IInv /\ RenameCandidate => IInv' /\ vault' = mem'
<1> SUFFICES ASSUME IInv, RenameCandidate PROVE IInv' /\ vault' = mem'
  OBVIOUS
<1>1. /\ mem \in Book /\ mem # Nothing /\ holder \in Holder /\ holder # Nothing
      /\ holder.doing = "rekey" /\ holder.step = "rename" /\ holder.pass \in Protection
  BY HoldsFacts, HolderFields DEF IInv, RenameCandidate
<1>2. /\ holder' \in Holder /\ holder' # Nothing /\ holder'.doing = "rekey"
      /\ holder'.step = "answer" /\ holder'.pass = holder.pass
  BY <1>1, GotoFields, AbsenceAssumption DEF RenameCandidate, Goto
<1>3. /\ mem' = [mem EXCEPT !.pass = holder.pass] /\ vault' = mem' /\ draft' = Nothing
      /\ UNCHANGED <<legacy, backup, waiting, miners, used, ghosts>>
  BY <1>1 DEF RenameCandidate, IInv, Staged
<1>4. /\ mem' \in Book /\ Sound(mem') /\ KeysOf(mem') = KeysOf(mem)
      /\ mem'.pass = holder.pass
  <2>1. mem' = [entries |-> mem.entries, active |-> mem.active, pass |-> holder.pass]
    BY <1>1, <1>3, BookUpdates
  <2>2. /\ mem' \in Book /\ mem'.entries = mem.entries /\ mem'.active = mem.active
        /\ mem'.pass = holder.pass
    BY <1>1, <2>1, BookFields DEF Book
  <2> QED BY <1>1, <2>2 DEF IInv, SoundVaults, Sound, DistinctKeys, KeysOf
<1>5. mem' # Nothing
  BY <1>4, AbsenceAssumption
<1> USE <1>1, <1>2, <1>4, <1>5
<1>6. TypeOK'
  BY <1>3 DEF IInv, TypeOK, ghosts
<1>7. SoundVaults' /\ KeysUsed' /\ Started' /\ Owed'
  BY <1>3 DEF IInv, SoundVaults, KeysUsed, Started, Creating, Owed, ghosts
<1>8. Staged' /\ Protected'
  BY <1>3 DEF IInv, Staged, Protected, Rekeyed, ghosts
<1>9. Gone'
  BY <1>3 DEF IInv, Gone, Saving, ghosts
<1> QED BY <1>3, <1>6, <1>7, <1>8, <1>9 DEF IInv

LEMMA PassphraseSetKeeps == IInv /\ PassphraseSet => IInv'
<1> SUFFICES ASSUME IInv, PassphraseSet PROVE IInv'
  OBVIOUS
<1>1. /\ mem \in Book /\ mem # Nothing /\ holder \in Holder /\ holder # Nothing
      /\ holder.doing = "rekey" /\ holder.step = "answer" /\ holder.pass \in Protection
  BY HoldsFacts, HolderFields DEF IInv, PassphraseSet
<1>2. /\ holder' = Nothing /\ confirmed' = holder.pass /\ unsure' = {}
      /\ UNCHANGED <<files, mem, waiting, miners, used, owed, removed>>
  BY DEF PassphraseSet, Same
<1> USE <1>1, <1>2
<1>3. TypeOK'
  BY DEF IInv, TypeOK, files
<1>4. SoundVaults' /\ KeysUsed' /\ Started' /\ Owed'
  BY DEF IInv, SoundVaults, KeysUsed, Started, Creating, Owed, files
<1>5. Staged' /\ Protected'
  BY DEF IInv, Staged, Protected, Rekeyed, files
<1>6. Gone'
  BY DEF IInv, Gone, Saving, files
<1> QED BY <1>3, <1>4, <1>5, <1>6 DEF IInv

\* A change that fails leaves memory and disk under the old passphrase.
LEMMA RekeyFailsKeeps == IInv /\ RekeyFails => IInv'
<1> SUFFICES ASSUME IInv, RekeyFails PROVE IInv'
  OBVIOUS
<1>1. /\ mem \in Book /\ mem # Nothing /\ holder \in Holder /\ holder # Nothing
      /\ holder.doing = "rekey" /\ holder.step # "answer"
  BY HoldsFacts DEF IInv, RekeyFails
<1>2. /\ holder' = Nothing /\ draft' = Nothing /\ unsure' = {}
      /\ UNCHANGED <<mem, waiting, miners, used, vault, legacy, backup, owed, removed, confirmed>>
  BY DEF RekeyFails, Same
<1> USE <1>1, <1>2
<1>3. TypeOK'
  BY DEF IInv, TypeOK
<1>4. SoundVaults' /\ KeysUsed' /\ Started' /\ Owed'
  BY DEF IInv, SoundVaults, KeysUsed, Started, Creating, Owed
<1>5. Staged' /\ Protected'
  BY DEF IInv, Staged, Protected, Rekeyed
<1>6. Gone'
  BY DEF IInv, Gone, Saving
<1> QED BY <1>3, <1>4, <1>5, <1>6 DEF IInv

\* A start takes the vault as it is on the disk.
LEMMA OpenKeeps == ASSUME IInv, NEW p \in Protection, Open(p) PROVE IInv' /\ mem' = vault
<1>1. mem = Nothing /\ vault \in Book /\ vault # Nothing /\ holder = Nothing /\ waiting = {}
  BY DEF IInv, TypeOK, Started, Open, Opens, File
<1>2. /\ mem' = vault /\ owed' = KeysOf(vault) /\ confirmed' = vault.pass /\ unsure' = {}
      /\ UNCHANGED <<files, holder, waiting, miners, used, removed>>
  BY <1>1, ParsedSound DEF IInv, SoundVaults, Open
<1>3. KeysOf(vault) \subseteq Key /\ vault.pass \in Protection
  BY <1>1, BookFields
<1> USE <1>1, <1>2, <1>3
<1>4. TypeOK'
  BY DEF IInv, TypeOK, files
<1>5. SoundVaults' /\ KeysUsed' /\ Started' /\ Owed'
  BY DEF IInv, SoundVaults, KeysUsed, Started, Creating, Owed, files
<1>6. Staged' /\ Protected'
  BY DEF IInv, Staged, Protected, Rekeyed, files
<1>7. Gone'
  BY DEF IInv, Gone, Saving, files
<1> QED BY <1>4, <1>5, <1>6, <1>7 DEF IInv

\* The first start makes a vault in memory, of the old key or a new one.
LEMMA CreateKeeps ==
  ASSUME IInv, NEW k \in Key, NEW t \in Text, Create(k, t)
  PROVE  /\ IInv' /\ mem' \in Book
         /\ legacy \in Entry => mem' = FromLegacy(legacy)
         /\ legacy \in Entry \cup {Nothing}
<1> DEFINE h == [doing |-> "create", step |-> "write"]
<1>1. /\ mem = Nothing /\ vault = Nothing /\ holder = Nothing /\ waiting = {}
      /\ owed = {} /\ removed = {} /\ confirmed = Plain
  BY DEF IInv, Started, Create
<1>2. /\ used' = used \cup {k} /\ holder' = h /\ draft' = Torn
      /\ UNCHANGED <<vault, legacy, backup, waiting, miners, ghosts>>
  BY DEF Create
<1>3. h \in Holder /\ h.doing = "create" /\ h.step = "write" /\ h # Nothing
  BY AbsenceAssumption DEF Holder
<1> HIDE DEF h
<1>4. /\ mem' \in Book /\ Sound(mem') /\ mem'.pass = Plain /\ KeysOf(mem') = {k}
      /\ legacy \in Entry => mem' = FromLegacy(legacy)
      /\ legacy \in Entry \cup {Nothing}
  <2>1. CASE legacy = Nothing
    <3>1. NewEntry(k, t) \in Entry /\ NewEntry(k, t).key = k
      BY VaultAssumption DEF NewEntry, Entry
    <3>2. mem' = FromLegacy(NewEntry(k, t))
      BY <2>1 DEF Create
    <3> QED BY <2>1, <3>1, <3>2, LegacySound, AbsenceAssumption
  <2>2. CASE legacy # Nothing
    <3>1. legacy \in Entry
      BY <2>2 DEF IInv, TypeOK, Create
    <3>2. mem' = FromLegacy(legacy) /\ legacy.key = k
      BY <2>2 DEF Create
    <3> QED BY <3>1, <3>2, LegacySound
  <2> QED BY <2>1, <2>2
<1>5. mem' # Nothing
  BY <1>4, AbsenceAssumption
<1> USE <1>1, <1>2, <1>3, <1>4, <1>5
<1>6. TypeOK'
  BY DEF IInv, TypeOK, ghosts
<1>7. SoundVaults' /\ KeysUsed' /\ Started' /\ Owed'
  BY DEF IInv, SoundVaults, KeysUsed, Started, Creating, Owed, ghosts
<1>8. Staged' /\ Protected'
  BY DEF IInv, Staged, Protected, Rekeyed, ghosts
<1>9. Gone'
  BY DEF IInv, Gone, Saving, ghosts
<1> QED BY <1>6, <1>7, <1>8, <1>9 DEF IInv

\* The new vault is on the disk before the old file is put away.
LEMMA RenameCreatedKeeps == IInv /\ RenameCreated => IInv' /\ vault' = mem /\ mem' = mem
<1> SUFFICES ASSUME IInv, RenameCreated PROVE IInv' /\ vault' = mem /\ mem' = mem
  OBVIOUS
<1>1. /\ mem \in Book /\ mem # Nothing /\ holder \in Holder /\ holder # Nothing
      /\ holder.doing = "create" /\ holder.step = "rename"
  BY HoldsFacts DEF IInv, RenameCreated
<1>2. /\ vault' = mem /\ draft' = Nothing
      /\ UNCHANGED <<mem, waiting, miners, used, legacy, backup, removed, confirmed, unsure>>
  BY <1>1 DEF RenameCreated, Same, IInv, Staged
<1>3. KeysOf(mem) \subseteq Key
  BY <1>1, BookFields
<1>4. vault = Nothing /\ owed = {} /\ removed = {} /\ confirmed = Plain
  BY <1>1 DEF IInv, Started, Creating
<1>5. \/ holder' = Nothing /\ owed' = KeysOf(mem)
      \/ /\ holder' \in Holder /\ holder' # Nothing /\ owed' = owed
         /\ holder'.doing = "create" /\ holder'.step = "retire"
  <2>1. \/ holder' = Nothing /\ owed' = KeysOf(mem)
        \/ holder' = [holder EXCEPT !.step = "retire"] /\ owed' = owed
    BY DEF RenameCreated, Goto
  <2>2. LET g == [holder EXCEPT !.step = "retire"]
        IN g \in Holder /\ g # Nothing /\ g.doing = "create" /\ g.step = "retire"
    BY <1>1, GotoFields, AbsenceAssumption
  <2> QED BY <2>1, <2>2
<1> USE <1>1, <1>2, <1>3, <1>4, <1>5
<1>6. TypeOK'
  BY DEF IInv, TypeOK
<1>7. SoundVaults' /\ KeysUsed' /\ Started' /\ Owed'
  BY DEF IInv, SoundVaults, KeysUsed, Started, Creating, Owed
<1>8. Staged' /\ Protected'
  BY DEF IInv, Staged, Protected, Rekeyed
<1>9. Gone'
  BY DEF IInv, Gone, Saving
<1> QED BY <1>6, <1>7, <1>8, <1>9 DEF IInv

LEMMA RetireLegacyKeeps == IInv /\ RetireLegacy => IInv' /\ vault # Nothing
<1> SUFFICES ASSUME IInv, RetireLegacy PROVE IInv' /\ vault # Nothing
  OBVIOUS
<1>1. /\ mem \in Book /\ mem # Nothing /\ holder \in Holder /\ holder # Nothing
      /\ holder.doing = "create" /\ holder.step = "retire"
  BY HoldsFacts DEF IInv, RetireLegacy
<1>2. /\ holder' = Nothing /\ backup' = legacy /\ legacy' = Nothing /\ owed' = KeysOf(mem)
      /\ UNCHANGED <<mem, waiting, miners, used, vault, draft, removed, confirmed, unsure>>
  BY DEF RetireLegacy, Same
<1>3. KeysOf(mem) \subseteq Key
  BY <1>1, BookFields
<1>4. vault = mem
  BY <1>1 DEF IInv, Staged
<1> USE <1>1, <1>2, <1>3, <1>4
<1>5. TypeOK'
  BY DEF IInv, TypeOK
<1>6. SoundVaults' /\ KeysUsed' /\ Started' /\ Owed'
  BY AbsenceAssumption DEF IInv, SoundVaults, KeysUsed, Started, Creating, Owed
<1>7. Staged' /\ Protected'
  BY DEF IInv, Staged, Protected, Rekeyed
<1>8. Gone'
  BY DEF IInv, Gone, Saving
<1> QED BY <1>5, <1>6, <1>7, <1>8 DEF IInv

\* A crash takes memory and leaves the files.
LEMMA CrashKeeps == IInv /\ Crash => IInv'
<1> SUFFICES ASSUME IInv, Crash PROVE IInv'
  OBVIOUS
<1>1. /\ mem # Nothing /\ mem' = Nothing /\ holder' = Nothing /\ waiting' = {} /\ miners' = {}
      /\ draft' = Nothing
      /\ UNCHANGED <<vault, legacy, backup, used, ghosts>>
  BY DEF Crash, Up
<1>2. holder # Nothing => holder \in Holder
  BY DEF IInv, TypeOK
<1> USE <1>1, <1>2
<1>3. TypeOK'
  BY DEF IInv, TypeOK, ghosts
<1>4. SoundVaults' /\ KeysUsed' /\ Started' /\ Owed'
  BY DEF IInv, SoundVaults, KeysUsed, Started, Creating, Owed, ghosts
<1>5. Staged' /\ Protected'
  BY HolderFields DEF IInv, Staged, Protected, Rekeyed, ghosts
<1>6. Gone'
  BY DEF IInv, Gone, Saving, ghosts
<1> QED BY <1>3, <1>4, <1>5, <1>6 DEF IInv

-----------------------------------------------------------------------------
(* The theorems *)

LEMMA InvInit == Init => IInv
<1> SUFFICES ASSUME Init PROVE IInv
  OBVIOUS
<1>1. PICK k \in Key, t \in Text :
        legacy \in {Nothing, Torn, NewEntry(k, t)} /\ used = IF File(legacy) THEN {k} ELSE {}
  BY DEF Init
<1>2. NewEntry(k, t) \in Entry /\ NewEntry(k, t).key = k
  BY VaultAssumption DEF NewEntry, Entry
<1>3. legacy \in Entry \cup {Nothing, Torn} /\ used \subseteq Key
  BY <1>1, <1>2
<1>4. legacy \in Entry => legacy.key \in used
  BY <1>1, <1>2, AbsenceAssumption DEF File
<1> QED BY <1>3, <1>4 DEF Init, IInv, TypeOK, Protection, SoundVaults, KeysUsed, Started,
             Creating, Staged, Gone, Saving, Owed, Protected, Rekeyed

LEMMA InvNext == IInv /\ [Next]_vars => IInv'
<1> SUFFICES ASSUME IInv, [Next]_vars PROVE IInv'
  OBVIOUS
<1>1. CASE EditStep
  BY <1>1, EditKeeps
<1>2. CASE \E k \in Key, t \in Text : AddIdentity(k, t) \/ SetText(k, t) \/ Create(k, t)
  BY <1>1, <1>2, EditsAreEdits, CreateKeeps
<1>3. CASE \E k \in Key : SetActiveIdentity(k) \/ RemoveIdentity(k)
  BY <1>1, <1>3, EditsAreEdits
<1>4. CASE \E target \in 0 .. MaxLevel : MineIdentity(target)
  BY <1>1, <1>4, EditsAreEdits
<1>5. CASE \E m \in miners : Mined(m)
  BY <1>1, <1>5, EditsAreEdits
<1>6. CASE \E c \in waiting : Save(c)
  BY <1>6, SaveKeeps
<1>7. CASE Write \/ RenameSaved \/ SaveFails
  BY <1>7, WriteKeeps, RenameSavedKeeps, SaveFailsKeeps
<1>8. CASE \E p \in Protection : SetVaultPassphrase(p) \/ Open(p)
  BY <1>8, SetVaultPassphraseKeeps, OpenKeeps
<1>9. CASE WriteCandidate \/ Verify \/ RenameCandidate \/ PassphraseSet \/ RekeyFails
  BY <1>9, WriteCandidateKeeps, VerifyKeeps, RenameCandidateKeeps, PassphraseSetKeeps, RekeyFailsKeeps
<1>10. CASE RenameCreated \/ RetireLegacy \/ Crash
  BY <1>10, RenameCreatedKeeps, RetireLegacyKeeps, CrashKeeps
<1>11. CASE UNCHANGED vars
  BY <1>11 DEF IInv, TypeOK, SoundVaults, KeysUsed, Started, Creating, Staged, Gone, Saving,
       Owed, Protected, Rekeyed, vars, files, ghosts
<1> QED BY <1>2, <1>3, <1>4, <1>5, <1>6, <1>7, <1>8, <1>9, <1>10, <1>11 DEF Next

LEMMA InvHolds == Spec => []IInv
BY InvInit, InvNext, PTL DEF Spec

\* No key the user was shown and did not remove is ever missing from the
\* disk: not after a crash between any two steps, a save that failed, the
\* migration of the old file or a change of the passphrase.
THEOREM KeysSurvive == Spec => []NoKeyLost
<1>1. IInv => NoKeyLost
  BY AbsenceAssumption DEF IInv, TypeOK, Started, Owed, NoKeyLost, File
<1> QED BY <1>1, InvHolds, PTL

\* The user knows a passphrase that opens the vault on the disk.
THEOREM VaultOpens == Spec => []UserCanOpen
<1>1. IInv => UserCanOpen
  BY HolderFields DEF IInv, TypeOK, Staged, Protected, Rekeyed, UserCanOpen, File
<1> QED BY <1>1, InvHolds, PTL

\* A removal that was confirmed is final.
THEOREM RemovalIsFinal == Spec => []RemovedStaysGone
<1>1. IInv => RemovedStaysGone
  BY DEF IInv, Gone, RemovedStaysGone, Up, File
<1> QED BY <1>1, InvHolds, PTL

\* Vault::active never panics.
THEOREM SelectionExists == Spec => []ActiveExists
<1>1. IInv => ActiveExists
  BY DEF IInv, SoundVaults, Sound, ActiveExists, File
<1> QED BY <1>1, InvHolds, PTL

-----------------------------------------------------------------------------
(* The files implement the atomic vault *)

\* What a start would find is a whole vault, or nothing.
LEMMA DurableFacts ==
  ASSUME IInv
  PROVE  /\ Durable \in Book \cup {Nothing}
         /\ vault # Nothing => Durable = vault
BY LegacySound DEF IInv, TypeOK, Durable

LEMMA PromiseInit == Init => Promise!Init
<1> SUFFICES ASSUME Init PROVE Promise!Init
  OBVIOUS
<1>1. Durable \in Book \cup {Nothing}
  BY InvInit, DurableFacts
<1> QED BY <1>1 DEF Init, Promise!Init

\* Every step is one of the atomic vault or leaves both copies alone.
LEMMA PromiseNext == IInv /\ [Next]_vars => [Promise!Next]_<<mem, Durable>>
<1> SUFFICES ASSUME IInv, [Next]_vars PROVE [Promise!Next]_<<mem, Durable>>
  OBVIOUS
<1> DEFINE Quiet == mem' = mem /\ vault' = vault /\ legacy' = legacy
<1>1. CASE EditStep
  <2>1. Durable' = Durable /\ mem # Nothing
    BY <1>1, AbsenceAssumption DEF EditStep, files, Durable
  <2>2. Promise!Edit
    BY <1>1, <2>1 DEF EditStep, Promise!Edit
  <2> QED BY <2>2 DEF Promise!Next
<1>2. CASE Quiet
  BY <1>2 DEF Durable
<1>3. CASE \E k \in Key, t \in Text : Create(k, t)
  <2>1. PICK k \in Key, t \in Text : Create(k, t)
    BY <1>3
  <2>2. mem = Nothing /\ vault = Nothing /\ vault' = vault /\ legacy' = legacy
    BY <2>1 DEF Create
  <2>3. /\ mem' \in Book
        /\ legacy \in Entry => mem' = FromLegacy(legacy)
        /\ legacy \in Entry \cup {Nothing}
    BY <2>1, CreateKeeps
  <2>4. Durable' = Durable
    BY <2>2 DEF Durable
  <2>5. mem' \in IF Durable = Nothing THEN Book ELSE {Durable}
    <3>1. CASE legacy = Nothing
      BY <2>2, <2>3, <3>1 DEF Durable
    <3>2. CASE legacy \in Entry
      BY <2>2, <2>3, <3>2, AbsenceAssumption DEF Durable
    <3> QED BY <2>3, <3>1, <3>2
  <2> QED BY <2>2, <2>4, <2>5 DEF Promise!Next, Promise!Start
<1>4. CASE \E p \in Protection : Open(p)
  <2>1. PICK p \in Protection : Open(p)
    BY <1>4
  <2>2. mem' = vault
    BY <2>1, OpenKeeps
  <2>3. mem = Nothing /\ vault # Nothing /\ vault' = vault /\ legacy' = legacy
    BY <2>1 DEF Open, Opens, File, files
  <2>4. Durable = vault /\ Durable' = Durable
    BY <2>3 DEF Durable
  <2> QED BY <2>2, <2>3, <2>4 DEF Promise!Next, Promise!Start
<1>5. CASE RenameSaved \/ RenameCreated
  <2>1. mem # Nothing /\ vault' = mem /\ mem' = mem
    BY <1>5, RenameCreatedKeeps, HoldsFacts
       DEF IInv, Staged, RenameSaved, RenameCreated, Same
  <2>2. Durable' = mem
    BY <2>1 DEF Durable
  <2> QED BY <2>1, <2>2 DEF Promise!Next, Promise!Persist
<1>6. CASE RenameCandidate
  <2>1. mem \in Book /\ mem # Nothing /\ holder.pass \in Protection
    BY <1>6, HoldsFacts, HolderFields DEF IInv, RenameCandidate
  <2>2. mem' = [mem EXCEPT !.pass = holder.pass] /\ vault' = mem' /\ mem' # Nothing
    <3>1. mem' = [mem EXCEPT !.pass = holder.pass] /\ vault' = mem'
      BY <1>6, RenameCandidateKeeps DEF RenameCandidate
    <3>2. mem' \in Book
      BY <2>1, <3>1, BookUpdates, BookFields DEF Book
    <3> QED BY <3>1, <3>2, AbsenceAssumption
  <2>3. Durable' = mem'
    BY <2>2 DEF Durable
  <2>4. Promise!Rekey(holder.pass)
    BY <2>1, <2>2, <2>3 DEF Promise!Rekey
  <2> QED BY <2>1, <2>4 DEF Promise!Next
<1>7. CASE RetireLegacy
  <2>1. vault # Nothing /\ vault' = vault /\ mem' = mem
    BY <1>7, RetireLegacyKeeps DEF RetireLegacy, Same
  <2> QED BY <2>1 DEF Durable
<1>8. CASE Crash
  BY <1>8 DEF Crash, Durable, Promise!Next, Promise!Crash
<1>9. CASE \E k \in Key, t \in Text : AddIdentity(k, t) \/ SetText(k, t)
  BY <1>1, <1>9, EditsAreEdits
<1>10. CASE \/ \E k \in Key : SetActiveIdentity(k) \/ RemoveIdentity(k)
            \/ \E target \in 0 .. MaxLevel : MineIdentity(target)
            \/ \E m \in miners : Mined(m)
  BY <1>1, <1>10, EditsAreEdits
<1>11. CASE \/ \E c \in waiting : Save(c)
            \/ Write \/ SaveFails
            \/ \E p \in Protection : SetVaultPassphrase(p)
            \/ WriteCandidate \/ Verify \/ PassphraseSet \/ RekeyFails
            \/ UNCHANGED vars
  <2>1. Quiet
    BY <1>11 DEF Save, Write, SaveFails, SetVaultPassphrase, WriteCandidate, Verify,
         PassphraseSet, RekeyFails, Same, vars, files
  <2> QED BY <1>2, <2>1
<1> QED BY <1>3, <1>4, <1>5, <1>6, <1>7, <1>8, <1>9, <1>10, <1>11 DEF Next

\* The staged files, the mutex and the two critical sections of a command
\* implement a vault whose durable copy only ever changes as a whole.
THEOREM FilesAreAtomic == Spec => ImplementsAtomicVault
BY PromiseInit, PromiseNext, InvHolds, PTL DEF Spec, ImplementsAtomicVault, Promise!Spec
=============================================================================
