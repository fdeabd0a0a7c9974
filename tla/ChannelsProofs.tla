---------------------------- MODULE ChannelsProofs ----------------------------
(***************************************************************************)
(* Proofs about Channels, for any members, roles, overwrites and trees,    *)
(* with crashes and failed writes: when commands do not overlap, the       *)
(* channels in memory are the stored ones and the list and the mirror of   *)
(* every client follow them, through the separate sections of a resync.    *)
(* ChannelsOverlap.cfg has what happens when they do overlap.              *)
(***************************************************************************)
EXTENDS Channels, SequenceTheorems, FiniteSetTheorems, FunctionTheorems, TLAPS

-----------------------------------------------------------------------------
(* The tables and what is loaded from them *)

IsFun(f) == f = [x \in DOMAIN f |-> f[x]]

\* The overwrites of one channel.
RowsFor(ow, ch) ==
  [t \in {k[2] : k \in {r \in DOMAIN ow : r[1] = ch}} |-> ow[<<ch, t>>]]

\* Every row of the overwrites belongs to a channel and a target.
Keyed(ow) == \A k \in DOMAIN ow : k = <<k[1], k[2]>>

LEMMA LoadedRows ==
  ASSUME NEW d
  PROVE  Loaded(d) = [ch \in DOMAIN d.channels |-> Room(d.channels[ch], RowsFor(d.overwrites, ch))]
BY DEF Loaded, RowsFor

LEMMA RowsForFacts ==
  ASSUME NEW ow, Keyed(ow), NEW ch, NEW f, f = RowsFor(ow, ch)
  PROVE  /\ IsFun(f) /\ \A t : t \in DOMAIN f <=> <<ch, t>> \in DOMAIN ow
         /\ \A t \in DOMAIN f : f[t] = ow[<<ch, t>>]
<1>1. \A t : t \in DOMAIN f <=> <<ch, t>> \in DOMAIN ow
  BY DEF RowsFor, Keyed
<1>2. \A t \in DOMAIN f : f[t] = ow[<<ch, t>>]
  BY DEF RowsFor
<1>3. IsFun(f)
  BY DEF RowsFor, IsFun
<1> QED BY <1>1, <1>2, <1>3

\* Functions that agree are equal.
LEMMA FunEqual ==
  ASSUME NEW f, NEW g, IsFun(f), IsFun(g), DOMAIN f = DOMAIN g,
         \A x \in DOMAIN f : f[x] = g[x]
  PROVE  f = g
BY DEF IsFun

\* A row more, or another row in its place.
LEMMA RowsWith ==
  ASSUME NEW ow, Keyed(ow), NEW id, NEW t, NEW w
  PROVE  /\ Keyed(With(ow, <<id, t>>, w))
         /\ RowsFor(With(ow, <<id, t>>, w), id) = With(RowsFor(ow, id), t, w)
         /\ \A ch : ch # id => RowsFor(With(ow, <<id, t>>, w), ch) = RowsFor(ow, ch)
<1>1. PICK new : new = With(ow, <<id, t>>, w)
  OBVIOUS
<1>2. /\ DOMAIN new = DOMAIN ow \cup {<<id, t>>} /\ new[<<id, t>>] = w
      /\ \A k \in DOMAIN ow : k # <<id, t>> => new[k] = ow[k]
  BY <1>1 DEF With
<1>3. Keyed(new)
  BY <1>2 DEF Keyed
<1>4. RowsFor(new, id) = With(RowsFor(ow, id), t, w)
  <2>1. PICK f : f = RowsFor(new, id)
    OBVIOUS
  <2>2. PICK h : h = RowsFor(ow, id)
    OBVIOUS
  <2>3. PICK g : g = With(h, t, w)
    OBVIOUS
  <2>4. /\ IsFun(f) /\ \A u : u \in DOMAIN f <=> <<id, u>> \in DOMAIN new
        /\ \A u \in DOMAIN f : f[u] = new[<<id, u>>]
    BY <1>3, <2>1, RowsForFacts
  <2>5. /\ \A u : u \in DOMAIN h <=> <<id, u>> \in DOMAIN ow
        /\ \A u \in DOMAIN h : h[u] = ow[<<id, u>>]
    BY <2>2, RowsForFacts
  <2>6. /\ IsFun(g) /\ DOMAIN g = DOMAIN h \cup {t} /\ g[t] = w
        /\ \A z \in DOMAIN h : z # t => g[z] = h[z]
    BY <2>3 DEF With, IsFun
  <2>7. DOMAIN f = DOMAIN g
    BY <1>2, <2>4, <2>5, <2>6
  <2>8. \A u \in DOMAIN f : f[u] = g[u]
    BY <1>2, <2>4, <2>5, <2>6, <2>7
  <2> QED BY <2>1, <2>2, <2>3, <2>4, <2>6, <2>7, <2>8, FunEqual
<1>5. ASSUME NEW ch, ch # id PROVE RowsFor(new, ch) = RowsFor(ow, ch)
  <2>1. PICK f : f = RowsFor(new, ch)
    OBVIOUS
  <2>2. PICK h : h = RowsFor(ow, ch)
    OBVIOUS
  <2>3. /\ IsFun(f) /\ \A u : u \in DOMAIN f <=> <<ch, u>> \in DOMAIN new
        /\ \A u \in DOMAIN f : f[u] = new[<<ch, u>>]
    BY <1>3, <2>1, RowsForFacts
  <2>4. /\ IsFun(h) /\ \A u : u \in DOMAIN h <=> <<ch, u>> \in DOMAIN ow
        /\ \A u \in DOMAIN h : h[u] = ow[<<ch, u>>]
    BY <2>2, RowsForFacts
  <2>5. DOMAIN f = DOMAIN h /\ \A u \in DOMAIN f : f[u] = h[u]
    BY <1>2, <1>5, <2>3, <2>4
  <2> QED BY <2>1, <2>2, <2>3, <2>4, <2>5, FunEqual
<1> QED BY <1>1, <1>3, <1>4, <1>5

\* The rows with the keys X are gone: for the channel ch, those of the targets T.
LEMMA RowsLess ==
  ASSUME NEW ow, Keyed(ow), NEW X, NEW ch, NEW T,
         \A u : <<ch, u>> \in DOMAIN ow => (<<ch, u>> \in X <=> u \in T)
  PROVE  RowsFor(Minus(ow, X), ch) = Minus(RowsFor(ow, ch), T)
<1>1. PICK new : new = Minus(ow, X)
  OBVIOUS
<1>2. DOMAIN new = DOMAIN ow \ X /\ \A k \in DOMAIN new : new[k] = ow[k]
  BY <1>1 DEF Minus
<1>3. Keyed(new)
  BY <1>2 DEF Keyed
<1>4. PICK f : f = RowsFor(new, ch)
  OBVIOUS
<1>5. PICK h : h = RowsFor(ow, ch)
  OBVIOUS
<1>6. PICK g : g = Minus(h, T)
  OBVIOUS
<1>7. /\ IsFun(f) /\ \A u : u \in DOMAIN f <=> <<ch, u>> \in DOMAIN new
      /\ \A u \in DOMAIN f : f[u] = new[<<ch, u>>]
  BY <1>3, <1>4, RowsForFacts
<1>8. /\ \A u : u \in DOMAIN h <=> <<ch, u>> \in DOMAIN ow
      /\ \A u \in DOMAIN h : h[u] = ow[<<ch, u>>]
  BY <1>5, RowsForFacts
<1>9. IsFun(g) /\ DOMAIN g = DOMAIN h \ T /\ \A z \in DOMAIN g : g[z] = h[z]
  BY <1>6 DEF Minus, IsFun
<1>10. DOMAIN f = DOMAIN g
  BY <1>2, <1>7, <1>8, <1>9
<1>11. \A u \in DOMAIN f : f[u] = g[u]
  BY <1>2, <1>7, <1>8, <1>9, <1>10
<1> QED BY <1>1, <1>4, <1>5, <1>6, <1>7, <1>9, <1>10, <1>11, FunEqual

LEMMA RowsKept ==
  ASSUME NEW ow, Keyed(ow), NEW X, NEW ch, \A u : <<ch, u>> \notin X
  PROVE  RowsFor(Minus(ow, X), ch) = RowsFor(ow, ch)
<1>1. RowsFor(Minus(ow, X), ch) = Minus(RowsFor(ow, ch), {})
  BY RowsLess
<1>2. \A f : IsFun(f) => Minus(f, {}) = f
  BY DEF IsFun, Minus
<1>3. IsFun(RowsFor(ow, ch))
  BY DEF IsFun, RowsFor
<1> QED BY <1>1, <1>2, <1>3

LEMMA RowsNone ==
  ASSUME NEW ow, Keyed(ow), NEW ch, \A k \in DOMAIN ow : k[1] # ch
  PROVE  RowsFor(ow, ch) = NoRows
BY DEF RowsFor, NoRows

Shaped(d) ==
  d \in [channels : {d.channels}, overwrites : {d.overwrites}, roles : {d.roles}, grants : {d.grants}]

\* The tables: every overwrite belongs to a stored channel.
StoreOK(d) ==
  /\ Shaped(d)
  /\ Keyed(d.overwrites)
  /\ \A k \in DOMAIN d.overwrites : k[1] \in DOMAIN d.channels
  /\ IsFiniteSet(DOMAIN d.channels)

LEMMA LoadedIs ==
  ASSUME NEW d, NEW f, IsFun(f), DOMAIN f = DOMAIN d.channels,
         \A ch \in DOMAIN f : f[ch] = Room(d.channels[ch], RowsFor(d.overwrites, ch))
  PROVE  f = Loaded(d)
<1>1. PICK g : g = [ch \in DOMAIN d.channels |-> Room(d.channels[ch], RowsFor(d.overwrites, ch))]
  OBVIOUS
<1>2. IsFun(g) /\ DOMAIN g = DOMAIN d.channels
      /\ \A ch \in DOMAIN g : g[ch] = Room(d.channels[ch], RowsFor(d.overwrites, ch))
  BY <1>1 DEF IsFun
<1>3. f = g
  BY <1>2, FunEqual
<1> QED BY <1>1, <1>3, LoadedRows

\* What is loaded, channel by channel.
LEMMA LoadedFacts ==
  ASSUME NEW d, NEW f, f = Loaded(d)
  PROVE  /\ IsFun(f) /\ DOMAIN f = DOMAIN d.channels
         /\ \A ch \in DOMAIN f : f[ch] = Room(d.channels[ch], RowsFor(d.overwrites, ch))
<1>1. f = [ch \in DOMAIN d.channels |-> Room(d.channels[ch], RowsFor(d.overwrites, ch))]
  BY LoadedRows
<1> QED BY <1>1 DEF IsFun

LEMMA RoomFacts ==
  /\ \A p, o : Room(p, o).parent = p /\ Room(p, o).overwrites = o
  /\ \A p, o, v : [Room(p, o) EXCEPT !.parent = v] = Room(v, o)
  /\ \A p, o, v : [Room(p, o) EXCEPT !.overwrites = v] = Room(p, v)
BY DEF Room

\* What a command that was stored makes of the tables, memory has yet to do.
Follows(c, e) ==
  /\ StoreOK(e)
  /\ Changed(c) = Loaded(e)
  /\ e.roles = Reroled(c) /\ e.grants = Regranted(c)

Agree == channels = Loaded(disk) /\ roles = disk.roles /\ grants = disk.grants

LEMMA CreateFollows ==
  ASSUME StoreOK(disk), Agree, NEW c, c.op = "create", c.id \notin DOMAIN disk.channels
  PROVE  Follows(c, Written(disk, c))
<1>1. PICK e : e = Written(disk, c)
  OBVIOUS
<1>2. e = [disk EXCEPT !.channels = With(disk.channels, c.id, c.parent)]
  BY <1>1 DEF Written
<1>3. /\ Shaped(e) /\ e.channels = With(disk.channels, c.id, c.parent)
      /\ e.overwrites = disk.overwrites /\ e.roles = disk.roles /\ e.grants = disk.grants
  BY <1>2 DEF Shaped, StoreOK
<1>4. /\ DOMAIN e.channels = DOMAIN disk.channels \cup {c.id} /\ e.channels[c.id] = c.parent
      /\ \A ch \in DOMAIN disk.channels : e.channels[ch] = disk.channels[ch]
  BY <1>3 DEF With
<1>5. StoreOK(e)
  <2>1. IsFiniteSet(DOMAIN disk.channels \cup {c.id})
    BY FS_AddElement DEF StoreOK
  <2> QED BY <1>3, <1>4, <2>1 DEF StoreOK
<1>6. PICK f : f = Changed(c)
  OBVIOUS
<1>7. f = With(channels, c.id, Room(c.parent, NoRows))
  BY <1>6 DEF Changed
<1>8. /\ DOMAIN channels = DOMAIN disk.channels
      /\ \A ch \in DOMAIN channels :
           channels[ch] = Room(disk.channels[ch], RowsFor(disk.overwrites, ch))
  BY LoadedFacts DEF Agree
<1>9. /\ IsFun(f) /\ DOMAIN f = DOMAIN channels \cup {c.id} /\ f[c.id] = Room(c.parent, NoRows)
      /\ \A ch \in DOMAIN channels : ch # c.id => f[ch] = channels[ch]
  BY <1>7 DEF With, IsFun
<1>10. RowsFor(disk.overwrites, c.id) = NoRows
  BY RowsNone DEF StoreOK
<1>11. \A ch \in DOMAIN f : f[ch] = Room(e.channels[ch], RowsFor(e.overwrites, ch))
  BY <1>3, <1>4, <1>8, <1>9, <1>10
<1>12. f = Loaded(e)
  BY <1>4, <1>8, <1>9, <1>11, LoadedIs
<1> QED BY <1>1, <1>3, <1>5, <1>6, <1>12 DEF Follows, Agree, Reroled, Regranted

LEMMA UpdateFollows ==
  ASSUME StoreOK(disk), Agree, NEW c, c.op = "update", c.id \in DOMAIN channels
  PROVE  Follows(c, Written(disk, c))
<1>1. PICK e : e = Written(disk, c)
  OBVIOUS
<1>2. /\ DOMAIN channels = DOMAIN disk.channels /\ IsFun(channels)
      /\ \A ch \in DOMAIN channels :
           channels[ch] = Room(disk.channels[ch], RowsFor(disk.overwrites, ch))
  BY LoadedFacts DEF Agree
<1>3. e = [disk EXCEPT !.channels = [disk.channels EXCEPT ![c.id] = c.parent]]
  BY <1>1, <1>2 DEF Written
<1>4. /\ Shaped(e) /\ e.channels = [disk.channels EXCEPT ![c.id] = c.parent]
      /\ e.overwrites = disk.overwrites /\ e.roles = disk.roles /\ e.grants = disk.grants
  BY <1>3 DEF Shaped, StoreOK
<1>5. /\ DOMAIN e.channels = DOMAIN disk.channels /\ e.channels[c.id] = c.parent
      /\ \A ch \in DOMAIN disk.channels : ch # c.id => e.channels[ch] = disk.channels[ch]
  BY <1>2, <1>4
<1>6. StoreOK(e)
  BY <1>4, <1>5 DEF StoreOK
<1>7. PICK f : f = Changed(c)
  OBVIOUS
<1>8. f = [channels EXCEPT ![c.id] = [channels[c.id] EXCEPT !.parent = c.parent]]
  BY <1>7 DEF Changed, update_channel_mem
<1>9. [channels[c.id] EXCEPT !.parent = c.parent] = Room(c.parent, RowsFor(disk.overwrites, c.id))
  BY <1>2, RoomFacts
<1>10. /\ IsFun(f) /\ DOMAIN f = DOMAIN channels
       /\ f[c.id] = Room(c.parent, RowsFor(disk.overwrites, c.id))
       /\ \A ch \in DOMAIN channels : ch # c.id => f[ch] = channels[ch]
  BY <1>2, <1>8, <1>9 DEF IsFun
<1>11. \A ch \in DOMAIN f : f[ch] = Room(e.channels[ch], RowsFor(e.overwrites, ch))
  BY <1>2, <1>4, <1>5, <1>10
<1>12. f = Loaded(e)
  BY <1>2, <1>5, <1>10, <1>11, LoadedIs
<1> QED BY <1>1, <1>4, <1>6, <1>7, <1>12 DEF Follows, Agree, Reroled, Regranted

LEMMA DeleteFollows ==
  ASSUME StoreOK(disk), Agree, NEW c, c.op = "delete"
  PROVE  Follows(c, Written(disk, c))
<1>1. PICK e : e = Written(disk, c)
  OBVIOUS
<1>2. /\ DOMAIN channels = DOMAIN disk.channels /\ IsFun(channels)
      /\ \A ch \in DOMAIN channels :
           channels[ch] = Room(disk.channels[ch], RowsFor(disk.overwrites, ch))
  BY LoadedFacts DEF Agree
<1>3. e = [disk EXCEPT !.channels = Minus(disk.channels, {c.id}),
                       !.overwrites = Minus(disk.overwrites, RowsOf(c.id))]
  BY <1>1 DEF Written, DeletedChannel
<1>4. /\ Shaped(e) /\ e.channels = Minus(disk.channels, {c.id})
      /\ e.overwrites = Minus(disk.overwrites, RowsOf(c.id))
      /\ e.roles = disk.roles /\ e.grants = disk.grants
  BY <1>3 DEF Shaped, StoreOK
<1>5. /\ DOMAIN e.channels = DOMAIN disk.channels \ {c.id}
      /\ \A ch \in DOMAIN e.channels : e.channels[ch] = disk.channels[ch]
  BY <1>4 DEF Minus
<1>6. DOMAIN e.overwrites = {k \in DOMAIN disk.overwrites : k[1] # c.id}
  BY <1>4 DEF Minus, RowsOf
<1>7. StoreOK(e)
  <2>1. IsFiniteSet(DOMAIN disk.channels \ {c.id})
    BY FS_Subset DEF StoreOK
  <2> QED BY <1>4, <1>5, <1>6, <2>1 DEF StoreOK, Keyed
<1>8. PICK f : f = Changed(c)
  OBVIOUS
<1>9. f = Minus(channels, {c.id})
  BY <1>8 DEF Changed
<1>10. /\ IsFun(f) /\ DOMAIN f = DOMAIN channels \ {c.id}
       /\ \A ch \in DOMAIN f : f[ch] = channels[ch]
  BY <1>9 DEF Minus, IsFun
<1>11. ASSUME NEW ch \in DOMAIN f
       PROVE  f[ch] = Room(e.channels[ch], RowsFor(e.overwrites, ch))
  <2>1. \A u : <<ch, u>> \notin RowsOf(c.id)
    BY <1>10 DEF RowsOf
  <2>2. RowsFor(e.overwrites, ch) = RowsFor(disk.overwrites, ch)
    BY <1>4, <2>1, RowsKept DEF StoreOK
  <2> QED BY <1>2, <1>5, <1>10, <2>2
<1>12. f = Loaded(e)
  BY <1>2, <1>5, <1>10, <1>11, LoadedIs
<1> QED BY <1>1, <1>4, <1>7, <1>8, <1>12 DEF Follows, Agree, Reroled, Regranted

LEMMA SetFollows ==
  ASSUME StoreOK(disk), Agree, NEW c, c.op = "set", c.id \in DOMAIN channels
  PROVE  Follows(c, Written(disk, c))
<1>1. PICK e : e = Written(disk, c)
  OBVIOUS
<1>2. /\ DOMAIN channels = DOMAIN disk.channels /\ IsFun(channels)
      /\ \A ch \in DOMAIN channels :
           channels[ch] = Room(disk.channels[ch], RowsFor(disk.overwrites, ch))
  BY LoadedFacts DEF Agree
<1>3. e = [disk EXCEPT !.overwrites = With(disk.overwrites, <<c.id, c.target>>, c.ow)]
  BY <1>1 DEF Written
<1>4. /\ Shaped(e) /\ e.overwrites = With(disk.overwrites, <<c.id, c.target>>, c.ow)
      /\ e.channels = disk.channels /\ e.roles = disk.roles /\ e.grants = disk.grants
  BY <1>3 DEF Shaped, StoreOK
<1>5. /\ Keyed(e.overwrites)
      /\ RowsFor(e.overwrites, c.id) = With(RowsFor(disk.overwrites, c.id), c.target, c.ow)
      /\ \A ch : ch # c.id => RowsFor(e.overwrites, ch) = RowsFor(disk.overwrites, ch)
  BY <1>4, RowsWith DEF StoreOK
<1>6. StoreOK(e)
  <2>1. DOMAIN e.overwrites = DOMAIN disk.overwrites \cup {<<c.id, c.target>>}
    BY <1>4 DEF With
  <2> QED BY <1>2, <1>4, <1>5, <2>1 DEF StoreOK
<1>7. PICK f : f = Changed(c)
  OBVIOUS
<1>8. f = [channels EXCEPT ![c.id] =
             [channels[c.id] EXCEPT !.overwrites = With(channels[c.id].overwrites, c.target, c.ow)]]
  BY <1>7 DEF Changed
<1>9. [channels[c.id] EXCEPT !.overwrites = With(channels[c.id].overwrites, c.target, c.ow)]
        = Room(disk.channels[c.id], RowsFor(e.overwrites, c.id))
  BY <1>2, <1>5, RoomFacts
<1>10. /\ IsFun(f) /\ DOMAIN f = DOMAIN channels
       /\ f[c.id] = Room(disk.channels[c.id], RowsFor(e.overwrites, c.id))
       /\ \A ch \in DOMAIN channels : ch # c.id => f[ch] = channels[ch]
  BY <1>2, <1>8, <1>9 DEF IsFun
<1>11. \A ch \in DOMAIN f : f[ch] = Room(e.channels[ch], RowsFor(e.overwrites, ch))
  BY <1>2, <1>4, <1>5, <1>10
<1>12. f = Loaded(e)
  BY <1>2, <1>4, <1>10, <1>11, LoadedIs
<1> QED BY <1>1, <1>4, <1>6, <1>7, <1>12 DEF Follows, Agree, Reroled, Regranted

LEMMA UnsetFollows ==
  ASSUME StoreOK(disk), Agree, NEW c, c.op = "unset", c.id \in DOMAIN channels
  PROVE  Follows(c, Written(disk, c))
<1>1. PICK e : e = Written(disk, c)
  OBVIOUS
<1>2. /\ DOMAIN channels = DOMAIN disk.channels /\ IsFun(channels)
      /\ \A ch \in DOMAIN channels :
           channels[ch] = Room(disk.channels[ch], RowsFor(disk.overwrites, ch))
  BY LoadedFacts DEF Agree
<1>3. e = [disk EXCEPT !.overwrites = Minus(disk.overwrites, {<<c.id, c.target>>})]
  BY <1>1 DEF Written
<1>4. /\ Shaped(e) /\ e.overwrites = Minus(disk.overwrites, {<<c.id, c.target>>})
      /\ e.channels = disk.channels /\ e.roles = disk.roles /\ e.grants = disk.grants
  BY <1>3 DEF Shaped, StoreOK
<1>5. /\ RowsFor(e.overwrites, c.id) = Minus(RowsFor(disk.overwrites, c.id), {c.target})
      /\ \A ch : ch # c.id => RowsFor(e.overwrites, ch) = RowsFor(disk.overwrites, ch)
  <2>1. \A u : <<c.id, u>> \in DOMAIN disk.overwrites =>
               (<<c.id, u>> \in {<<c.id, c.target>>} <=> u \in {c.target})
    OBVIOUS
  <2>2. RowsFor(e.overwrites, c.id) = Minus(RowsFor(disk.overwrites, c.id), {c.target})
    BY <1>4, <2>1, RowsLess DEF StoreOK
  <2>3. ASSUME NEW ch, ch # c.id PROVE RowsFor(e.overwrites, ch) = RowsFor(disk.overwrites, ch)
    <3>1. \A u : <<ch, u>> \notin {<<c.id, c.target>>}
      BY <2>3
    <3> QED BY <1>4, <3>1, RowsKept DEF StoreOK
  <2> QED BY <2>2, <2>3
<1>6. StoreOK(e)
  <2>1. DOMAIN e.overwrites \subseteq DOMAIN disk.overwrites
    BY <1>4 DEF Minus
  <2> QED BY <1>4, <2>1 DEF StoreOK, Keyed
<1>7. PICK f : f = Changed(c)
  OBVIOUS
<1>8. f = [channels EXCEPT ![c.id] =
             [channels[c.id] EXCEPT !.overwrites = Minus(channels[c.id].overwrites, {c.target})]]
  BY <1>7 DEF Changed
<1>9. [channels[c.id] EXCEPT !.overwrites = Minus(channels[c.id].overwrites, {c.target})]
        = Room(disk.channels[c.id], RowsFor(e.overwrites, c.id))
  BY <1>2, <1>5, RoomFacts
<1>10. /\ IsFun(f) /\ DOMAIN f = DOMAIN channels
       /\ f[c.id] = Room(disk.channels[c.id], RowsFor(e.overwrites, c.id))
       /\ \A ch \in DOMAIN channels : ch # c.id => f[ch] = channels[ch]
  BY <1>2, <1>8, <1>9 DEF IsFun
<1>11. \A ch \in DOMAIN f : f[ch] = Room(e.channels[ch], RowsFor(e.overwrites, ch))
  BY <1>2, <1>4, <1>5, <1>10
<1>12. f = Loaded(e)
  BY <1>2, <1>4, <1>10, <1>11, LoadedIs
<1> QED BY <1>1, <1>4, <1>6, <1>7, <1>12 DEF Follows, Agree, Reroled, Regranted

LEMMA UnroleFollows ==
  ASSUME StoreOK(disk), Agree, NEW c, c.op = "unrole"
  PROVE  Follows(c, Written(disk, c))
<1>1. PICK e : e = Written(disk, c)
  OBVIOUS
<1>2. /\ DOMAIN channels = DOMAIN disk.channels /\ IsFun(channels)
      /\ \A ch \in DOMAIN channels :
           channels[ch] = Room(disk.channels[ch], RowsFor(disk.overwrites, ch))
  BY LoadedFacts DEF Agree
<1>3. PICK target : target = RoleTarget(c.id)
  OBVIOUS
<1>4. PICK less : less = [s \in Session |-> disk.grants[s] \ {c.id}]
  OBVIOUS
<1>5. e = [disk EXCEPT !.roles = Minus(disk.roles, {c.id}),
                       !.overwrites = Minus(disk.overwrites, RowsNaming(c.id)), !.grants = less]
  BY <1>1, <1>4 DEF Written
<1>6. /\ Shaped(e) /\ e.overwrites = Minus(disk.overwrites, RowsNaming(c.id))
      /\ e.channels = disk.channels /\ e.roles = Minus(disk.roles, {c.id}) /\ e.grants = less
  BY <1>5 DEF Shaped, StoreOK
<1>7. ASSUME NEW ch
      PROVE  RowsFor(e.overwrites, ch) = Minus(RowsFor(disk.overwrites, ch), {target})
  <2>1. \A u : <<ch, u>> \in DOMAIN disk.overwrites =>
               (<<ch, u>> \in RowsNaming(c.id) <=> u \in {target})
    BY <1>3 DEF RowsNaming
  <2> QED BY <1>6, <2>1, RowsLess DEF StoreOK
<1>8. StoreOK(e)
  <2>1. DOMAIN e.overwrites \subseteq DOMAIN disk.overwrites
    BY <1>6 DEF Minus
  <2> QED BY <1>6, <2>1 DEF StoreOK, Keyed
<1>9. PICK f : f = Changed(c)
  OBVIOUS
<1>10. f = [ch \in DOMAIN channels |->
              [channels[ch] EXCEPT !.overwrites = Minus(channels[ch].overwrites, {target})]]
  BY <1>3, <1>9 DEF Changed, Stripped
<1>11. \A ch \in DOMAIN channels :
         [channels[ch] EXCEPT !.overwrites = Minus(channels[ch].overwrites, {target})]
           = Room(disk.channels[ch], RowsFor(e.overwrites, ch))
  BY <1>2, <1>7, RoomFacts
<1>12. /\ IsFun(f) /\ DOMAIN f = DOMAIN channels
       /\ \A ch \in DOMAIN f : f[ch] = Room(e.channels[ch], RowsFor(e.overwrites, ch))
  BY <1>6, <1>10, <1>11 DEF IsFun
<1>13. f = Loaded(e)
  BY <1>2, <1>6, <1>12, LoadedIs
<1> QED BY <1>1, <1>4, <1>6, <1>8, <1>9, <1>13 DEF Follows, Agree, Reroled, Regranted

LEMMA GrantFollows ==
  ASSUME StoreOK(disk), Agree, NEW c, c.op = "grant"
  PROVE  Follows(c, Written(disk, c))
<1>1. PICK e : e = Written(disk, c)
  OBVIOUS
<1>2. PICK g : g = [disk.grants EXCEPT ![c.who] = c.ids]
  OBVIOUS
<1>3. e = [disk EXCEPT !.grants = g]
  BY <1>1, <1>2 DEF Written
<1>4. /\ Shaped(e) /\ e.overwrites = disk.overwrites
      /\ e.channels = disk.channels /\ e.roles = disk.roles /\ e.grants = g
  BY <1>3 DEF Shaped, StoreOK
<1>5. StoreOK(e)
  BY <1>4 DEF StoreOK
<1>6. Changed(c) = channels
  BY DEF Changed
<1>7. Loaded(e) = Loaded(disk)
  BY <1>4 DEF Loaded
<1> QED BY <1>1, <1>2, <1>4, <1>5, <1>6, <1>7 DEF Follows, Agree, Reroled, Regranted

LEMMA ReroleFollows ==
  ASSUME StoreOK(disk), Agree, NEW c, c.op = "rerole"
  PROVE  Follows(c, Written(disk, c))
<1>1. PICK e : e = Written(disk, c)
  OBVIOUS
<1>2. PICK g : g = IF c.id \in DOMAIN disk.roles THEN [disk.roles EXCEPT ![c.id] = c.role] ELSE disk.roles
  OBVIOUS
<1>3. e = [disk EXCEPT !.roles = g] \/ (e = disk /\ g = disk.roles)
  BY <1>1, <1>2 DEF Written
<1>4. /\ Shaped(e) /\ e.overwrites = disk.overwrites
      /\ e.channels = disk.channels /\ e.roles = g /\ e.grants = disk.grants
  BY <1>3 DEF Shaped, StoreOK
<1>5. StoreOK(e)
  BY <1>4 DEF StoreOK
<1>6. Changed(c) = channels /\ Reroled(c) = g /\ Regranted(c) = grants
  BY <1>2 DEF Changed, Reroled, Regranted, Agree
<1>7. Loaded(e) = Loaded(disk)
  BY <1>4 DEF Loaded
<1> QED BY <1>1, <1>4, <1>5, <1>6, <1>7 DEF Follows, Agree

-----------------------------------------------------------------------------
(* Frames *)

\* Every member of S is somewhere in q.
Lists(q, S) == q \in Seq(S) /\ \A y \in S : \E i \in 1 .. Len(q) : q[i] = y

\* A finite set, listed.
LEMMA ListsSet ==
  ASSUME NEW S, IsFiniteSet(S)
  PROVE  Lists(SetToSeq(S), S)
<1>1. PICK n \in Nat : ExistsBijection(1..n, S)
  BY FS_NatBijection
<1>2. Cardinality(S) = n
  BY <1>1, FS_CountingElements
<1>3. \E f \in [1..n -> S] : IsInjective(f)
  BY <1>1 DEF ExistsBijection, Bijection, Injection
<1>4. PICK q : q = CHOOSE f \in [1..Cardinality(S) -> S] : IsInjective(f)
  OBVIOUS
<1>5. q \in [1..n -> S] /\ IsInjective(q)
  BY <1>2, <1>3, <1>4, Zenon
<1>6. q \in Seq(S) /\ Len(q) = n
  BY <1>5
<1>7. q \in Surjection(1..n, S)
  <2>1. q \in Injection(1..n, S)
    BY <1>5 DEF Injection
  <2>2. Cardinality(1..n) = n
    BY <1>1, <1>2, FS_Interval
  <2> QED BY <1>2, <2>1, <2>2, FS_Injection
<1>8. \A y \in S : \E i \in 1 .. Len(q) : q[i] = y
  BY <1>6, <1>7 DEF Surjection
<1> QED BY <1>4, <1>6, <1>8 DEF SetToSeq, Lists

\* Two lists, one after the other.
LEMMA ListsBoth ==
  ASSUME NEW q, NEW S, Lists(q, S), NEW r, NEW U, Lists(r, U)
  PROVE  Lists(q \o r, S \cup U)
<1>1. q \in Seq(S \cup U) /\ r \in Seq(S \cup U)
  BY DEF Lists
<1>2. PICK z : z = q \o r
  OBVIOUS
<1>3. /\ z \in Seq(S \cup U) /\ Len(z) = Len(q) + Len(r) /\ Len(q) \in Nat /\ Len(r) \in Nat
      /\ \A i \in 1 .. Len(q) : z[i] = q[i]
      /\ \A i \in 1 .. Len(r) : z[Len(q) + i] = r[i]
  BY <1>1, <1>2
<1>4. ASSUME NEW y \in S PROVE \E i \in 1 .. Len(z) : z[i] = y
  <2>1. PICK i \in 1 .. Len(q) : q[i] = y
    BY DEF Lists
  <2>2. i \in 1 .. Len(z)
    BY <1>3
  <2> QED BY <1>3, <2>1, <2>2
<1>5. ASSUME NEW y \in U PROVE \E i \in 1 .. Len(z) : z[i] = y
  <2>1. PICK i \in 1 .. Len(r) : r[i] = y
    BY DEF Lists
  <2>2. Len(q) + i \in 1 .. Len(z)
    BY <1>3
  <2> QED BY <1>3, <2>1, <2>2
<1> QED BY <1>2, <1>3, <1>4, <1>5 DEF Lists

\* What a command broadcasts, as a set.
AnnouncedSet(c) ==
  CASE c.op = "unrole" -> {RoleDeleted(c.id)} \cup {UserUpdated(s, grants[s] \ {c.id}) :
                                                      s \in {h \in online : c.id \in grants[h]}}
    [] c.op = "rerole" -> {RoleUpdated(c.id, c.role)}
    [] c.op = "grant" /\ c.who \in online -> {UserUpdated(c.who, c.ids)}
    [] OTHER -> {}

LEMMA AnnouncedLists ==
  ASSUME NEW c, IsFiniteSet(online)
  PROVE  Lists(Announced(c), AnnouncedSet(c))
<1>1. \A y : Lists(<<y>>, {y})
  <2> SUFFICES ASSUME NEW y PROVE Lists(<<y>>, {y})
    OBVIOUS
  <2>1. <<y>> \in Seq({y}) /\ Len(<<y>>) = 1 /\ <<y>>[1] = y /\ 1 \in 1 .. 1
    OBVIOUS
  <2> QED BY <2>1 DEF Lists
<1>2. Lists(<<>>, {})
  BY DEF Lists
<1>3. CASE c.op = "unrole"
  <2>1. PICK H : H = {h \in online : c.id \in grants[h]}
    OBVIOUS
  <2>2. PICK M : M = {UserUpdated(s, grants[s] \ {c.id}) : s \in H}
    OBVIOUS
  <2>3. IsFiniteSet(M)
    <3>1. IsFiniteSet(H)
      BY <2>1, FS_Subset
    <3>2. PICK f : f = [s \in H |-> UserUpdated(s, grants[s] \ {c.id})]
      OBVIOUS
    <3>3. f \in Surjection(H, M)
      BY <2>2, <3>2 DEF Surjection
    <3> QED BY <3>1, <3>3, FS_Surjection
  <2>4. Lists(SetToSeq(M), M)
    BY <2>3, ListsSet
  <2>5. Announced(c) = <<RoleDeleted(c.id)>> \o SetToSeq(M)
    BY <1>3, <2>1, <2>2 DEF Announced
  <2>6. AnnouncedSet(c) = {RoleDeleted(c.id)} \cup M
    BY <1>3, <2>1, <2>2 DEF AnnouncedSet
  <2>7. PICK u, v : u = <<RoleDeleted(c.id)>> /\ v = SetToSeq(M)
    OBVIOUS
  <2>8. Lists(u, {RoleDeleted(c.id)}) /\ Lists(v, M)
    BY <1>1, <2>4, <2>7
  <2>9. Lists(u \o v, {RoleDeleted(c.id)} \cup M)
    BY <2>8, ListsBoth
  <2> QED BY <2>5, <2>6, <2>7, <2>9
<1>4. CASE c.op = "rerole"
  <2>1. Announced(c) = <<RoleUpdated(c.id, c.role)>> /\ AnnouncedSet(c) = {RoleUpdated(c.id, c.role)}
    BY <1>4 DEF Announced, AnnouncedSet
  <2> QED BY <1>1, <2>1
<1>5. CASE c.op = "grant" /\ c.who \in online
  <2>1. Announced(c) = <<UserUpdated(c.who, c.ids)>> /\ AnnouncedSet(c) = {UserUpdated(c.who, c.ids)}
    BY <1>5 DEF Announced, AnnouncedSet
  <2> QED BY <1>1, <2>1
<1>6. CASE ~ (c.op \in {"unrole", "rerole"} \/ (c.op = "grant" /\ c.who \in online))
  <2>1. Announced(c) = <<>> /\ AnnouncedSet(c) = {}
    BY <1>6 DEF Announced, AnnouncedSet
  <2> QED BY <1>2, <2>1
<1> QED BY <1>3, <1>4, <1>5, <1>6

\* The frames of resync_visibility for one client, as sets.
Gained(s, b) ==
  {ChannelCreated(ch, b.rooms[ch]) : ch \in (b.after[s] \ b.before[s]) \cap DOMAIN b.rooms}
Lost(s, b) == {ChannelRemoved(ch) : ch \in b.before[s] \ b.after[s]}
Kept(s, b) ==
  {ChannelUpdated(ch, b.rooms[ch]) :
     ch \in b.touched \cap b.before[s] \cap b.after[s] \cap DOMAIN b.rooms}
DifferenceSet(s, b) == Gained(s, b) \cup Lost(s, b) \cup Kept(s, b)

LEMMA DifferenceLists ==
  ASSUME NEW s, NEW b, IsFiniteSet(DOMAIN b.rooms), IsFiniteSet(b.before[s])
  PROVE  Lists(Difference(s, b), DifferenceSet(s, b))
<1>1. PICK now : now = b.after[s]
  OBVIOUS
<1>2. PICK was : was = b.before[s]
  OBVIOUS
<1>3. PICK D, M, E : /\ D = (now \ was) \cap DOMAIN b.rooms /\ M = was \ now
                     /\ E = b.touched \cap was \cap now \cap DOMAIN b.rooms
  OBVIOUS
<1>4. IsFiniteSet(D) /\ IsFiniteSet(M) /\ IsFiniteSet(E)
  <2>1. D \subseteq DOMAIN b.rooms /\ M \subseteq was /\ E \subseteq was
    BY <1>3
  <2> QED BY <1>2, <2>1, FS_Subset
<1>5. PICK made : made = {ChannelCreated(ch, b.rooms[ch]) : ch \in D}
  OBVIOUS
<1>6. PICK gone : gone = {ChannelRemoved(ch) : ch \in M}
  OBVIOUS
<1>7. PICK kept : kept = {ChannelUpdated(ch, b.rooms[ch]) : ch \in E}
  OBVIOUS
<1>8. IsFiniteSet(made)
  <2>1. PICK f : f = [ch \in D |-> ChannelCreated(ch, b.rooms[ch])]
    OBVIOUS
  <2>2. f \in Surjection(D, made)
    BY <1>5, <2>1 DEF Surjection
  <2> QED BY <1>4, <2>2, FS_Surjection
<1>9. IsFiniteSet(gone)
  <2>1. PICK f : f = [ch \in M |-> ChannelRemoved(ch)]
    OBVIOUS
  <2>2. f \in Surjection(M, gone)
    BY <1>6, <2>1 DEF Surjection
  <2> QED BY <1>4, <2>2, FS_Surjection
<1>10. IsFiniteSet(kept)
  <2>1. PICK f : f = [ch \in E |-> ChannelUpdated(ch, b.rooms[ch])]
    OBVIOUS
  <2>2. f \in Surjection(E, kept)
    BY <1>7, <2>1 DEF Surjection
  <2> QED BY <1>4, <2>2, FS_Surjection
<1>11. PICK x : x = SetToSeq(made) /\ Lists(x, made)
  BY <1>8, ListsSet
<1>12. PICK y : y = SetToSeq(gone) /\ Lists(y, gone)
  BY <1>9, ListsSet
<1>13. PICK z : z = SetToSeq(kept) /\ Lists(z, kept)
  BY <1>10, ListsSet
<1>14. Difference(s, b) = (x \o y) \o z
  BY <1>1, <1>2, <1>3, <1>5, <1>6, <1>7, <1>11, <1>12, <1>13 DEF Difference
<1>15. Lists((x \o y) \o z, (made \cup gone) \cup kept)
  BY <1>11, <1>12, <1>13, ListsBoth
<1>16. DifferenceSet(s, b) = (made \cup gone) \cup kept
  BY <1>1, <1>2, <1>3, <1>5, <1>6, <1>7 DEF DifferenceSet, Gained, Lost, Kept
<1> QED BY <1>14, <1>15, <1>16

\* The kinds of frames, and what the members of the sets above say.
Kinds == {"created", "updated", "removed", "roleUpdated", "roleDeleted", "mine"}

LEMMA DifferenceIs ==
  ASSUME NEW s, NEW b, NEW f \in DifferenceSet(s, b)
  PROVE  \/ f.k = "created" /\ f.id \in b.after[s] /\ f.room = b.rooms[f.id]
         \/ f.k = "removed" /\ f.id \notin b.after[s]
         \/ f.k = "updated" /\ f.id \in b.after[s] /\ f.room = b.rooms[f.id]
<1>1. CASE f \in Gained(s, b)
  <2>1. PICK ch \in b.after[s] : f = ChannelCreated(ch, b.rooms[ch])
    BY <1>1 DEF Gained
  <2> QED BY <2>1 DEF ChannelCreated
<1>2. CASE f \in Lost(s, b)
  <2>1. PICK ch : ch \notin b.after[s] /\ f = ChannelRemoved(ch)
    BY <1>2 DEF Lost
  <2> QED BY <2>1 DEF ChannelRemoved
<1>3. CASE f \in Kept(s, b)
  <2>1. PICK ch \in b.after[s] : f = ChannelUpdated(ch, b.rooms[ch])
    BY <1>3 DEF Kept
  <2> QED BY <2>1 DEF ChannelUpdated
<1> QED BY <1>1, <1>2, <1>3 DEF DifferenceSet

LEMMA AnnouncedIs ==
  ASSUME NEW c, NEW f \in AnnouncedSet(c)
  PROVE  \/ c.op = "unrole" /\ f.k = "roleDeleted" /\ f.id = c.id
         \/ c.op = "unrole" /\ f.k = "mine" /\ f.who \in online /\ f.ids = grants[f.who] \ {c.id}
         \/ c.op = "rerole" /\ f.k = "roleUpdated" /\ f.id = c.id /\ f.role = c.role
         \/ c.op = "grant" /\ f.k = "mine" /\ f.who = c.who /\ f.who \in online /\ f.ids = c.ids
<1>1. CASE c.op = "unrole" /\ f = RoleDeleted(c.id)
  BY <1>1 DEF RoleDeleted
<1>2. ASSUME NEW s \in online, c.op = "unrole", f = UserUpdated(s, grants[s] \ {c.id})
      PROVE  c.op = "unrole" /\ f.k = "mine" /\ f.who \in online /\ f.ids = grants[f.who] \ {c.id}
  BY <1>2 DEF UserUpdated
<1>3. CASE c.op = "rerole" /\ f = RoleUpdated(c.id, c.role)
  BY <1>3 DEF RoleUpdated
<1>4. CASE c.op = "grant" /\ c.who \in online /\ f = UserUpdated(c.who, c.ids)
  BY <1>4 DEF UserUpdated
<1>5. \/ c.op = "unrole" /\ f = RoleDeleted(c.id)
      \/ c.op = "unrole" /\ \E s \in online : f = UserUpdated(s, grants[s] \ {c.id})
      \/ c.op = "rerole" /\ f = RoleUpdated(c.id, c.role)
      \/ c.op = "grant" /\ c.who \in online /\ f = UserUpdated(c.who, c.ids)
  BY DEF AnnouncedSet
<1> QED BY <1>1, <1>2, <1>3, <1>4, <1>5

-----------------------------------------------------------------------------
(* Commands in flight *)

Job(c, st, w, t, y, f, r) ==
  [cmd |-> c, stage |-> st, before |-> w, touched |-> t, say |-> y, after |-> f, rooms |-> r]
IsJob(b) == b = Job(b.cmd, b.stage, b.before, b.touched, b.say, b.after, b.rooms)

Ops == ChannelOps \cup {"set", "unset", "unrole", "rerole", "grant"}

FramesOK(q) == \A i \in 1 .. Len(q) : q[i].k \in Kinds

\* A command in flight: what it snapshots, copies and has yet to say is finite.
InFlight(b) ==
  /\ IsJob(b) /\ b.cmd.op \in Ops
  /\ \A s \in DOMAIN b.before : IsFiniteSet(b.before[s])
  /\ FramesOK(b.say) /\ \E Y : b.say \in Seq(Y)
  /\ b.stage = "send" => IsFiniteSet(DOMAIN b.rooms)

FrameInv ==
  /\ Shaped(disk) /\ IsFiniteSet(DOMAIN disk.channels) /\ IsFiniteSet(DOMAIN channels)
  /\ online \subseteq Session
  /\ DOMAIN busy = Session /\ DOMAIN queue = Session
  /\ \A s \in Session : \E S : queue[s] \in Seq(S)
  /\ \A a \in Session : busy[a] # NoCommand => InFlight(busy[a])

\* a has come to j, and nobody else's command has moved.
Turned(a, j) ==
  DOMAIN busy' = Session /\ busy'[a] = j /\ \A b \in Session : b # a => busy'[b] = busy[b]

LEMMA JobIs ==
  ASSUME NEW c, NEW st, NEW w, NEW t, NEW y, NEW f, NEW r, NEW b, b = Job(c, st, w, t, y, f, r)
  PROVE  /\ b.cmd = c /\ b.stage = st /\ b.before = w /\ b.touched = t
         /\ b.say = y /\ b.after = f /\ b.rooms = r /\ IsJob(b) /\ b # NoCommand
<1>1. /\ b.cmd = c /\ b.stage = st /\ b.before = w /\ b.touched = t
      /\ b.say = y /\ b.after = f /\ b.rooms = r
  BY DEF Job
<1>2. b # NoCommand
  BY DEF Job, NoCommand
<1> QED BY <1>1, <1>2 DEF IsJob

LEMMA WrittenShape ==
  ASSUME Shaped(disk), IsFiniteSet(DOMAIN disk.channels), NEW c, c.op \in Ops,
         NEW e, e = Written(disk, c)
  PROVE  Shaped(e) /\ IsFiniteSet(DOMAIN e.channels)
<1>1. CASE c.op = "create"
  <2>1. e = [disk EXCEPT !.channels = With(disk.channels, c.id, c.parent)]
    BY <1>1 DEF Written
  <2>2. Shaped(e) /\ e.channels = With(disk.channels, c.id, c.parent)
    BY <2>1 DEF Shaped
  <2>3. IsFiniteSet(DOMAIN disk.channels \cup {c.id})
    BY FS_AddElement
  <2> QED BY <2>2, <2>3 DEF With
<1>2. CASE c.op = "update"
  <2>1. CASE c.id \in DOMAIN disk.channels
    <3>1. e = [disk EXCEPT !.channels = [disk.channels EXCEPT ![c.id] = c.parent]]
      BY <1>2, <2>1 DEF Written
    <3>2. Shaped(e) /\ e.channels = [disk.channels EXCEPT ![c.id] = c.parent]
      BY <3>1 DEF Shaped
    <3> QED BY <3>2
  <2>2. CASE c.id \notin DOMAIN disk.channels
    BY <1>2, <2>2 DEF Written
  <2> QED BY <2>1, <2>2
<1>3. CASE c.op = "delete"
  <2>1. e = [disk EXCEPT !.channels = Minus(disk.channels, {c.id}),
                         !.overwrites = Minus(disk.overwrites, RowsOf(c.id))]
    BY <1>3 DEF Written, DeletedChannel
  <2>2. Shaped(e) /\ e.channels = Minus(disk.channels, {c.id})
    BY <2>1 DEF Shaped
  <2>3. IsFiniteSet(DOMAIN disk.channels \ {c.id})
    BY FS_Subset
  <2> QED BY <2>2, <2>3 DEF Minus
<1>4. CASE c.op = "set"
  <2>1. e = [disk EXCEPT !.overwrites = With(disk.overwrites, <<c.id, c.target>>, c.ow)]
    BY <1>4 DEF Written
  <2> QED BY <2>1 DEF Shaped
<1>5. CASE c.op = "unset"
  <2>1. e = [disk EXCEPT !.overwrites = Minus(disk.overwrites, {<<c.id, c.target>>})]
    BY <1>5 DEF Written
  <2> QED BY <2>1 DEF Shaped
<1>6. CASE c.op = "unrole"
  <2>1. PICK less : less = [s \in Session |-> disk.grants[s] \ {c.id}]
    OBVIOUS
  <2>2. e = [disk EXCEPT !.roles = Minus(disk.roles, {c.id}),
                         !.overwrites = Minus(disk.overwrites, RowsNaming(c.id)), !.grants = less]
    BY <1>6, <2>1 DEF Written
  <2> QED BY <2>2 DEF Shaped
<1>7. CASE c.op = "grant"
  <2>1. PICK g : g = [disk.grants EXCEPT ![c.who] = c.ids]
    OBVIOUS
  <2>2. e = [disk EXCEPT !.grants = g]
    BY <1>7, <2>1 DEF Written
  <2> QED BY <2>2 DEF Shaped
<1>8. CASE c.op = "rerole"
  <2>1. e = disk \/ \E v : e = [disk EXCEPT !.roles = v]
    BY <1>8 DEF Written
  <2> QED BY <2>1 DEF Shaped
<1> QED BY <1>1, <1>2, <1>3, <1>4, <1>5, <1>6, <1>7, <1>8 DEF Ops, ChannelOps

LEMMA ChangedFinite ==
  ASSUME IsFiniteSet(DOMAIN channels), NEW c
  PROVE  IsFiniteSet(DOMAIN Changed(c))
<1>1. CASE c.op = "create"
  <2>1. DOMAIN Changed(c) = DOMAIN channels \cup {c.id}
    BY <1>1 DEF Changed, With
  <2> QED BY <2>1, FS_AddElement
<1>2. CASE c.op = "delete"
  <2>1. DOMAIN Changed(c) = DOMAIN channels \ {c.id}
    BY <1>2 DEF Changed, Minus
  <2> QED BY <2>1, FS_Subset
<1>3. CASE c.op # "create" /\ c.op # "delete"
  <2>1. DOMAIN Changed(c) = DOMAIN channels
    BY <1>3 DEF Changed, Stripped, update_channel_mem
  <2> QED BY <2>1
<1> QED BY <1>1, <1>2, <1>3

LEMMA SnapshotFinite ==
  ASSUME IsFiniteSet(DOMAIN channels)
  PROVE  \A s \in DOMAIN Snapshot : IsFiniteSet(Snapshot[s])
<1>1. \A s \in DOMAIN Snapshot : Snapshot[s] \subseteq DOMAIN channels
  BY DEF Snapshot, Visible
<1> QED BY <1>1, FS_Subset

LEMMA OnlineFinite ==
  ASSUME FrameInv
  PROVE  IsFiniteSet(online)
BY FS_Subset, ChannelsAssumption DEF FrameInv

\* What the steps of a command make of it.
LEMMA StoreMoves ==
  ASSUME FrameInv, NEW a \in Session, Store(a), NEW b, b = busy[a]
  PROVE  /\ InFlight(b) /\ b # NoCommand /\ b.stage = "store"
         /\ disk' = Written(disk, b.cmd) /\ ~ Conflicts(b.cmd)
         /\ Turned(a, Job(b.cmd, "memory", IF b.cmd.op \in ChannelOps THEN Snapshot ELSE b.before,
                          b.touched, b.say, b.after, b.rooms))
<1>1. b # NoCommand /\ b.stage = "store" /\ disk' = Written(disk, b.cmd) /\ ~ Conflicts(b.cmd)
  BY DEF Store
<1>2. InFlight(b)
  BY <1>1 DEF FrameInv
<1>3. PICK w : w = IF b.cmd.op \in ChannelOps THEN Snapshot ELSE b.before
  OBVIOUS
<1>4. PICK f, g : f = busy /\ g = busy'
  OBVIOUS
<1>5. g = [f EXCEPT ![a].stage = "memory", ![a].before = w]
  BY <1>3, <1>4 DEF Store
<1>6. a \in DOMAIN f /\ f[a] = b /\ DOMAIN f = Session
  BY <1>4 DEF FrameInv
<1>7. g = [f EXCEPT ![a] = [[b EXCEPT !.stage = "memory"] EXCEPT !.before = w]]
  BY <1>5, <1>6
<1>8. PICK d : d = [b EXCEPT !.stage = "memory"]
  OBVIOUS
<1>9. d = Job(b.cmd, "memory", b.before, b.touched, b.say, b.after, b.rooms)
  BY <1>2, <1>8 DEF InFlight, IsJob, Job
<1>10. [d EXCEPT !.before = w] = Job(b.cmd, "memory", w, b.touched, b.say, b.after, b.rooms)
  BY <1>9 DEF Job
<1>11. PICK j : j = Job(b.cmd, "memory", w, b.touched, b.say, b.after, b.rooms)
  OBVIOUS
<1>12. g = [f EXCEPT ![a] = j]
  BY <1>7, <1>8, <1>10, <1>11
<1>13. Turned(a, j)
  BY <1>4, <1>6, <1>12 DEF Turned
<1> QED BY <1>1, <1>2, <1>3, <1>11, <1>13

LEMMA MemoryMoves ==
  ASSUME FrameInv, NEW a \in Session, Memory(a), NEW b, b = busy[a]
  PROVE  /\ InFlight(b) /\ b # NoCommand /\ b.stage = "memory"
         /\ channels' = Changed(b.cmd) /\ roles' = Reroled(b.cmd) /\ grants' = Regranted(b.cmd)
         /\ raced' = raced \cup (greeted \ DOMAIN b.before)
         /\ Turned(a, Job(b.cmd, "announce", b.before, Touched(b.cmd), Announced(b.cmd),
                          b.after, b.rooms))
<1>1. /\ b # NoCommand /\ b.stage = "memory"
      /\ channels' = Changed(b.cmd) /\ roles' = Reroled(b.cmd) /\ grants' = Regranted(b.cmd)
      /\ raced' = raced \cup (greeted \ DOMAIN b.before)
  BY DEF Memory
<1>2. InFlight(b)
  BY <1>1 DEF FrameInv
<1>3. PICK t, y : t = Touched(b.cmd) /\ y = Announced(b.cmd)
  OBVIOUS
<1>4. PICK f, g : f = busy /\ g = busy'
  OBVIOUS
<1>5. g = [f EXCEPT ![a].stage = "announce", ![a].touched = t, ![a].say = y]
  BY <1>3, <1>4 DEF Memory
<1>6. a \in DOMAIN f /\ f[a] = b /\ DOMAIN f = Session
  BY <1>4 DEF FrameInv
<1>7. PICK d, e : d = [b EXCEPT !.stage = "announce"] /\ e = [d EXCEPT !.touched = t]
  OBVIOUS
<1>8. g = [f EXCEPT ![a] = [e EXCEPT !.say = y]]
  BY <1>5, <1>6, <1>7
<1>9. d = Job(b.cmd, "announce", b.before, b.touched, b.say, b.after, b.rooms)
  BY <1>2, <1>7 DEF InFlight, IsJob, Job
<1>10. e = Job(b.cmd, "announce", b.before, t, b.say, b.after, b.rooms)
  BY <1>7, <1>9 DEF Job
<1>11. PICK j : j = Job(b.cmd, "announce", b.before, t, y, b.after, b.rooms)
  OBVIOUS
<1>12. [e EXCEPT !.say = y] = j
  BY <1>10, <1>11 DEF Job
<1>13. Turned(a, j)
  BY <1>4, <1>6, <1>8, <1>12 DEF Turned
<1> QED BY <1>1, <1>2, <1>3, <1>11, <1>13

LEMMA AnnounceMoves ==
  ASSUME FrameInv, NEW a \in Session, Announce(a), NEW b, b = busy[a]
  PROVE  /\ InFlight(b) /\ b # NoCommand /\ b.stage = "announce" /\ b.say # <<>>
         /\ Turned(a, Job(b.cmd, "announce", b.before, b.touched, Tail(b.say), b.after, b.rooms))
<1>1. b # NoCommand /\ b.stage = "announce" /\ b.say # <<>>
  BY DEF Announce
<1>2. InFlight(b)
  BY <1>1 DEF FrameInv
<1>3. PICK f, g : f = busy /\ g = busy'
  OBVIOUS
<1>4. a \in DOMAIN f /\ f[a] = b /\ DOMAIN f = Session
  BY <1>3 DEF FrameInv
<1>5. PICK y : y = Tail(b.say)
  OBVIOUS
<1>6. g = [f EXCEPT ![a] = [b EXCEPT !.say = y]]
  BY <1>3, <1>4, <1>5 DEF Announce
<1>7. [b EXCEPT !.say = y] = Job(b.cmd, "announce", b.before, b.touched, y, b.after, b.rooms)
  BY <1>1, <1>2 DEF InFlight, IsJob, Job
<1>8. Turned(a, [b EXCEPT !.say = y])
  BY <1>3, <1>4, <1>6 DEF Turned
<1> QED BY <1>1, <1>2, <1>5, <1>7, <1>8

LEMMA AfterMoves ==
  ASSUME FrameInv, NEW a \in Session, After(a), NEW b, b = busy[a]
  PROVE  /\ InFlight(b) /\ b # NoCommand /\ b.stage = "announce" /\ b.say = <<>>
         /\ Turned(a, Job(b.cmd, "copy", b.before, b.touched, b.say, Snapshot, b.rooms))
<1>1. b # NoCommand /\ b.stage = "announce" /\ b.say = <<>>
  BY DEF After
<1>2. InFlight(b)
  BY <1>1 DEF FrameInv
<1>3. PICK f, g : f = busy /\ g = busy'
  OBVIOUS
<1>4. a \in DOMAIN f /\ f[a] = b /\ DOMAIN f = Session
  BY <1>3 DEF FrameInv
<1>5. PICK x, d : x = Snapshot /\ d = [b EXCEPT !.stage = "copy"]
  OBVIOUS
<1>6. g = [f EXCEPT ![a] = [d EXCEPT !.after = x]]
  BY <1>3, <1>4, <1>5 DEF After
<1>7. d = Job(b.cmd, "copy", b.before, b.touched, b.say, b.after, b.rooms)
  BY <1>2, <1>5 DEF InFlight, IsJob, Job
<1>8. [d EXCEPT !.after = x] = Job(b.cmd, "copy", b.before, b.touched, b.say, x, b.rooms)
  BY <1>7 DEF Job
<1>9. Turned(a, [d EXCEPT !.after = x])
  BY <1>3, <1>4, <1>6 DEF Turned
<1> QED BY <1>1, <1>2, <1>5, <1>8, <1>9

LEMMA CopyMoves ==
  ASSUME FrameInv, NEW a \in Session, Copy(a), NEW b, b = busy[a]
  PROVE  /\ InFlight(b) /\ b # NoCommand /\ b.stage = "copy"
         /\ Turned(a, Job(b.cmd, "send", b.before, b.touched, b.say, b.after, channels))
<1>1. b # NoCommand /\ b.stage = "copy"
  BY DEF Copy
<1>2. InFlight(b)
  BY <1>1 DEF FrameInv
<1>3. PICK f, g : f = busy /\ g = busy'
  OBVIOUS
<1>4. a \in DOMAIN f /\ f[a] = b /\ DOMAIN f = Session
  BY <1>3 DEF FrameInv
<1>5. PICK x, d : x = channels /\ d = [b EXCEPT !.stage = "send"]
  OBVIOUS
<1>6. g = [f EXCEPT ![a] = [d EXCEPT !.rooms = x]]
  BY <1>3, <1>4, <1>5 DEF Copy
<1>7. d = Job(b.cmd, "send", b.before, b.touched, b.say, b.after, b.rooms)
  BY <1>2, <1>5 DEF InFlight, IsJob, Job
<1>8. [d EXCEPT !.rooms = x] = Job(b.cmd, "send", b.before, b.touched, b.say, b.after, x)
  BY <1>7 DEF Job
<1>9. Turned(a, [d EXCEPT !.rooms = x])
  BY <1>3, <1>4, <1>6 DEF Turned
<1> QED BY <1>1, <1>2, <1>5, <1>8, <1>9

LEMMA SendMoves ==
  ASSUME FrameInv, NEW a \in Session, NEW s \in Session, Send(a, s), NEW b, b = busy[a]
  PROVE  /\ InFlight(b) /\ b # NoCommand /\ b.stage = "send" /\ s \in DOMAIN b.before
         /\ Turned(a, Job(b.cmd, "send", Minus(b.before, {s}), b.touched, b.say, b.after, b.rooms))
<1>1. b # NoCommand /\ b.stage = "send" /\ s \in DOMAIN b.before
  BY DEF Send
<1>2. InFlight(b)
  BY <1>1 DEF FrameInv
<1>3. PICK f, g : f = busy /\ g = busy'
  OBVIOUS
<1>4. a \in DOMAIN f /\ f[a] = b /\ DOMAIN f = Session
  BY <1>3 DEF FrameInv
<1>5. PICK w : w = Minus(b.before, {s})
  OBVIOUS
<1>6. g = [f EXCEPT ![a] = [b EXCEPT !.before = w]]
  BY <1>3, <1>4, <1>5 DEF Send
<1>7. [b EXCEPT !.before = w] = Job(b.cmd, "send", w, b.touched, b.say, b.after, b.rooms)
  BY <1>1, <1>2 DEF InFlight, IsJob, Job
<1>8. Turned(a, [b EXCEPT !.before = w])
  BY <1>3, <1>4, <1>6 DEF Turned
<1> QED BY <1>1, <1>2, <1>5, <1>7, <1>8

\* The command is over.
LEMMA EndMoves ==
  ASSUME FrameInv, NEW a \in Session, StoreFails(a) \/ Acked(a), NEW b, b = busy[a]
  PROVE  /\ InFlight(b) /\ b # NoCommand /\ Turned(a, NoCommand)
         /\ b.stage = "store" \/ (b.stage = "send" /\ DOMAIN b.before = {})
         /\ UNCHANGED <<serverVars, online, greeted, queue, clientVars, raced>>
<1>1. b # NoCommand /\ (b.stage = "store" \/ (b.stage = "send" /\ DOMAIN b.before = {}))
  BY DEF StoreFails, Acked
<1>2. busy' = [busy EXCEPT ![a] = NoCommand]
      /\ UNCHANGED <<serverVars, online, greeted, queue, clientVars, raced>>
  BY DEF StoreFails, Acked
<1>3. Turned(a, NoCommand)
  BY <1>2 DEF Turned, FrameInv
<1> QED BY <1>1, <1>2, <1>3 DEF FrameInv

\* Somebody leaves in the middle of it.
LEMMA LeaveMoves ==
  ASSUME FrameInv, NEW s \in Session, Leave(s), NEW a \in Session, NEW b, b = busy[a]
  PROVE  /\ DOMAIN busy' = Session
         /\ b = NoCommand => busy'[a] = NoCommand
         /\ b # NoCommand =>
              /\ InFlight(b)
              /\ busy'[a] = Job(b.cmd, b.stage, Minus(b.before, {s}), b.touched, b.say, b.after, b.rooms)
<1>1. busy' = [d \in Session |-> Forgotten(busy[d], s)]
  BY DEF Leave
<1>2. DOMAIN busy' = Session /\ busy'[a] = Forgotten(b, s)
  BY <1>1
<1>3. ASSUME b # NoCommand
      PROVE  /\ InFlight(b)
             /\ busy'[a] = Job(b.cmd, b.stage, Minus(b.before, {s}), b.touched, b.say, b.after, b.rooms)
  <2>1. InFlight(b)
    BY <1>3 DEF FrameInv
  <2>2. PICK w : w = Minus(b.before, {s})
    OBVIOUS
  <2>3. busy'[a] = [b EXCEPT !.before = w]
    BY <1>2, <1>3, <2>2 DEF Forgotten
  <2> QED BY <2>1, <2>2, <2>3 DEF InFlight, IsJob, Job
<1> QED BY <1>2, <1>3 DEF Forgotten

\* a has taken up c, which passed its checks.
Taken(a, c) ==
  /\ Start(a, c, IF c.op \in ChannelOps THEN NoRows ELSE Snapshot)
  /\ c.op \in Ops
  /\ c.op \in {"update", "set", "unset"} => c.id \in DOMAIN channels
  /\ c.op = "rerole" => c.id \in DOMAIN roles

LEMMA CommandTaken ==
  ASSUME NEW a \in Session, CommandOf(a)
  PROVE  \E c : Taken(a, c)
<1>1. ASSUME NEW id \in DOMAIN channels, delete_channel(a, id)
      PROVE  \E c : Taken(a, c)
  <2>1. PICK c : c = [op |-> "delete", id |-> id]
    OBVIOUS
  <2>2. c.op = "delete"
    BY <2>1
  <2> QED BY <1>1, <2>1, <2>2 DEF Taken, Ops, ChannelOps, delete_channel
<1>2. ASSUME NEW id \in DOMAIN channels, NEW p, update_channel(a, id, p)
      PROVE  \E c : Taken(a, c)
  <2>1. PICK c : c = [op |-> "update", id |-> id, parent |-> p]
    OBVIOUS
  <2>2. c.op = "update" /\ c.id = id
    BY <2>1
  <2> QED BY <1>2, <2>1, <2>2 DEF Taken, Ops, ChannelOps, update_channel
<1>3. ASSUME NEW id \in DOMAIN channels, NEW t, delete_channel_overwrite(a, id, t)
      PROVE  \E c : Taken(a, c)
  <2>1. PICK c : c = [op |-> "unset", id |-> id, target |-> t]
    OBVIOUS
  <2>2. c.op = "unset" /\ c.id = id
    BY <2>1
  <2> QED BY <1>3, <2>1, <2>2 DEF Taken, Ops, ChannelOps, delete_channel_overwrite
<1>4. ASSUME NEW id \in DOMAIN channels, NEW t, NEW ow, set_channel_overwrite(a, id, t, ow)
      PROVE  \E c : Taken(a, c)
  <2>1. PICK c : c = [op |-> "set", id |-> id, target |-> t,
                      ow |-> [allow |-> ow.allow \cap CHANNEL_SCOPED,
                              deny |-> ow.deny \cap CHANNEL_SCOPED]]
    OBVIOUS
  <2>2. c.op = "set" /\ c.id = id
    BY <2>1
  <2>3. Start(a, c, Snapshot)
    BY <1>4, <2>1 DEF set_channel_overwrite
  <2> QED BY <2>2, <2>3 DEF Taken, Ops, ChannelOps
<1>5. ASSUME NEW p, create_channel(a, p)
      PROVE  \E c : Taken(a, c)
  <2>1. PICK c : c = [op |-> "create", id |-> next_channel_id, parent |-> p]
    OBVIOUS
  <2>2. c.op = "create"
    BY <2>1
  <2> QED BY <1>5, <2>1, <2>2 DEF Taken, Ops, ChannelOps, create_channel
<1>6. ASSUME NEW r, delete_role(a, r)
      PROVE  \E c : Taken(a, c)
  <2>1. PICK c : c = [op |-> "unrole", id |-> r]
    OBVIOUS
  <2>2. c.op = "unrole"
    BY <2>1
  <2> QED BY <1>6, <2>1, <2>2 DEF Taken, Ops, ChannelOps, delete_role
<1>7. ASSUME NEW r, NEW mask, update_role(a, r, mask)
      PROVE  \E c : Taken(a, c)
  <2>1. PICK c : c = [op |-> "rerole", id |-> r, role |-> [roles[r] EXCEPT !.permissions = mask]]
    OBVIOUS
  <2>2. c.op = "rerole" /\ c.id = r
    BY <2>1
  <2>3. Start(a, c, Snapshot) /\ r \in DOMAIN roles
    BY <1>7, <2>1 DEF update_role
  <2> QED BY <2>2, <2>3 DEF Taken, Ops, ChannelOps
<1>8. ASSUME NEW m, NEW ids, set_member_roles(a, m, ids)
      PROVE  \E c : Taken(a, c)
  <2>1. PICK c : c = [op |-> "grant", who |-> m, ids |-> ids]
    OBVIOUS
  <2>2. c.op = "grant"
    BY <2>1
  <2> QED BY <1>8, <2>1, <2>2 DEF Taken, Ops, ChannelOps, set_member_roles
<1> QED BY <1>1, <1>2, <1>3, <1>4, <1>5, <1>6, <1>7, <1>8, Zenon DEF CommandOf

\* A command is taken up.
LEMMA CommandStarts ==
  ASSUME FrameInv, NEW a \in Session, CommandOf(a)
  PROVE  /\ busy[a] = NoCommand /\ a \in greeted
         /\ UNCHANGED <<serverVars, online, greeted, queue, clientVars, raced>>
         /\ \E c : /\ Turned(a, Job(c, "store", IF c.op \in ChannelOps THEN NoRows ELSE Snapshot,
                                    {}, <<>>, NoRows, NoRows))
                   /\ c.op \in Ops
                   /\ c.op \in {"update", "set", "unset"} => c.id \in DOMAIN channels
                   /\ c.op = "rerole" => c.id \in DOMAIN roles
<1>1. busy[a] = NoCommand /\ a \in greeted
  BY DEF CommandOf, Ready
<1>2. PICK c : Taken(a, c)
  BY CommandTaken
<1>3. UNCHANGED <<serverVars, online, greeted, queue, clientVars, raced>>
  BY <1>2 DEF Taken, Start
<1>4. PICK w : w = IF c.op \in ChannelOps THEN NoRows ELSE Snapshot
  OBVIOUS
<1>5. PICK j : j = Job(c, "store", w, {}, <<>>, NoRows, NoRows)
  OBVIOUS
<1>6. busy' = [busy EXCEPT ![a] = j]
  BY <1>2, <1>4, <1>5 DEF Taken, Start, Job
<1>7. Turned(a, j)
  BY <1>6 DEF Turned, FrameInv
<1> QED BY <1>1, <1>2, <1>3, <1>4, <1>5, <1>7 DEF Taken

-----------------------------------------------------------------------------
(* What is listed is finite *)

LEMMA FrameInit == Init => FrameInv
<1> SUFFICES ASSUME Init PROVE FrameInv
  OBVIOUS
<1>1. PICK t \in InitialTables :
        disk = [channels |-> t.channels, overwrites |-> t.overwrites,
                roles |-> InitialRoles, grants |-> InitialGrants]
  BY DEF Init
<1>2. Shaped(disk) /\ disk.channels = t.channels
  BY <1>1 DEF Shaped
<1>3. IsFiniteSet(1 .. MaxId)
  <2>1. 1 \in Int /\ MaxId \in Int
    BY ChannelsAssumption
  <2> QED BY <2>1, FS_Interval
<1>4. DOMAIN t.channels \subseteq 1 .. MaxId
  BY ChannelsAssumption
<1>5. IsFiniteSet(DOMAIN disk.channels)
  BY <1>2, <1>3, <1>4, FS_Subset
<1>6. DOMAIN channels = {}
  BY DEF Init, NoRows
<1>7. IsFiniteSet(DOMAIN channels)
  BY <1>6, FS_EmptySet
<1>8. DOMAIN busy = Session /\ DOMAIN queue = Session /\ online \subseteq Session
  BY DEF Init
<1>9. \A s \in Session : queue[s] \in Seq({}) /\ busy[s] = NoCommand
  BY DEF Init
<1> QED BY <1>2, <1>5, <1>7, <1>8, <1>9 DEF FrameInv

\* One command moves, and each queue stays a list.
LEMMA FrameTurned ==
  ASSUME FrameInv, Shaped(disk)', IsFiniteSet(DOMAIN disk.channels)', IsFiniteSet(DOMAIN channels)',
         online' = online, DOMAIN queue' = Session, \A s \in Session : \E S : queue'[s] \in Seq(S),
         NEW a \in Session, NEW j, Turned(a, j), j # NoCommand => InFlight(j)
  PROVE  FrameInv'
<1>1. PICK f, g : f = busy /\ g = busy'
  OBVIOUS
<1>2. DOMAIN g = Session /\ \A b \in Session : g[b] # NoCommand => InFlight(g[b])
  <2>1. \A b \in Session : f[b] # NoCommand => InFlight(f[b])
    BY <1>1 DEF FrameInv
  <2> QED BY <1>1, <2>1 DEF Turned
<1>3. \A b \in Session : (busy[b] # NoCommand => InFlight(busy[b]))'
  BY <1>1, <1>2 DEF InFlight, IsJob, Job, FramesOK, NoCommand
<1> QED BY <1>1, <1>2, <1>3 DEF FrameInv

LEMMA FrameLeave ==
  ASSUME FrameInv, NEW s \in Session, Leave(s), UNCHANGED <<disk, channels>>, online' \subseteq Session,
         DOMAIN queue' = Session, \A r \in Session : \E S : queue'[r] \in Seq(S)
  PROVE  FrameInv'
<1>1. PICK g : g = busy'
  OBVIOUS
<1>2. ASSUME NEW a \in Session, g[a] # NoCommand PROVE InFlight(g[a])
  <2>1. PICK b, w : b = busy[a] /\ w = Minus(b.before, {s})
    OBVIOUS
  <2>2. InFlight(b) /\ g[a] = Job(b.cmd, b.stage, w, b.touched, b.say, b.after, b.rooms)
    BY <1>1, <1>2, <2>1, LeaveMoves
  <2>3. PICK h : h = g[a]
    OBVIOUS
  <2>4. /\ IsJob(h) /\ h.cmd = b.cmd /\ h.before = w /\ h.say = b.say /\ h.stage = b.stage
        /\ h.rooms = b.rooms
    BY <2>2, <2>3, JobIs
  <2>5. \A r \in DOMAIN w : IsFiniteSet(w[r])
    BY <2>1, <2>2 DEF InFlight, Minus
  <2> QED BY <2>2, <2>3, <2>4, <2>5 DEF InFlight
<1>3. DOMAIN g = Session
  BY <1>1, LeaveMoves
<1>4. \A b \in Session : (busy[b] # NoCommand => InFlight(busy[b]))'
  BY <1>1, <1>2 DEF InFlight, IsJob, Job, FramesOK, NoCommand
<1> QED BY <1>1, <1>3, <1>4 DEF FrameInv, Shaped

LEMMA FrameNext ==
  ASSUME FrameInv, [Next]_vars
  PROVE  FrameInv'
<1>0. ASSUME UNCHANGED busy, Shaped(disk)', IsFiniteSet(DOMAIN disk.channels)',
             IsFiniteSet(DOMAIN channels)', online' \subseteq Session, DOMAIN queue' = Session,
             \A s \in Session : \E S : queue'[s] \in Seq(S)
      PROVE  FrameInv'
  BY <1>0 DEF FrameInv, InFlight, IsJob, Job, FramesOK, NoCommand
<1>1. CASE UNCHANGED vars
  BY <1>0, <1>1 DEF FrameInv, Shaped, vars, serverVars
<1>2. CASE Boot
  <2>1. UNCHANGED <<disk, queue, busy, online>>
    BY <1>2 DEF Boot
  <2>2. channels' = channels \/ channels' = Loaded(disk)
    BY <1>2 DEF Boot
  <2>3. PICK m : m = Loaded(disk)
    OBVIOUS
  <2>4. DOMAIN m = DOMAIN disk.channels
    BY <2>3, LoadedFacts
  <2>5. IsFiniteSet(DOMAIN channels')
    BY <2>2, <2>3, <2>4 DEF FrameInv
  <2> QED BY <1>0, <2>1, <2>5 DEF FrameInv, Shaped
<1>3. CASE SeedChannel
  <2>1. UNCHANGED <<queue, busy, online>>
    BY <1>3 DEF SeedChannel
  <2>2. PICK f : f = With(disk.channels, Head(seeding), Config[Head(seeding)])
    OBVIOUS
  <2>3. disk' = [disk EXCEPT !.channels = f]
    BY <1>3, <2>2 DEF SeedChannel
  <2>4. Shaped(disk)' /\ disk'.channels = f
    BY <2>3 DEF FrameInv, Shaped
  <2>5. DOMAIN f = DOMAIN disk.channels \cup {Head(seeding)}
    BY <2>2 DEF With
  <2>6. IsFiniteSet(DOMAIN f)
    BY <2>5, FS_AddElement DEF FrameInv
  <2>7. PICK d, m : d = disk' /\ m = Loaded(d)
    OBVIOUS
  <2>8. DOMAIN m = DOMAIN f
    BY <2>4, <2>7, LoadedFacts
  <2>9. channels' = channels \/ channels' = m
    BY <1>3, <2>7 DEF SeedChannel, Loaded
  <2> QED BY <1>0, <2>1, <2>4, <2>6, <2>8, <2>9 DEF FrameInv
<1>4. CASE Crash
  <2>1. disk' = disk /\ DOMAIN channels' = {} /\ online' = {}
    BY <1>4 DEF Crash, NoRows
  <2>2. IsFiniteSet(DOMAIN channels')
    BY <2>1, FS_EmptySet
  <2>3. DOMAIN busy' = Session /\ DOMAIN queue' = Session
    BY <1>4 DEF Crash
  <2>4. \A s \in Session : queue'[s] \in Seq({}) /\ busy'[s] = NoCommand
    BY <1>4 DEF Crash
  <2> QED BY <2>1, <2>2, <2>3, <2>4 DEF FrameInv, Shaped, NoCommand
<1>5. ASSUME NEW s \in Session, Admit(s) \/ Greet(s) PROVE FrameInv'
  <2>1. UNCHANGED <<disk, channels, queue, busy>> /\ online' \subseteq Session
    BY <1>5 DEF Admit, Greet, serverVars, FrameInv
  <2> QED BY <1>0, <2>1 DEF FrameInv, Shaped
<1>6. ASSUME NEW s \in Session, Leave(s) \/ Deliver(s) PROVE FrameInv'
  <2>1. UNCHANGED <<disk, channels>> /\ online' \subseteq Session
    BY <1>6 DEF Leave, Deliver, serverVars, FrameInv
  <2>2. PICK X : queue[s] \in Seq(X)
    BY DEF FrameInv
  <2>3. PICK q : q \in Seq(X) /\ queue' = [queue EXCEPT ![s] = q]
    <3>1. CASE Leave(s)
      <4>1. <<>> \in Seq(X)
        OBVIOUS
      <4> QED BY <3>1, <4>1 DEF Leave
    <3>2. CASE Deliver(s)
      <4>1. Tail(queue[s]) \in Seq(X)
        BY <2>2, <3>2 DEF Deliver
      <4> QED BY <3>2, <4>1 DEF Deliver
    <3> QED BY <1>6, <3>1, <3>2
  <2>4. DOMAIN queue' = Session /\ \A r \in Session : \E S : queue'[r] \in Seq(S)
    BY <2>3 DEF FrameInv
  <2>5. CASE Leave(s)
    BY <2>1, <2>4, <2>5, FrameLeave
  <2>6. CASE Deliver(s)
    BY <1>0, <2>1, <2>4, <2>6 DEF FrameInv, Shaped, Deliver
  <2> QED BY <1>6, <2>5, <2>6
<1>7. ASSUME NEW a \in Session, CommandOf(a) PROVE FrameInv'
  <2>1. UNCHANGED <<disk, channels, queue, online>>
    BY <1>7, CommandStarts DEF serverVars
  <2>2. PICK c, w, j : /\ Turned(a, j) /\ j = Job(c, "store", w, {}, <<>>, NoRows, NoRows)
                       /\ w = (IF c.op \in ChannelOps THEN NoRows ELSE Snapshot) /\ c.op \in Ops
    BY <1>7, CommandStarts
  <2>3. InFlight(j)
    <3>1. \A s \in DOMAIN w : IsFiniteSet(w[s])
      BY <2>2, SnapshotFinite DEF FrameInv, NoRows
    <3>2. FramesOK(<<>>) /\ <<>> \in Seq({})
      BY DEF FramesOK
    <3>3. j.cmd = c /\ j.before = w /\ j.say = <<>> /\ j.stage = "store" /\ IsJob(j)
      BY <2>2, JobIs
    <3> QED BY <2>2, <3>1, <3>2, <3>3 DEF InFlight
  <2> QED BY <2>1, <2>2, <2>3, FrameTurned DEF FrameInv, Shaped
<1>8. ASSUME NEW a \in Session, Store(a) PROVE FrameInv'
  <2>1. UNCHANGED <<channels, queue, online>>
    BY <1>8 DEF Store
  <2>2. PICK b : b = busy[a]
    OBVIOUS
  <2>3. PICK w, j : /\ w = (IF b.cmd.op \in ChannelOps THEN Snapshot ELSE b.before)
                    /\ j = Job(b.cmd, "memory", w, b.touched, b.say, b.after, b.rooms)
                    /\ Turned(a, j) /\ InFlight(b) /\ disk' = Written(disk, b.cmd)
    BY <1>8, <2>2, StoreMoves
  <2>4. PICK e : e = Written(disk, b.cmd)
    OBVIOUS
  <2>5. Shaped(e) /\ IsFiniteSet(DOMAIN e.channels)
    BY <2>3, <2>4, WrittenShape DEF FrameInv, InFlight
  <2>6. Shaped(disk)' /\ IsFiniteSet(DOMAIN disk.channels)'
    BY <2>3, <2>4, <2>5 DEF Shaped
  <2>7. \A s \in DOMAIN w : IsFiniteSet(w[s])
    BY <2>3, SnapshotFinite DEF FrameInv, InFlight
  <2>8. j.cmd = b.cmd /\ j.before = w /\ j.say = b.say /\ j.stage = "memory" /\ IsJob(j)
    BY <2>3, JobIs
  <2>9. InFlight(j)
    BY <2>3, <2>7, <2>8 DEF InFlight
  <2> QED BY <2>1, <2>3, <2>6, <2>9, FrameTurned DEF FrameInv
<1>9. ASSUME NEW a \in Session, StoreFails(a) \/ Acked(a) PROVE FrameInv'
  <2>1. UNCHANGED <<disk, channels, queue, online>> /\ Turned(a, NoCommand)
    BY <1>9, EndMoves DEF serverVars
  <2> QED BY <2>1, FrameTurned DEF FrameInv, Shaped
<1>10. ASSUME NEW a \in Session, Memory(a) PROVE FrameInv'
  <2>1. UNCHANGED <<disk, queue, online>>
    BY <1>10 DEF Memory
  <2>2. PICK b : b = busy[a]
    OBVIOUS
  <2>3. PICK y, j : /\ y = Announced(b.cmd)
                    /\ j = Job(b.cmd, "announce", b.before, Touched(b.cmd), y, b.after, b.rooms)
                    /\ Turned(a, j) /\ InFlight(b) /\ channels' = Changed(b.cmd)
    BY <1>10, <2>2, MemoryMoves
  <2>4. IsFiniteSet(DOMAIN channels)'
    BY <2>3, ChangedFinite DEF FrameInv
  <2>5. PICK Y : Lists(y, Y) /\ Y = AnnouncedSet(b.cmd)
    BY <2>3, OnlineFinite, AnnouncedLists
  <2>6. y \in Seq(Y) /\ FramesOK(y)
    <3>1. y \in Seq(Y)
      BY <2>5 DEF Lists
    <3>2. \A f \in Y : f.k \in Kinds
      BY <2>5, AnnouncedIs DEF Kinds
    <3> QED BY <3>1, <3>2 DEF FramesOK
  <2>7. j.cmd = b.cmd /\ j.before = b.before /\ j.say = y /\ j.stage = "announce" /\ IsJob(j)
    BY <2>3, JobIs
  <2>8. InFlight(j)
    BY <2>3, <2>6, <2>7 DEF InFlight
  <2> QED BY <2>1, <2>3, <2>4, <2>8, FrameTurned DEF FrameInv, Shaped
<1>11. ASSUME NEW a \in Session, Announce(a) PROVE FrameInv'
  <2>1. UNCHANGED <<disk, channels, online>> /\ DOMAIN queue' = Session
    BY <1>11 DEF Announce, serverVars
  <2>2. PICK b : b = busy[a]
    OBVIOUS
  <2>3. PICK j : /\ j = Job(b.cmd, "announce", b.before, b.touched, Tail(b.say), b.after, b.rooms)
                 /\ Turned(a, j) /\ InFlight(b) /\ b.say # <<>>
    BY <1>11, <2>2, AnnounceMoves
  <2>4. PICK Y, y : b.say \in Seq(Y) /\ y = b.say
    BY <2>3 DEF InFlight
  <2>5. Tail(y) \in Seq(Y) /\ FramesOK(Tail(y))
    <3>1. /\ Tail(y) \in Seq(Y)
          /\ \A i \in 1 .. Len(Tail(y)) : i + 1 \in 1 .. Len(y) /\ Tail(y)[i] = y[i + 1]
      BY <2>3, <2>4
    <3>2. FramesOK(y)
      BY <2>3, <2>4 DEF InFlight
    <3> QED BY <3>1, <3>2 DEF FramesOK
  <2>6. j.cmd = b.cmd /\ j.before = b.before /\ j.say = Tail(y) /\ j.stage = "announce" /\ IsJob(j)
    BY <2>3, <2>4, JobIs
  <2>7. InFlight(j)
    BY <2>3, <2>5, <2>6 DEF InFlight
  <2>8. ASSUME NEW s \in Session PROVE \E S : queue'[s] \in Seq(S)
    <3>1. PICK X, q, f : queue[s] \in Seq(X) /\ q = queue[s] /\ f = Head(busy[a].say)
      BY DEF FrameInv
    <3>2. queue'[s] = Append(q, f) \/ queue'[s] = q
      BY <1>11, <3>1 DEF Announce
    <3>3. q \in Seq(X) /\ Append(q, f) \in Seq(X \cup {f})
      BY <3>1
    <3> QED BY <3>2, <3>3
  <2> QED BY <2>1, <2>3, <2>7, <2>8, FrameTurned DEF FrameInv, Shaped
<1>12. ASSUME NEW a \in Session, After(a) \/ Copy(a) PROVE FrameInv'
  <2>1. UNCHANGED <<disk, channels, queue, online>>
    BY <1>12 DEF After, Copy, serverVars
  <2>2. PICK b : b = busy[a]
    OBVIOUS
  <2>3. PICK st, x, r, j : /\ j = Job(b.cmd, st, b.before, b.touched, b.say, x, r)
                           /\ Turned(a, j) /\ InFlight(b)
                           /\ st = "send" => r = channels
    <3>1. CASE After(a)
      BY <2>2, <3>1, AfterMoves
    <3>2. CASE Copy(a)
      BY <2>2, <3>2, CopyMoves
    <3> QED BY <1>12, <3>1, <3>2
  <2>4. /\ j.cmd = b.cmd /\ j.before = b.before /\ j.say = b.say /\ j.stage = st /\ j.rooms = r
        /\ IsJob(j)
    BY <2>3, JobIs
  <2>5. InFlight(j)
    BY <2>3, <2>4 DEF InFlight, FrameInv
  <2> QED BY <2>1, <2>3, <2>5, FrameTurned DEF FrameInv, Shaped
<1>13. ASSUME NEW a \in Session, NEW s \in Session, Send(a, s) PROVE FrameInv'
  <2>1. UNCHANGED <<disk, channels, online>>
    BY <1>13 DEF Send, serverVars
  <2>2. PICK b : b = busy[a]
    OBVIOUS
  <2>3. PICK w, j : /\ w = Minus(b.before, {s})
                    /\ j = Job(b.cmd, "send", w, b.touched, b.say, b.after, b.rooms)
                    /\ Turned(a, j) /\ InFlight(b) /\ b.stage = "send" /\ s \in DOMAIN b.before
    BY <1>13, <2>2, SendMoves
  <2>4. \A r \in DOMAIN w : IsFiniteSet(w[r])
    BY <2>3 DEF InFlight, Minus
  <2>5. /\ j.cmd = b.cmd /\ j.before = w /\ j.say = b.say /\ j.stage = "send" /\ j.rooms = b.rooms
        /\ IsJob(j)
    BY <2>3, JobIs
  <2>6. InFlight(j)
    BY <2>3, <2>4, <2>5 DEF InFlight
  <2>7. PICK d, G : d = (IF s \in DOMAIN b.after THEN Difference(s, b) ELSE <<>>) /\ d \in Seq(G)
    <3>1. Lists(Difference(s, b), DifferenceSet(s, b))
      BY <2>3, DifferenceLists DEF InFlight
    <3>2. <<>> \in Seq({})
      OBVIOUS
    <3> QED BY <3>1, <3>2 DEF Lists
  <2>8. PICK X, q : queue[s] \in Seq(X) /\ q = queue[s]
    BY DEF FrameInv
  <2>9. queue' = [queue EXCEPT ![s] = q \o d]
    BY <1>13, <2>2, <2>7, <2>8 DEF Send
  <2>10. q \o d \in Seq(X \cup G)
    BY <2>7, <2>8
  <2>11. DOMAIN queue' = Session /\ \A r \in Session : \E S : queue'[r] \in Seq(S)
    BY <2>9, <2>10 DEF FrameInv
  <2> QED BY <2>1, <2>3, <2>6, <2>11, FrameTurned DEF FrameInv, Shaped
<1> QED
  BY <1>1, <1>2, <1>3, <1>4, <1>5, <1>6, <1>7, <1>8, <1>9, <1>10, <1>11, <1>12, <1>13 DEF Next

-----------------------------------------------------------------------------
(* Memory follows the tables *)

\* No two commands are in flight at once.
OneAtATime == \A a, b \in Session : busy[a] # NoCommand /\ busy[b] # NoCommand => a = b

At(a, st) == busy[a] # NoCommand /\ busy[a].stage = st

\* The first n channels of the configuration are stored and nothing else is.
Seeded(n) ==
  /\ seeding = Seed(n) /\ DOMAIN disk.overwrites = {}
  /\ DOMAIN disk.channels = 1 .. n /\ \A i \in 1 .. n : disk.channels[i] = Config[i]

Starting ==
  /\ seeding # <<>> => ~ up /\ \E n \in 0 .. (Len(Config) - 1) : Seeded(n)
  /\ ~ up => online = {} /\ greeted = {} /\ \A a \in Session : busy[a] = NoCommand

\* Between the write and the change of memory the tables are ahead by the
\* command in flight, and only then.
MemoryInv ==
  /\ StoreOK(disk)
  /\ Starting
  /\ up /\ (\A a \in Session : ~ At(a, "memory")) => Agree
  /\ \A a \in Session : At(a, "memory") => Follows(busy[a].cmd, disk)
  /\ \A a \in Session : At(a, "store") /\ busy[a].cmd.op \in {"update", "set", "unset"}
       => busy[a].cmd.id \in DOMAIN channels

LEMMA MemoryInit == Init => MemoryInv
<1> SUFFICES ASSUME Init PROVE MemoryInv
  OBVIOUS
<1>1. PICK t \in InitialTables :
        disk = [channels |-> t.channels, overwrites |-> t.overwrites,
                roles |-> InitialRoles, grants |-> InitialGrants]
  BY DEF Init
<1>2. disk.channels = t.channels /\ disk.overwrites = t.overwrites
  BY <1>1
<1>3. DOMAIN t.overwrites \subseteq (DOMAIN t.channels) \X Targets
  BY ChannelsAssumption
<1>4. Keyed(t.overwrites) /\ \A k \in DOMAIN t.overwrites : k[1] \in DOMAIN t.channels
  BY <1>3 DEF Keyed
<1>5. StoreOK(disk)
  BY <1>2, <1>4, FrameInit DEF FrameInv, StoreOK
<1>6. seeding = <<>> /\ ~ up /\ online = {} /\ greeted = {} /\ \A a \in Session : busy[a] = NoCommand
  BY DEF Init
<1> QED BY <1>5, <1>6 DEF MemoryInv, Starting, At

\* The write of a command, while memory is what is stored.
LEMMA WrittenFollows ==
  ASSUME StoreOK(disk), Agree, NEW c, c.op \in Ops, ~ Conflicts(c),
         c.op \in {"update", "set", "unset"} => c.id \in DOMAIN channels
  PROVE  Follows(c, Written(disk, c))
<1>1. CASE c.op = "create"
  <2>1. c.id \notin DOMAIN disk.channels
    BY <1>1 DEF Conflicts
  <2> QED BY <1>1, <2>1, CreateFollows
<1> QED
  BY <1>1, UpdateFollows, DeleteFollows, SetFollows, UnsetFollows, UnroleFollows, ReroleFollows,
     GrantFollows
  DEF Ops, ChannelOps

LEMMA SameFollows ==
  ASSUME UNCHANGED <<channels, roles, grants, disk>>, NEW c
  PROVE  Follows(c, disk) => Follows(c, disk)'
BY DEF Follows, Changed, Stripped, update_channel_mem, Reroled, Regranted

\* a is where it was, in the command it was in.
Held(a) ==
  \/ busy[a] = NoCommand /\ busy'[a] = NoCommand
  \/ /\ busy[a] # NoCommand /\ busy'[a] # NoCommand
     /\ busy'[a].cmd = busy[a].cmd /\ busy'[a].stage = busy[a].stage

\* A step that changes neither memory nor the tables, and takes no command into
\* or out of the gap between them.
LEMMA MemoryKeeps ==
  ASSUME MemoryInv, UNCHANGED <<up, channels, roles, grants, disk>>, Starting',
         \A a \in Session : \/ Held(a)
                            \/ /\ ~ At(a, "memory") /\ ~ At(a, "memory")'
                               /\ At(a, "store")' /\ busy'[a].cmd.op \in {"update", "set", "unset"}
                                    => busy'[a].cmd.id \in DOMAIN channels
  PROVE  MemoryInv'
<1>1. StoreOK(disk)'
  BY DEF MemoryInv, StoreOK, Shaped, Keyed
<1>2. \A a \in Session : At(a, "memory")' <=> At(a, "memory")
  BY DEF At, Held, NoCommand
<1>3. (up /\ (\A a \in Session : ~ At(a, "memory")) => Agree)'
  <2>1. Agree => Agree'
    BY DEF Agree
  <2>2. up /\ (\A a \in Session : ~ At(a, "memory")) => Agree
    BY DEF MemoryInv
  <2> QED BY <1>2, <2>1, <2>2
<1>4. ASSUME NEW a \in Session, At(a, "memory")' PROVE Follows(busy[a].cmd, disk)'
  <2>1. Held(a) /\ At(a, "memory")
    BY <1>2, <1>4
  <2>2. PICK c : c = busy[a].cmd
    OBVIOUS
  <2>3. Follows(c, disk)
    BY <2>1, <2>2 DEF MemoryInv
  <2>4. Follows(c, disk)'
    BY <2>3, SameFollows
  <2>5. c = busy'[a].cmd
    BY <2>1, <2>2 DEF Held, At
  <2> QED BY <2>4, <2>5 DEF Follows, Changed, Stripped, update_channel_mem, Reroled, Regranted
<1>5. ASSUME NEW a \in Session, At(a, "store")', busy'[a].cmd.op \in {"update", "set", "unset"}
      PROVE  busy'[a].cmd.id \in DOMAIN channels'
  <2>1. CASE Held(a)
    <3>1. At(a, "store") /\ busy'[a].cmd = busy[a].cmd
      BY <1>5, <2>1 DEF At, Held, NoCommand
    <3> QED BY <1>5, <2>1, <3>1 DEF MemoryInv
  <2> QED BY <1>5, <2>1
<1> QED BY <1>1, <1>3, <1>4, <1>5 DEF MemoryInv

\* Where no command is in flight, only the start and the tables are left to show.
LEMMA MemoryIdle ==
  ASSUME StoreOK(disk)', Starting', (up => Agree)', \A a \in Session : busy'[a] = NoCommand
  PROVE  MemoryInv'
<1>1. \A a \in Session : ~ At(a, "memory")' /\ ~ At(a, "store")'
  BY DEF At, NoCommand
<1> QED BY <1>1 DEF MemoryInv

LEMMA SeedFacts ==
  ASSUME NEW n \in Nat, n < Len(Config)
  PROVE  /\ Seed(n) # <<>> /\ Head(Seed(n)) = n + 1 /\ Tail(Seed(n)) = Seed(n + 1)
         /\ Len(Seed(n)) = Len(Config) - n
<1>1. Len(Config) \in Nat
  BY ChannelsAssumption
<1>2. PICK q, L : q = Seed(n) /\ L = Len(Config) - n
  OBVIOUS
<1>3. L \in Nat /\ L >= 1 /\ q = [i \in 1 .. L |-> n + i]
  BY <1>1, <1>2 DEF Seed
<1>4. q \in Seq(Nat) /\ Len(q) = L
  <2>1. q \in [1 .. L -> Nat]
    BY <1>3
  <2> QED BY <1>3, <2>1
<1>5. q # <<>> /\ Head(q) = n + 1
  BY <1>3, <1>4
<1>6. Tail(q) = Seed(n + 1)
  <2>1. PICK r : r = Tail(q)
    OBVIOUS
  <2>2. r \in Seq(Nat) /\ Len(r) = L - 1 /\ \A i \in 1 .. Len(r) : r[i] = q[i + 1]
    BY <1>4, <1>5, <2>1, HeadTailProperties
  <2>3. ASSUME NEW i \in 1 .. (L - 1) PROVE r[i] = n + 1 + i
    <3>1. i + 1 \in 1 .. L /\ i \in Nat
      BY <1>3
    <3>2. r[i] = q[i + 1]
      BY <2>2
    <3>3. q[i + 1] = n + (i + 1)
      BY <1>3, <3>1
    <3> QED BY <3>1, <3>2, <3>3
  <2>4. PICK z : z = Seed(n + 1)
    OBVIOUS
  <2>5. Len(Config) - (n + 1) = L - 1
    BY <1>1, <1>2
  <2>6. z = [i \in 1 .. (L - 1) |-> n + 1 + i]
    BY <2>4, <2>5 DEF Seed
  <2>7. z \in Seq(Nat) /\ Len(z) = L - 1
    <3>1. z \in [1 .. (L - 1) -> Nat]
      BY <1>3, <2>6
    <3>2. L - 1 \in Nat
      BY <1>3
    <3> QED BY <3>1, <3>2
  <2>8. r = z
    BY <2>2, <2>3, <2>6, <2>7, SeqEqual
  <2> QED BY <2>1, <2>4, <2>8
<1> QED BY <1>2, <1>4, <1>5, <1>6

LEMMA BootKeeps ==
  ASSUME MemoryInv, Boot
  PROVE  MemoryInv'
<1>1. /\ ~ up /\ seeding = <<>> /\ disk' = disk /\ busy' = busy /\ online' = online
      /\ greeted' = greeted
  BY DEF Boot
<1>2. online = {} /\ greeted = {} /\ \A a \in Session : busy[a] = NoCommand
  BY <1>1 DEF MemoryInv, Starting
<1>3. StoreOK(disk)'
  BY <1>1 DEF MemoryInv, StoreOK, Shaped, Keyed
<1>4. CASE DOMAIN disk.channels = {}
  <2>1. seeding' = Seed(0) /\ ~ up'
    BY <1>1, <1>4 DEF Boot
  <2>2. DOMAIN disk.overwrites = {}
    BY <1>4 DEF MemoryInv, StoreOK
  <2>3. 0 \in 0 .. (Len(Config) - 1)
    BY ChannelsAssumption
  <2>4. Seeded(0)'
    BY <1>1, <1>4, <2>1, <2>2 DEF Seeded, Seed
  <2>5. Starting'
    BY <1>1, <1>2, <2>1, <2>3, <2>4 DEF Starting
  <2>6. (up => Agree)'
    BY <2>1
  <2> QED BY <1>1, <1>2, <1>3, <2>5, <2>6, MemoryIdle
<1>5. CASE DOMAIN disk.channels # {}
  <2>1. /\ up' /\ seeding' = <<>> /\ channels' = Loaded(disk) /\ roles' = disk.roles
        /\ grants' = disk.grants
    BY <1>1, <1>5 DEF Boot
  <2>2. Agree'
    BY <1>1, <2>1 DEF Agree
  <2>3. Starting'
    BY <2>1 DEF Starting
  <2> QED BY <1>1, <1>2, <1>3, <2>2, <2>3, MemoryIdle
<1> QED BY <1>4, <1>5

LEMMA SeedKeeps ==
  ASSUME MemoryInv, SeedChannel
  PROVE  MemoryInv'
<1>1. seeding # <<>> /\ UNCHANGED <<online, greeted, busy>>
  BY DEF SeedChannel
<1>2. PICK n \in 0 .. (Len(Config) - 1) : Seeded(n)
  BY <1>1 DEF MemoryInv, Starting
<1>3. ~ up /\ online = {} /\ greeted = {} /\ \A a \in Session : busy[a] = NoCommand
  BY <1>1 DEF MemoryInv, Starting
<1>4. n \in Nat /\ n < Len(Config) /\ Len(Config) \in Nat
  BY <1>2, ChannelsAssumption
<1>5. /\ Head(seeding) = n + 1 /\ Tail(seeding) = Seed(n + 1) /\ Len(seeding) = Len(Config) - n
  BY <1>2, <1>4, SeedFacts DEF Seeded
<1>6. PICK f : f = With(disk.channels, n + 1, Config[n + 1])
  OBVIOUS
<1>7. disk' = [disk EXCEPT !.channels = f] /\ seeding' = Seed(n + 1)
  BY <1>5, <1>6 DEF SeedChannel
<1>8. disk'.channels = f /\ disk'.overwrites = disk.overwrites /\ Shaped(disk')
      /\ disk'.roles = disk.roles /\ disk'.grants = disk.grants
  BY <1>7 DEF MemoryInv, StoreOK, Shaped
<1>9. DOMAIN f = 1 .. (n + 1) /\ \A i \in 1 .. (n + 1) : f[i] = Config[i]
  <2>1. DOMAIN disk.channels = 1 .. n /\ \A i \in 1 .. n : disk.channels[i] = Config[i]
    BY <1>2 DEF Seeded
  <2>2. 1 .. (n + 1) = 1 .. n \cup {n + 1} /\ n + 1 \notin 1 .. n
    BY <1>4
  <2> QED BY <1>6, <2>1, <2>2 DEF With
<1>10. DOMAIN disk.overwrites = {}
  BY <1>2 DEF Seeded
<1>11. StoreOK(disk')
  <2>1. IsFiniteSet(1 .. (n + 1))
    <3>1. 1 \in Int /\ n + 1 \in Int
      BY <1>4
    <3> QED BY <3>1, FS_Interval
  <2> QED BY <1>8, <1>9, <1>10, <2>1 DEF StoreOK, Keyed
<1>12. \A a \in Session : busy'[a] = NoCommand
  BY <1>1, <1>3
<1>13. CASE Len(seeding) > 1
  <2>1. ~ up' /\ n + 1 \in 0 .. (Len(Config) - 1)
    BY <1>3, <1>4, <1>5, <1>13 DEF SeedChannel
  <2>2. Seeded(n + 1)'
    BY <1>7, <1>8, <1>9, <1>10 DEF Seeded, Seed
  <2>3. Starting'
    BY <1>1, <1>3, <2>1, <2>2 DEF Starting
  <2> QED BY <1>11, <1>12, <2>1, <2>3, MemoryIdle
<1>14. CASE ~ (Len(seeding) > 1)
  <2>1. n + 1 = Len(Config)
    BY <1>4, <1>5, <1>14
  <2>2. seeding' = <<>>
    <3>1. Seed(n + 1) = [i \in 1 .. 0 |-> n + 1 + i]
      BY <1>4, <2>1 DEF Seed
    <3>2. [i \in 1 .. 0 |-> n + 1 + i] = <<>>
      OBVIOUS
    <3> QED BY <1>7, <3>1, <3>2
  <2>3. up' /\ roles' = disk.roles /\ grants' = disk.grants /\ channels' = Loaded(disk')
    BY <1>14 DEF SeedChannel
  <2>4. Agree'
    BY <1>8, <2>3 DEF Agree, Loaded
  <2>5. Starting'
    BY <2>2, <2>3 DEF Starting
  <2> QED BY <1>11, <1>12, <2>4, <2>5, MemoryIdle
<1> QED BY <1>13, <1>14

LEMMA StoreKeeps ==
  ASSUME FrameInv, MemoryInv, OneAtATime, NEW a \in Session, Store(a)
  PROVE  MemoryInv'
<1>1. PICK b, c : b = busy[a] /\ c = b.cmd
  OBVIOUS
<1>2. PICK j, w : /\ InFlight(b) /\ b # NoCommand /\ b.stage = "store"
                  /\ disk' = Written(disk, c) /\ ~ Conflicts(c)
                  /\ j = Job(c, "memory", w, b.touched, b.say, b.after, b.rooms) /\ Turned(a, j)
  BY <1>1, StoreMoves
<1>3. \A d \in Session : d # a => busy[d] = NoCommand /\ busy'[d] = NoCommand
  BY <1>1, <1>2 DEF OneAtATime, Turned
<1>4. busy'[a].cmd = c /\ busy'[a].stage = "memory" /\ busy'[a] # NoCommand
  <2>1. busy'[a] = j
    BY <1>2 DEF Turned
  <2> QED BY <1>2, <2>1, JobIs
<1>5. up /\ UNCHANGED <<seeding, up, channels, roles, grants, online, greeted>>
  <2>1. up
    BY <1>1, <1>2 DEF MemoryInv, Starting
  <2> QED BY <2>1 DEF Store
<1>6. \A d \in Session : ~ At(d, "memory")
  BY <1>1, <1>2, <1>3 DEF At
<1>7. Agree /\ StoreOK(disk)
  BY <1>5, <1>6 DEF MemoryInv
<1>8. c.op \in {"update", "set", "unset"} => c.id \in DOMAIN channels
  BY <1>1, <1>2 DEF MemoryInv, At
<1>9. PICK e : e = Written(disk, c)
  OBVIOUS
<1>10. Follows(c, e)
  BY <1>1, <1>2, <1>7, <1>8, <1>9, WrittenFollows DEF InFlight
<1>11. e = disk'
  BY <1>2, <1>9
<1>12. Follows(c, disk)'
  BY <1>5, <1>10, <1>11 DEF Follows, Changed, Stripped, update_channel_mem, Reroled, Regranted
<1>13. StoreOK(disk)'
  BY <1>10, <1>11 DEF Follows
<1>14. Starting'
  <2>1. seeding = <<>>
    BY <1>5 DEF MemoryInv, Starting
  <2> QED BY <1>5, <2>1 DEF Starting
<1>15. At(a, "memory")' /\ ~ At(a, "store")'
  BY <1>4 DEF At, NoCommand
<1>16. \A d \in Session : d # a => ~ At(d, "memory")' /\ ~ At(d, "store")'
  BY <1>3 DEF At, NoCommand
<1>17. Follows(busy[a].cmd, disk)'
  BY <1>4, <1>12 DEF Follows, Changed, Stripped, update_channel_mem, Reroled, Regranted
<1> QED BY <1>13, <1>14, <1>15, <1>16, <1>17 DEF MemoryInv

LEMMA MemoryStepKeeps ==
  ASSUME FrameInv, MemoryInv, OneAtATime, NEW a \in Session, Memory(a)
  PROVE  MemoryInv'
<1>1. PICK b, c : b = busy[a] /\ c = b.cmd
  OBVIOUS
<1>2. PICK j : /\ b # NoCommand /\ b.stage = "memory" /\ Turned(a, j)
               /\ j = Job(c, "announce", b.before, Touched(c), Announced(c), b.after, b.rooms)
               /\ channels' = Changed(c) /\ roles' = Reroled(c) /\ grants' = Regranted(c)
  BY <1>1, MemoryMoves
<1>3. \A d \in Session : d # a => busy[d] = NoCommand /\ busy'[d] = NoCommand
  BY <1>1, <1>2 DEF OneAtATime, Turned
<1>4. busy'[a].stage = "announce"
  <2>1. busy'[a] = j
    BY <1>2 DEF Turned
  <2> QED BY <1>2, <2>1, JobIs
<1>5. UNCHANGED <<seeding, up, disk, online, greeted>> /\ up
  <2>1. up
    BY <1>1, <1>2 DEF MemoryInv, Starting
  <2> QED BY <2>1 DEF Memory
<1>6. Follows(c, disk)
  BY <1>1, <1>2 DEF MemoryInv, At
<1>7. Agree'
  <2>1. channels' = Loaded(disk) /\ roles' = disk.roles /\ grants' = disk.grants
    BY <1>2, <1>6 DEF Follows
  <2> QED BY <1>5, <2>1 DEF Agree
<1>8. StoreOK(disk)'
  BY <1>5 DEF MemoryInv, StoreOK, Shaped, Keyed
<1>9. Starting'
  <2>1. seeding = <<>>
    BY <1>5 DEF MemoryInv, Starting
  <2> QED BY <1>5, <2>1 DEF Starting
<1>10. \A d \in Session : ~ At(d, "memory")' /\ ~ At(d, "store")'
  BY <1>3, <1>4 DEF At, NoCommand
<1> QED BY <1>7, <1>8, <1>9, <1>10 DEF MemoryInv

\* A step of a command that is neither its write nor its change of memory.
LEMMA TellingKeeps ==
  ASSUME FrameInv, MemoryInv, NEW a \in Session, NEW j, Turned(a, j), busy[a] # NoCommand,
         busy[a].stage # "memory", j = NoCommand \/ j.stage \in {"announce", "copy", "send"},
         UNCHANGED <<serverVars, online, greeted>>
  PROVE  MemoryInv'
<1>1. UNCHANGED <<seeding, up, channels, roles, grants, disk, online, greeted>>
  BY DEF serverVars
<1>2. up /\ seeding = <<>>
  BY DEF MemoryInv, Starting
<1>3. Starting'
  BY <1>1, <1>2 DEF Starting
<1>4. ~ At(a, "memory") /\ ~ At(a, "memory")' /\ ~ At(a, "store")'
  BY DEF At, NoCommand, Turned
<1>5. \A b \in Session : b # a => Held(b)
  BY DEF Turned, Held
<1> QED BY <1>1, <1>3, <1>4, <1>5, MemoryKeeps

LEMMA MemoryNext ==
  ASSUME FrameInv, MemoryInv, OneAtATime, [Next]_vars
  PROVE  MemoryInv'
<1>1. CASE UNCHANGED vars
  <2>1. Starting'
    BY <1>1 DEF MemoryInv, Starting, Seeded, vars, serverVars, NoCommand
  <2> QED BY <1>1, <2>1, MemoryKeeps DEF vars, serverVars, Held
<1>2. CASE Boot
  BY <1>2, BootKeeps
<1>3. CASE SeedChannel
  BY <1>3, SeedKeeps
<1>4. CASE Crash
  <2>1. /\ ~ up' /\ seeding' = <<>> /\ online' = {} /\ greeted' = {} /\ disk' = disk
        /\ \A a \in Session : busy'[a] = NoCommand
    BY <1>4 DEF Crash
  <2>2. StoreOK(disk)'
    BY <2>1 DEF MemoryInv, StoreOK, Shaped, Keyed
  <2>3. Starting'
    BY <2>1 DEF Starting, NoCommand
  <2> QED BY <2>1, <2>2, <2>3, MemoryIdle
<1>5. ASSUME NEW s \in Session, Admit(s) \/ Greet(s) \/ Leave(s) \/ Deliver(s) PROVE MemoryInv'
  <2>1. UNCHANGED <<seeding, up, channels, roles, grants, disk>>
    BY <1>5 DEF Admit, Greet, Leave, Deliver, serverVars
  <2>2. up
    BY <1>5 DEF Admit, Greet, Leave, Deliver, MemoryInv, Starting
  <2>3. Starting'
    <3>1. seeding = <<>>
      BY <2>2 DEF MemoryInv, Starting
    <3> QED BY <2>1, <2>2, <3>1 DEF Starting
  <2>4. ASSUME NEW a \in Session PROVE Held(a)
    <3>1. CASE Leave(s)
      <4>1. PICK b : b = busy[a]
        OBVIOUS
      <4>2. CASE b = NoCommand
        BY <3>1, <4>1, <4>2, LeaveMoves DEF Held
      <4>3. CASE b # NoCommand
        <5>1. PICK j : /\ j = Job(b.cmd, b.stage, Minus(b.before, {s}), b.touched, b.say, b.after, b.rooms)
                       /\ j = busy'[a]
          BY <3>1, <4>1, <4>3, LeaveMoves
        <5>2. j.cmd = b.cmd /\ j.stage = b.stage /\ j # NoCommand
          BY <5>1, JobIs
        <5> QED BY <4>1, <4>3, <5>1, <5>2 DEF Held
      <4> QED BY <4>2, <4>3
    <3>2. CASE Admit(s) \/ Greet(s) \/ Deliver(s)
      <4>1. busy' = busy
        BY <3>2 DEF Admit, Greet, Deliver
      <4> QED BY <4>1 DEF Held
    <3> QED BY <1>5, <3>1, <3>2
  <2> QED BY <2>1, <2>3, <2>4, MemoryKeeps
<1>6. ASSUME NEW a \in Session, CommandOf(a) PROVE MemoryInv'
  <2>1. UNCHANGED <<seeding, up, channels, roles, grants, disk, online, greeted>>
        /\ busy[a] = NoCommand /\ a \in greeted
    BY <1>6, CommandStarts DEF serverVars
  <2>2. PICK c, w, j : /\ Turned(a, j) /\ j = Job(c, "store", w, {}, <<>>, NoRows, NoRows)
                       /\ c.op \in {"update", "set", "unset"} => c.id \in DOMAIN channels
    BY <1>6, CommandStarts
  <2>3. busy'[a].cmd = c /\ busy'[a].stage = "store"
    <3>1. busy'[a] = j
      BY <2>2 DEF Turned
    <3> QED BY <2>2, <3>1, JobIs
  <2>4. up /\ seeding = <<>>
    BY <2>1 DEF MemoryInv, Starting
  <2>5. Starting'
    BY <2>1, <2>4 DEF Starting
  <2>6. ~ At(a, "memory") /\ ~ At(a, "memory")'
    BY <2>1, <2>3 DEF At, NoCommand
  <2>7. \A b \in Session : b # a => Held(b)
    BY <2>2 DEF Turned, Held
  <2> QED BY <2>1, <2>2, <2>3, <2>5, <2>6, <2>7, MemoryKeeps
<1>7. ASSUME NEW a \in Session, Store(a) PROVE MemoryInv'
  BY <1>7, StoreKeeps
<1>8. ASSUME NEW a \in Session, Memory(a) PROVE MemoryInv'
  BY <1>8, MemoryStepKeeps
<1>9. ASSUME NEW a \in Session, StoreFails(a) \/ Acked(a) PROVE MemoryInv'
  BY <1>9, EndMoves, TellingKeeps
<1>10. ASSUME NEW a \in Session, Announce(a) \/ After(a) \/ Copy(a) PROVE MemoryInv'
  <2>1. UNCHANGED <<serverVars, online, greeted>>
    BY <1>10 DEF Announce, After, Copy
  <2>2. PICK b : b = busy[a]
    OBVIOUS
  <2>3. PICK st, y, x, r, j : /\ Turned(a, j) /\ j = Job(b.cmd, st, b.before, b.touched, y, x, r)
                              /\ st \in {"announce", "copy", "send"}
                              /\ b # NoCommand /\ b.stage # "memory"
    <3>1. CASE Announce(a)
      BY <2>2, <3>1, AnnounceMoves
    <3>2. CASE After(a)
      BY <2>2, <3>2, AfterMoves
    <3>3. CASE Copy(a)
      BY <2>2, <3>3, CopyMoves
    <3> QED BY <1>10, <3>1, <3>2, <3>3
  <2>4. j.stage = st
    BY <2>3, JobIs
  <2> QED BY <2>1, <2>2, <2>3, <2>4, TellingKeeps
<1>11. ASSUME NEW a \in Session, NEW s \in Session, Send(a, s) PROVE MemoryInv'
  <2>1. UNCHANGED <<serverVars, online, greeted>>
    BY <1>11 DEF Send
  <2>2. PICK b, j, w : /\ b = busy[a] /\ b # NoCommand /\ b.stage = "send" /\ Turned(a, j)
                       /\ j = Job(b.cmd, "send", w, b.touched, b.say, b.after, b.rooms)
    BY <1>11, SendMoves
  <2>3. j.stage = "send"
    BY <2>2, JobIs
  <2> QED BY <2>1, <2>2, <2>3, TellingKeeps
<1> QED
  BY <1>1, <1>2, <1>3, <1>4, <1>5, <1>6, <1>7, <1>8, <1>9, <1>10, <1>11 DEF Next

\* While no two commands overlap, the channels, roles and grants in memory are
\* what bind would load whenever no command is in flight: after failed writes,
\* after a crash between the write and the change of memory or in the middle of
\* the seeding, and though the id of a deleted channel comes back.
THEOREM MemoryFollowsStore == Spec /\ []OneAtATime => []MemoryIsStore
<1>1. Init => FrameInv /\ MemoryInv
  BY FrameInit, MemoryInit
<1>2. FrameInv /\ MemoryInv /\ OneAtATime /\ [Next]_vars => FrameInv' /\ MemoryInv'
  BY FrameNext, MemoryNext
<1>3. MemoryInv => MemoryIsStore
  BY DEF MemoryInv, MemoryIsStore, Quiet, At, Agree
<1> QED BY <1>1, <1>2, <1>3, PTL DEF Spec

-----------------------------------------------------------------------------
(* What a client knows once the frames on their way have arrived *)

\* What the server would tell s now.
Truth(s) == [seen |-> Visible(s), rooms |-> channels, mine |-> grants[s], roles |-> roles]

Topics == {"list", "room", "mine", "role"}

\* A frame decides, of x: whether it is listed, what the mirror holds under it,
\* whether it is one of the client's roles, and which role it is, if any.
On(s, f, k, x) ==
  CASE k = "list" -> f.k \in {"created", "removed"} /\ f.id = x
    [] k = "room" -> f.k \in {"created", "updated", "removed"} /\ f.id = x
    [] k = "mine" -> (f.k = "mine" /\ f.who = s) \/ (f.k = "roleDeleted" /\ f.id = x)
    [] k = "role" -> f.k \in {"roleUpdated", "roleDeleted"} /\ f.id = x

\* What the frame says of x is true.
Says(T, f, k, x) ==
  CASE k = "list" -> f.k = "created" <=> x \in T.seen
    [] k = "room" -> /\ f.k # "removed" <=> x \in T.seen
                     /\ f.k # "removed" => f.room = T.rooms[x]
    [] k = "mine" -> (f.k = "mine" /\ x \in f.ids) <=> x \in T.mine
    [] k = "role" -> /\ f.k = "roleUpdated" <=> x \in DOMAIN T.roles
                     /\ f.k = "roleUpdated" => f.role = T.roles[x]

\* What a client with the list l and the mirror v holds of x is true.
Knows(T, l, v, k, x) ==
  CASE k = "list" -> x \in l <=> x \in T.seen
    [] k = "room" -> /\ x \in DOMAIN v.channels <=> x \in T.seen
                     /\ x \in T.seen => v.channels[x] = T.rooms[x]
    [] k = "mine" -> x \in v.mine <=> x \in T.mine
    [] k = "role" -> /\ x \in DOMAIN v.roles <=> x \in DOMAIN T.roles
                     /\ x \in DOMAIN T.roles => v.roles[x] = T.roles[x]

\* The last frame of q about x is right; without one, the client is.
LastWord(T, s, q, k, x) ==
  \A i \in 1 .. Len(q) :
    On(s, q[i], k, x) /\ (\A j \in 1 .. Len(q) : j > i => ~ On(s, q[j], k, x)) => Says(T, q[i], k, x)
NoWord(T, s, q, l, v, k, x) ==
  (\A i \in 1 .. Len(q) : ~ On(s, q[i], k, x)) => Knows(T, l, v, k, x)

\* What the command b has yet to tell s: a broadcast, or a difference between
\* what s saw at first and sees now.
Differs(T, b, s, k, x) ==
  CASE k = "list" -> x \in T.seen <=> x \notin b.before[s]
    [] k = "room" -> \/ x \in T.seen <=> x \notin b.before[s]
                     \/ x \in b.touched \cap b.before[s] \cap T.seen
    [] OTHER -> FALSE
Owes(T, b, s, k, x) ==
  \/ \E i \in 1 .. Len(b.say) : On(s, b.say[i], k, x)
  \/ s \in DOMAIN b.before /\ Differs(T, b, s, k, x)

Telling(b) == b # NoCommand /\ b.stage \in {"announce", "copy", "send"}
Stale(s, k, x) == \E a \in Session : Telling(busy[a]) /\ Owes(Truth(s), busy[a], s, k, x)

Told(s, k, x) ==
  /\ LastWord(Truth(s), s, queue[s], k, x)
  /\ s \in greeted => NoWord(Truth(s), s, queue[s], list[s], mirror[s], k, x)

ToldInv == \A s \in online \ raced : \A k \in Topics : \A x : ~ Stale(s, k, x) => Told(s, k, x)

\* The tables, the mirrors and the frames have their shape.
RoomOK(r) == r = Room(r.parent, r.overwrites) /\ IsFun(r.overwrites)
MirrorOK(v) == v \in [channels : {v.channels}, roles : {v.roles}, mine : {v.mine}]

TableInv ==
  /\ \A ch \in DOMAIN channels : RoomOK(channels[ch])
  /\ DOMAIN grants = Session /\ DOMAIN disk.grants = Session

ClientInv ==
  /\ greeted \subseteq online /\ online \subseteq Session
  /\ \A s \in Session : queue[s] # <<>> => s \in online
  /\ \A s \in Session : FramesOK(queue[s])
  /\ DOMAIN list = Session /\ DOMAIN mirror = Session
  /\ \A s \in Session : MirrorOK(mirror[s])

\* Once the first snapshot is taken and until memory changes it is what everyone
\* in it sees, and nothing is on its way to anyone who is not.
Poised(b) == b.stage = "memory" \/ (b.stage = "store" /\ b.cmd.op \notin ChannelOps)

Truthful(f) ==
  /\ f.k \in {"roleUpdated", "roleDeleted", "mine"}
  /\ f.k = "roleUpdated" => f.id \in DOMAIN roles /\ roles[f.id] = f.role
  /\ f.k = "roleDeleted" => f.id \notin DOMAIN roles /\ \A s \in Session : f.id \notin grants[s]
  /\ f.k = "mine" => f.who \in Session /\ f.ids = grants[f.who]

\* Where a command is and what it has read: what it will say is true, and its
\* second snapshot and its copy are of the state it left.
Planned(b) ==
  /\ DOMAIN b.before \subseteq online
  /\ Poised(b) => /\ \A s \in DOMAIN b.before : b.before[s] = Visible(s)
                  /\ \A s \in online \ DOMAIN b.before : queue[s] = <<>>
  /\ b.stage \in {"store", "memory"} /\ b.cmd.op = "rerole" => b.cmd.id \in DOMAIN roles
  /\ b.stage = "memory" /\ b.cmd.op = "create" => b.cmd.id \notin DOMAIN channels
  /\ Telling(b) => \A i \in 1 .. Len(b.say) : Truthful(b.say[i])
  /\ b.stage \in {"copy", "send"} =>
       b.say = <<>> /\ \A s \in DOMAIN b.before : s \in DOMAIN b.after /\ b.after[s] = Visible(s)
  /\ b.stage = "send" => b.rooms = channels

PlanInv == \A a \in Session : busy[a] # NoCommand => Planned(busy[a])

\* What a frame makes of a mirror.
Changes(s, v, f, w) ==
  /\ f.k \in {"created", "updated"} => w.channels = With(v.channels, f.id, f.room)
  /\ f.k = "removed" => w.channels = Minus(v.channels, {f.id})
  /\ f.k \in {"roleUpdated", "roleDeleted", "mine"} => w.channels = v.channels
  /\ f.k = "roleDeleted" => w.roles = Minus(v.roles, {f.id}) /\ w.mine = v.mine \ {f.id}
  /\ f.k = "roleUpdated" => w.roles = With(v.roles, f.id, f.role)
  /\ f.k \notin {"roleUpdated", "roleDeleted"} => w.roles = v.roles
  /\ f.k = "mine" /\ f.who = s => w.mine = f.ids
  /\ ~ (f.k = "roleDeleted" \/ (f.k = "mine" /\ f.who = s)) => w.mine = v.mine

LEMMA MirroredIs ==
  ASSUME NEW s, NEW v, MirrorOK(v), NEW f, f.k \in Kinds
  PROVE  MirrorOK(Mirrored(s, v, f)) /\ Changes(s, v, f, Mirrored(s, v, f))
<1>0. PICK w : w = Mirrored(s, v, f)
  OBVIOUS
<1>1. CASE f.k \in {"created", "updated"}
  <2>1. PICK c : c = With(v.channels, f.id, f.room)
    OBVIOUS
  <2>2. w = [v EXCEPT !.channels = c]
    BY <1>0, <1>1, <2>1 DEF Mirrored
  <2>3. w.channels = c /\ w.roles = v.roles /\ w.mine = v.mine /\ MirrorOK(w)
    BY <2>2 DEF MirrorOK
  <2> QED BY <1>0, <1>1, <2>1, <2>3 DEF Changes
<1>2. CASE f.k = "removed"
  <2>1. PICK c : c = Minus(v.channels, {f.id})
    OBVIOUS
  <2>2. w = [v EXCEPT !.channels = c]
    BY <1>0, <1>2, <2>1 DEF Mirrored
  <2>3. w.channels = c /\ w.roles = v.roles /\ w.mine = v.mine /\ MirrorOK(w)
    BY <2>2 DEF MirrorOK
  <2> QED BY <1>0, <1>2, <2>1, <2>3 DEF Changes
<1>3. CASE f.k = "roleDeleted"
  <2>1. PICK c, d : c = Minus(v.roles, {f.id}) /\ d = v.mine \ {f.id}
    OBVIOUS
  <2>2. w = [v EXCEPT !.roles = c, !.mine = d]
    BY <1>0, <1>3, <2>1 DEF Mirrored
  <2>3. w.channels = v.channels /\ w.roles = c /\ w.mine = d /\ MirrorOK(w)
    BY <2>2 DEF MirrorOK
  <2> QED BY <1>0, <1>3, <2>1, <2>3 DEF Changes
<1>4. CASE f.k = "mine" /\ f.who = s
  <2>1. w = [v EXCEPT !.mine = f.ids]
    BY <1>0, <1>4 DEF Mirrored
  <2>2. w.channels = v.channels /\ w.roles = v.roles /\ w.mine = f.ids /\ MirrorOK(w)
    BY <2>1 DEF MirrorOK
  <2> QED BY <1>0, <1>4, <2>2 DEF Changes
<1>5. CASE f.k = "mine" /\ f.who # s
  <2>1. w = v
    BY <1>0, <1>5 DEF Mirrored
  <2> QED BY <1>0, <1>5, <2>1 DEF Changes
<1>6. CASE f.k = "roleUpdated"
  <2>1. PICK c : c = With(v.roles, f.id, f.role)
    OBVIOUS
  <2>2. w = [v EXCEPT !.roles = c]
    BY <1>0, <1>6, <2>1 DEF Mirrored
  <2>3. w.channels = v.channels /\ w.roles = c /\ w.mine = v.mine /\ MirrorOK(w)
    BY <2>2 DEF MirrorOK
  <2> QED BY <1>0, <1>6, <2>1, <2>3 DEF Changes
<1> QED BY <1>1, <1>2, <1>3, <1>4, <1>5, <1>6 DEF Kinds

\* A true frame about x makes the client right about x, and any other frame
\* leaves it as right as it was.
LEMMA FrameTeaches ==
  ASSUME NEW T, NEW s, NEW l, NEW v, MirrorOK(v), NEW f, f.k \in Kinds, NEW k \in Topics, NEW x,
         \/ On(s, f, k, x) /\ Says(T, f, k, x)
         \/ ~ On(s, f, k, x) /\ Knows(T, l, v, k, x),
         NEW w, w = Mirrored(s, v, f)
  PROVE  Knows(T, Listed(l, f), w, k, x)
<1>0. Changes(s, v, f, w)
  BY MirroredIs
<1>1. CASE k = "list"
  BY <1>1 DEF On, Says, Knows, Listed, Kinds
<1>2. CASE k = "room"
  <2>1. CASE f.k \in {"created", "updated"}
    <3>1. w.channels = With(v.channels, f.id, f.room)
      BY <1>0, <2>1 DEF Changes
    <3> QED BY <1>2, <2>1, <3>1 DEF On, Says, Knows, With
  <2>2. CASE f.k = "removed"
    <3>1. w.channels = Minus(v.channels, {f.id})
      BY <1>0, <2>2 DEF Changes
    <3> QED BY <1>2, <2>2, <3>1 DEF On, Says, Knows, Minus
  <2>3. CASE f.k \in {"roleUpdated", "roleDeleted", "mine"}
    <3>1. w.channels = v.channels
      BY <1>0, <2>3 DEF Changes
    <3> QED BY <1>2, <2>3, <3>1 DEF On, Says, Knows
  <2> QED BY <2>1, <2>2, <2>3 DEF Kinds
<1>3. CASE k = "mine"
  <2>1. CASE f.k = "roleDeleted"
    <3>1. w.mine = v.mine \ {f.id}
      BY <1>0, <2>1 DEF Changes
    <3> QED BY <1>3, <2>1, <3>1 DEF On, Says, Knows
  <2>2. CASE f.k = "mine" /\ f.who = s
    <3>1. w.mine = f.ids
      BY <1>0, <2>2 DEF Changes
    <3> QED BY <1>3, <2>2, <3>1 DEF On, Says, Knows
  <2>3. CASE ~ (f.k = "roleDeleted" \/ (f.k = "mine" /\ f.who = s))
    <3>1. w.mine = v.mine
      BY <1>0, <2>3 DEF Changes
    <3> QED BY <1>3, <2>3, <3>1 DEF On, Says, Knows
  <2> QED BY <2>1, <2>2, <2>3
<1>4. CASE k = "role"
  <2>1. CASE f.k = "roleDeleted"
    <3>1. w.roles = Minus(v.roles, {f.id})
      BY <1>0, <2>1 DEF Changes
    <3> QED BY <1>4, <2>1, <3>1 DEF On, Says, Knows, Minus
  <2>2. CASE f.k = "roleUpdated"
    <3>1. w.roles = With(v.roles, f.id, f.role)
      BY <1>0, <2>2 DEF Changes
    <3> QED BY <1>4, <2>2, <3>1 DEF On, Says, Knows, With
  <2>3. CASE f.k \notin {"roleUpdated", "roleDeleted"}
    <3>1. w.roles = v.roles
      BY <1>0, <2>3 DEF Changes
    <3> QED BY <1>4, <2>3, <3>1 DEF On, Says, Knows
  <2> QED BY <2>1, <2>2, <2>3
<1> QED BY <1>1, <1>2, <1>3, <1>4 DEF Topics

\* The first frame arrives.
LEMMA WordsDelivered ==
  ASSUME NEW T, NEW s, NEW X, NEW q \in Seq(X), q # <<>>, FramesOK(q), NEW l, NEW v, MirrorOK(v),
         NEW k \in Topics, NEW x, LastWord(T, s, q, k, x), NoWord(T, s, q, l, v, k, x),
         NEW w, w = Mirrored(s, v, Head(q))
  PROVE  LastWord(T, s, Tail(q), k, x) /\ NoWord(T, s, Tail(q), Listed(l, Head(q)), w, k, x)
<1>1. PICK f, r, n : f = Head(q) /\ r = Tail(q) /\ n = Len(q)
  OBVIOUS
<1>2. /\ n \in Nat /\ n >= 1 /\ Len(r) = n - 1 /\ f = q[1]
      /\ \A i \in 1 .. (n - 1) : r[i] = q[i + 1] /\ i + 1 \in 1 .. n
  BY <1>1
<1>3. LastWord(T, s, r, k, x)
  <2> SUFFICES ASSUME NEW i \in 1 .. Len(r), On(s, r[i], k, x),
                      \A j \in 1 .. Len(r) : j > i => ~ On(s, r[j], k, x)
               PROVE  Says(T, r[i], k, x)
    BY DEF LastWord
  <2>1. i + 1 \in 1 .. Len(q) /\ q[i + 1] = r[i]
    BY <1>1, <1>2
  <2>2. ASSUME NEW j \in 1 .. Len(q), j > i + 1 PROVE ~ On(s, q[j], k, x)
    <3>1. j - 1 \in 1 .. Len(r) /\ j - 1 > i /\ q[j] = r[j - 1]
      BY <1>1, <1>2, <2>2
    <3> QED BY <3>1
  <2>3. Says(T, q[i + 1], k, x)
    BY <2>1, <2>2 DEF LastWord
  <2> QED BY <2>1, <2>3
<1>4. ASSUME \A i \in 1 .. Len(r) : ~ On(s, r[i], k, x)
      PROVE  Knows(T, Listed(l, f), w, k, x)
  <2>1. ASSUME NEW j \in 1 .. Len(q), j > 1 PROVE ~ On(s, q[j], k, x)
    <3>1. j - 1 \in 1 .. Len(r) /\ q[j] = r[j - 1]
      BY <1>1, <1>2, <2>1
    <3> QED BY <1>4, <3>1
  <2>2. 1 \in 1 .. Len(q) /\ q[1] = f
    BY <1>1, <1>2
  <2>3. f.k \in Kinds
    BY <2>2 DEF FramesOK
  <2>4. CASE On(s, f, k, x)
    <3>1. Says(T, f, k, x)
      BY <2>1, <2>2, <2>4 DEF LastWord
    <3> QED BY <1>1, <2>3, <2>4, <3>1, FrameTeaches
  <2>5. CASE ~ On(s, f, k, x)
    <3>1. \A i \in 1 .. Len(q) : ~ On(s, q[i], k, x)
      <4> SUFFICES ASSUME NEW i \in 1 .. Len(q) PROVE ~ On(s, q[i], k, x)
        OBVIOUS
      <4>1. i = 1 \/ i > 1
        BY <1>1, <1>2
      <4> QED BY <2>1, <2>2, <2>5, <4>1
    <3>2. Knows(T, l, v, k, x)
      BY <3>1 DEF NoWord
    <3> QED BY <1>1, <2>3, <2>5, <3>2, FrameTeaches
  <2> QED BY <2>4, <2>5
<1> QED BY <1>1, <1>3, <1>4 DEF NoWord

\* More frames are queued, all of them true, and one on x if anything was owed of it.
LEMMA WordsQueued ==
  ASSUME NEW T, NEW s, NEW X, NEW q \in Seq(X), NEW G, NEW d \in Seq(G), NEW k, NEW x,
         \A f \in G : On(s, f, k, x) => Says(T, f, k, x), NEW r, r = q \o d,
         NEW l, NEW v, NEW g,
         \/ \E i \in 1 .. Len(d) : On(s, d[i], k, x)
         \/ LastWord(T, s, q, k, x) /\ (g => NoWord(T, s, q, l, v, k, x))
  PROVE  LastWord(T, s, r, k, x) /\ (g => NoWord(T, s, r, l, v, k, x))
<1>1. /\ Len(q) \in Nat /\ Len(d) \in Nat /\ Len(r) = Len(q) + Len(d)
      /\ \A i \in 1 .. Len(q) : r[i] = q[i] /\ i \in 1 .. Len(r)
  OBVIOUS
<1>2. \A i \in 1 .. Len(d) : r[Len(q) + i] = d[i] /\ Len(q) + i \in 1 .. Len(r) /\ d[i] \in G
  OBVIOUS
<1>3. LastWord(T, s, r, k, x)
  <2> SUFFICES ASSUME NEW i \in 1 .. Len(r), On(s, r[i], k, x),
                      \A j \in 1 .. Len(r) : j > i => ~ On(s, r[j], k, x)
               PROVE  Says(T, r[i], k, x)
    BY DEF LastWord
  <2>1. CASE i > Len(q)
    <3>1. i - Len(q) \in 1 .. Len(d) /\ Len(q) + (i - Len(q)) = i
      BY <1>1, <2>1
    <3>2. r[i] \in G
      BY <1>2, <3>1
    <3> QED BY <3>2
  <2>2. CASE ~ (i > Len(q))
    <3>1. i \in 1 .. Len(q) /\ r[i] = q[i]
      BY <1>1, <2>2
    <3>2. \A j \in 1 .. Len(d) : ~ On(s, d[j], k, x)
      <4> SUFFICES ASSUME NEW j \in 1 .. Len(d) PROVE ~ On(s, d[j], k, x)
        OBVIOUS
      <4>1. Len(q) + j > i /\ Len(q) + j \in 1 .. Len(r) /\ r[Len(q) + j] = d[j]
        BY <1>1, <1>2, <2>2
      <4> QED BY <4>1
    <3>3. \A j \in 1 .. Len(q) : j > i => ~ On(s, q[j], k, x)
      BY <1>1
    <3>4. LastWord(T, s, q, k, x)
      BY <3>2
    <3>5. Says(T, q[i], k, x)
      BY <3>1, <3>3, <3>4 DEF LastWord
    <3> QED BY <3>1, <3>5
  <2> QED BY <2>1, <2>2
<1>4. ASSUME g, \A i \in 1 .. Len(r) : ~ On(s, r[i], k, x) PROVE Knows(T, l, v, k, x)
  <2>1. \A i \in 1 .. Len(d) : ~ On(s, d[i], k, x)
    <3> SUFFICES ASSUME NEW i \in 1 .. Len(d) PROVE ~ On(s, d[i], k, x)
      OBVIOUS
    <3>1. Len(q) + i \in 1 .. Len(r) /\ r[Len(q) + i] = d[i]
      BY <1>2
    <3> QED BY <1>4, <3>1
  <2>2. \A i \in 1 .. Len(q) : ~ On(s, q[i], k, x)
    BY <1>1, <1>4
  <2>3. NoWord(T, s, q, l, v, k, x)
    BY <1>4, <2>1
  <2> QED BY <2>2, <2>3 DEF NoWord
<1> QED BY <1>3, <1>4 DEF NoWord

\* As far as x goes, nothing has changed.
Same(T, U, k, x) ==
  CASE k = "list" -> x \in T.seen <=> x \in U.seen
    [] k = "room" -> /\ x \in T.seen <=> x \in U.seen
                     /\ x \in T.seen => T.rooms[x] = U.rooms[x]
    [] k = "mine" -> x \in T.mine <=> x \in U.mine
    [] k = "role" -> /\ x \in DOMAIN T.roles <=> x \in DOMAIN U.roles
                     /\ x \in DOMAIN T.roles => T.roles[x] = U.roles[x]

LEMMA WordsStand ==
  ASSUME NEW T, NEW U, NEW s, NEW q, NEW l, NEW v, NEW k \in Topics, NEW x, Same(T, U, k, x)
  PROVE  /\ LastWord(T, s, q, k, x) => LastWord(U, s, q, k, x)
         /\ NoWord(T, s, q, l, v, k, x) => NoWord(U, s, q, l, v, k, x)
<1>1. ASSUME NEW f PROVE Says(T, f, k, x) => Says(U, f, k, x)
  <2>1. CASE k = "list"
    BY <2>1 DEF Same, Says
  <2>2. CASE k = "room"
    BY <2>2 DEF Same, Says
  <2>3. CASE k = "mine"
    BY <2>3 DEF Same, Says
  <2>4. CASE k = "role"
    BY <2>4 DEF Same, Says
  <2> QED BY <2>1, <2>2, <2>3, <2>4 DEF Topics
<1>2. Knows(T, l, v, k, x) => Knows(U, l, v, k, x)
  <2>1. CASE k = "list"
    BY <2>1 DEF Same, Knows
  <2>2. CASE k = "room"
    BY <2>2 DEF Same, Knows
  <2>3. CASE k = "mine"
    BY <2>3 DEF Same, Knows
  <2>4. CASE k = "role"
    BY <2>4 DEF Same, Knows
  <2> QED BY <2>1, <2>2, <2>3, <2>4 DEF Topics
<1> QED BY <1>1, <1>2 DEF LastWord, NoWord

\* AuthOk tells everything.
LEMMA GreetedKnows ==
  ASSUME NEW T, NEW v, NEW k \in Topics, NEW x,
         v = [channels |-> [ch \in T.seen |-> T.rooms[ch]], roles |-> T.roles, mine |-> T.mine]
  PROVE  Knows(T, T.seen, v, k, x)
<1>1. v.channels = [ch \in T.seen |-> T.rooms[ch]] /\ v.roles = T.roles /\ v.mine = T.mine
  OBVIOUS
<1> QED BY <1>1 DEF Knows, Topics
\* Where the elements of a concatenation come from.
LEMMA ConcatFrom ==
  ASSUME NEW X, NEW Y, NEW q \in Seq(X), NEW d \in Seq(Y)
  PROVE  \A i \in 1 .. Len(q \o d) : (i \in 1 .. Len(q) /\ (q \o d)[i] = q[i]) \/ (q \o d)[i] \in Y
<1>1. q \in Seq(X \cup Y) /\ d \in Seq(X \cup Y)
  OBVIOUS
<1>2. Len(q) \in Nat /\ Len(d) \in Nat /\ Len(q \o d) = Len(q) + Len(d)
  BY <1>1
<1>3. \A i \in 1 .. Len(q) : (q \o d)[i] = q[i]
  BY <1>1, <1>2
<1>4. ASSUME NEW i \in 1 .. Len(q \o d), ~ (i <= Len(q))
      PROVE  (q \o d)[i] \in Y
  <2>1. i - Len(q) \in 1 .. Len(d) /\ (q \o d)[i] = d[i - Len(q)]
    BY <1>1, <1>2, <1>4
  <2>2. \A n \in 1 .. Len(d) : d[n] \in Y
    OBVIOUS
  <2> QED BY <2>1, <2>2
<1> SUFFICES ASSUME NEW i \in 1 .. Len(q \o d)
             PROVE  (i \in 1 .. Len(q) /\ (q \o d)[i] = q[i]) \/ (q \o d)[i] \in Y
  OBVIOUS
<1>5. CASE i <= Len(q)
  <2>1. i \in 1 .. Len(q)
    BY <1>2, <1>5
  <2> QED BY <1>3, <2>1
<1>6. CASE ~ (i <= Len(q))
  BY <1>4, <1>6
<1> QED BY <1>5, <1>6

-----------------------------------------------------------------------------
(* What a command tells *)

LEMMA TruthIs ==
  ASSUME NEW s
  PROVE  /\ Truth(s).seen = Visible(s) /\ Truth(s).rooms = channels
         /\ Truth(s).mine = grants[s] /\ Truth(s).roles = roles
BY DEF Truth

\* What it broadcasts is true,
LEMMA SaidTrue ==
  ASSUME NEW s \in Session, NEW f, Truthful(f), NEW k \in Topics, NEW x, On(s, f, k, x)
  PROVE  Says(Truth(s), f, k, x)
<1>0. PICK T : T = Truth(s) /\ T.mine = grants[s] /\ T.roles = roles
  BY TruthIs
<1> SUFFICES Says(T, f, k, x)
  BY <1>0
<1>1. CASE k \in {"list", "room"}
  BY <1>1 DEF On, Truthful
<1>2. CASE k = "mine"
  BY <1>0, <1>2 DEF On, Says, Truthful
<1>3. CASE k = "role"
  BY <1>0, <1>3 DEF On, Says, Truthful
<1> QED BY <1>1, <1>2, <1>3 DEF Topics

\* so is what its resync sends when snapshot and copy are of this state,
LEMMA DifferenceTrue ==
  ASSUME NEW s, NEW b, b.after[s] = Visible(s), b.rooms = channels,
         NEW f \in DifferenceSet(s, b), NEW k \in Topics, NEW x, On(s, f, k, x)
  PROVE  Says(Truth(s), f, k, x)
<1>0. PICK T : T = Truth(s) /\ T.seen = Visible(s) /\ T.rooms = channels
  BY TruthIs
<1> SUFFICES Says(T, f, k, x)
  BY <1>0
<1>1. \/ f.k = "created" /\ f.id \in T.seen /\ f.room = T.rooms[f.id]
      \/ f.k = "removed" /\ f.id \notin T.seen
      \/ f.k = "updated" /\ f.id \in T.seen /\ f.room = T.rooms[f.id]
  BY <1>0, DifferenceIs
<1>2. CASE k = "list"
  BY <1>1, <1>2 DEF On, Says
<1>3. CASE k = "room"
  BY <1>1, <1>3 DEF On, Says
<1>4. CASE k \in {"mine", "role"}
  BY <1>1, <1>4 DEF On
<1> QED BY <1>2, <1>3, <1>4 DEF Topics

\* and it leaves no difference untold.
LEMMA DifferenceAll ==
  ASSUME NEW s, NEW b, b.after[s] = Visible(s), b.rooms = channels,
         NEW k \in Topics, NEW x, Differs(Truth(s), b, s, k, x)
  PROVE  \E f \in DifferenceSet(s, b) : On(s, f, k, x)
<1>0. PICK T : T = Truth(s) /\ T.seen = Visible(s)
  BY TruthIs
<1>1. Differs(T, b, s, k, x) /\ T.seen \subseteq DOMAIN b.rooms /\ b.after[s] = T.seen
  BY <1>0 DEF Visible
<1>2. ASSUME k \in {"list", "room"}, x \in T.seen, x \notin b.before[s]
      PROVE  \E f \in DifferenceSet(s, b) : On(s, f, k, x)
  <2>1. PICK f : f = ChannelCreated(x, b.rooms[x])
    OBVIOUS
  <2>2. f \in DifferenceSet(s, b)
    BY <1>1, <1>2, <2>1 DEF DifferenceSet, Gained
  <2>3. f.k = "created" /\ f.id = x
    BY <2>1 DEF ChannelCreated
  <2> QED BY <1>2, <2>2, <2>3 DEF On
<1>3. ASSUME k \in {"list", "room"}, x \notin T.seen, x \in b.before[s]
      PROVE  \E f \in DifferenceSet(s, b) : On(s, f, k, x)
  <2>1. PICK f : f = ChannelRemoved(x)
    OBVIOUS
  <2>2. f \in DifferenceSet(s, b)
    BY <1>1, <1>3, <2>1 DEF DifferenceSet, Lost
  <2>3. f.k = "removed" /\ f.id = x
    BY <2>1 DEF ChannelRemoved
  <2> QED BY <1>3, <2>2, <2>3 DEF On
<1>4. ASSUME k = "room", x \in b.touched \cap b.before[s] \cap T.seen
      PROVE  \E f \in DifferenceSet(s, b) : On(s, f, k, x)
  <2>1. PICK f : f = ChannelUpdated(x, b.rooms[x])
    OBVIOUS
  <2>2. f \in DifferenceSet(s, b)
    BY <1>1, <1>4, <2>1 DEF DifferenceSet, Kept
  <2>3. f.k = "updated" /\ f.id = x
    BY <2>1 DEF ChannelUpdated
  <2> QED BY <1>4, <2>2, <2>3 DEF On
<1>5. CASE k = "list"
  BY <1>1, <1>2, <1>3, <1>5 DEF Differs
<1>6. CASE k = "room"
  BY <1>1, <1>2, <1>3, <1>4, <1>6 DEF Differs
<1>7. CASE k \in {"mine", "role"}
  BY <1>1, <1>7 DEF Differs
<1> QED BY <1>5, <1>6, <1>7 DEF Topics

\* What is not broadcast of the roles and the grants does not change.
LEMMA AnnouncedAll ==
  ASSUME NEW c, c.op \in Ops, DOMAIN grants = Session, NEW s \in online, s \in Session, NEW x,
         NEW k, \A f \in AnnouncedSet(c) : ~ On(s, f, k, x)
  PROVE  /\ k = "mine" => (x \in Regranted(c)[s] <=> x \in grants[s])
         /\ k = "role" => /\ x \in DOMAIN roles <=> x \in DOMAIN Reroled(c)
                          /\ x \in DOMAIN roles => roles[x] = Reroled(c)[x]
<1>1. CASE c.op = "unrole"
  <2>1. PICK f : f = RoleDeleted(c.id)
    OBVIOUS
  <2>2. f \in AnnouncedSet(c)
    BY <1>1, <2>1 DEF AnnouncedSet
  <2>3. f.k = "roleDeleted" /\ f.id = c.id
    BY <2>1 DEF RoleDeleted
  <2>4. k \in {"mine", "role"} => x # c.id
    BY <2>2, <2>3 DEF On
  <2>5. Regranted(c)[s] = grants[s] \ {c.id} /\ Reroled(c) = Minus(roles, {c.id})
    BY <1>1 DEF Regranted, Reroled
  <2> QED BY <2>4, <2>5 DEF Minus
<1>2. CASE c.op = "rerole"
  <2>1. PICK f : f = RoleUpdated(c.id, c.role)
    OBVIOUS
  <2>2. f \in AnnouncedSet(c)
    BY <1>2, <2>1 DEF AnnouncedSet
  <2>3. f.k = "roleUpdated" /\ f.id = c.id
    BY <2>1 DEF RoleUpdated
  <2>4. k = "role" => x # c.id
    BY <2>2, <2>3 DEF On
  <2>5. Regranted(c) = grants
    BY <1>2 DEF Regranted
  <2>6. Reroled(c) = roles \/ Reroled(c) = [roles EXCEPT ![c.id] = c.role]
    BY <1>2 DEF Reroled
  <2> QED BY <2>4, <2>5, <2>6
<1>3. CASE c.op = "grant"
  <2>1. Reroled(c) = roles /\ Regranted(c) = [grants EXCEPT ![c.who] = c.ids]
    BY <1>3 DEF Reroled, Regranted
  <2>2. CASE c.who = s
    <3>1. PICK f : f = UserUpdated(s, c.ids)
      OBVIOUS
    <3>2. f \in AnnouncedSet(c)
      BY <1>3, <2>2, <3>1 DEF AnnouncedSet
    <3>3. f.k = "mine" /\ f.who = s
      BY <3>1 DEF UserUpdated
    <3>4. k # "mine"
      BY <3>2, <3>3 DEF On
    <3> QED BY <2>1, <3>4
  <2>3. CASE c.who # s
    BY <2>1, <2>3
  <2> QED BY <2>2, <2>3
<1>4. CASE c.op \notin {"unrole", "rerole", "grant"}
  <2>1. Reroled(c) = roles /\ Regranted(c) = grants
    BY <1>4 DEF Reroled, Regranted
  <2> QED BY <2>1
<1> QED BY <1>1, <1>2, <1>3, <1>4

\* A channel that is kept and not touched is what it was.
LEMMA ChangedElsewhere ==
  ASSUME NEW c, c.op \in Ops, c.op = "create" => c.id \notin DOMAIN channels,
         NEW ch \in DOMAIN channels, RoomOK(channels[ch]), ch \in DOMAIN Changed(c), ch \notin Touched(c)
  PROVE  Changed(c)[ch] = channels[ch]
<1>1. CASE c.op = "create"
  <2>1. Changed(c) = With(channels, c.id, Room(c.parent, NoRows)) /\ ch # c.id
    BY <1>1 DEF Changed
  <2> QED BY <2>1 DEF With
<1>2. CASE c.op = "delete"
  <2>1. Changed(c) = Minus(channels, {c.id})
    BY <1>2 DEF Changed
  <2> QED BY <2>1 DEF Minus
<1>3. CASE c.op = "unrole"
  <2>1. PICK r, p, o : r = RoleTarget(c.id) /\ p = channels[ch].parent /\ o = channels[ch].overwrites
    OBVIOUS
  <2>2. Changed(c)[ch] = [channels[ch] EXCEPT !.overwrites = Minus(channels[ch].overwrites, {r})]
    BY <1>3, <2>1 DEF Changed, Stripped
  <2>3. channels[ch] = Room(p, o) /\ IsFun(o)
    BY <2>1 DEF RoomOK
  <2>4. r \notin DOMAIN o
    BY <1>3, <2>1 DEF Touched
  <2>5. Minus(o, {r}) = o
    BY <2>3, <2>4 DEF Minus, IsFun
  <2>6. Changed(c)[ch] = Room(p, o)
    BY <2>1, <2>2, <2>3, <2>5, RoomFacts
  <2> QED BY <2>3, <2>6
<1>4. CASE c.op \in {"update", "set", "unset"}
  <2>1. ch # c.id
    BY <1>4 DEF Touched
  <2> QED BY <1>4, <2>1 DEF Changed, update_channel_mem
<1>5. CASE c.op \in {"grant", "rerole"}
  BY <1>5 DEF Changed
<1> QED BY <1>1, <1>2, <1>3, <1>4, <1>5 DEF Ops, ChannelOps

-----------------------------------------------------------------------------
(* The shapes *)

LEMMA LoadedRooms ==
  ASSUME NEW d, NEW f, f = Loaded(d), NEW ch \in DOMAIN f
  PROVE  RoomOK(f[ch])
<1>1. f[ch] = Room(d.channels[ch], RowsFor(d.overwrites, ch))
  BY LoadedFacts
<1>2. IsFun(RowsFor(d.overwrites, ch))
  BY DEF RowsFor, IsFun
<1> QED BY <1>1, <1>2, RoomFacts DEF RoomOK

LEMMA WrittenGrants ==
  ASSUME Shaped(disk), DOMAIN disk.grants = Session, NEW c, c.op \in Ops, NEW e, e = Written(disk, c)
  PROVE  DOMAIN e.grants = Session
<1>1. CASE c.op = "unrole"
  <2>1. PICK less : less = [s \in Session |-> disk.grants[s] \ {c.id}]
    OBVIOUS
  <2>2. e = [disk EXCEPT !.roles = Minus(disk.roles, {c.id}),
                         !.overwrites = Minus(disk.overwrites, RowsNaming(c.id)), !.grants = less]
    BY <1>1, <2>1 DEF Written
  <2>3. e.grants = less
    BY <2>2 DEF Shaped
  <2> QED BY <2>1, <2>3
<1>2. CASE c.op = "grant"
  <2>1. PICK g : g = [disk.grants EXCEPT ![c.who] = c.ids]
    OBVIOUS
  <2>2. e = [disk EXCEPT !.grants = g]
    BY <1>2, <2>1 DEF Written
  <2>3. e.grants = g
    BY <2>2 DEF Shaped
  <2> QED BY <2>1, <2>3
<1>3. CASE c.op = "delete"
  <2>1. e = [disk EXCEPT !.channels = Minus(disk.channels, {c.id}),
                         !.overwrites = Minus(disk.overwrites, RowsOf(c.id))]
    BY <1>3 DEF Written, DeletedChannel
  <2> QED BY <2>1 DEF Shaped
<1>4. CASE c.op \in {"create", "update"}
  <2>1. \/ e = disk
        \/ \E v : e = [disk EXCEPT !.channels = v]
    BY <1>4 DEF Written
  <2> QED BY <2>1 DEF Shaped
<1>5. CASE c.op \in {"set", "unset"}
  <2>1. \E v : e = [disk EXCEPT !.overwrites = v]
    BY <1>5 DEF Written
  <2> QED BY <2>1 DEF Shaped
<1>6. CASE c.op = "rerole"
  <2>1. e = disk \/ \E v : e = [disk EXCEPT !.roles = v]
    BY <1>6 DEF Written
  <2> QED BY <2>1 DEF Shaped
<1> QED BY <1>1, <1>2, <1>3, <1>4, <1>5, <1>6 DEF Ops, ChannelOps

LEMMA TableNext ==
  ASSUME FrameInv, MemoryInv, TableInv, [Next]_vars
  PROVE  TableInv'
<1>1. ASSUME UNCHANGED <<channels, grants, disk>> PROVE TableInv'
  BY <1>1 DEF TableInv
<1>2. CASE Boot
  <2>1. disk' = disk
    BY <1>2 DEF Boot
  <2>2. UNCHANGED <<channels, grants>> \/ (channels' = Loaded(disk) /\ grants' = disk.grants)
    BY <1>2 DEF Boot
  <2>3. CASE channels' = Loaded(disk) /\ grants' = disk.grants
    <3>1. PICK f : f = channels'
      OBVIOUS
    <3>2. \A ch \in DOMAIN f : RoomOK(f[ch])
      BY <2>3, <3>1, LoadedRooms
    <3> QED BY <2>1, <2>3, <3>1, <3>2 DEF TableInv
  <2> QED BY <1>1, <2>1, <2>2, <2>3
<1>3. CASE SeedChannel
  <2>1. disk'.grants = disk.grants
    BY <1>3 DEF SeedChannel, FrameInv, Shaped
  <2>2. DOMAIN grants' = Session
    BY <1>3 DEF SeedChannel, TableInv
  <2>3. \A ch \in DOMAIN channels' : RoomOK(channels'[ch])
    <3>1. CASE channels' = channels
      BY <3>1 DEF TableInv
    <3>2. CASE channels' # channels
      <4>1. PICK d, f : d = disk' /\ f = channels'
        OBVIOUS
      <4>2. f = Loaded(d)
        BY <1>3, <3>2, <4>1 DEF SeedChannel, Loaded
      <4>3. \A ch \in DOMAIN f : RoomOK(f[ch])
        BY <4>2, LoadedRooms
      <4> QED BY <4>1, <4>3
    <3> QED BY <3>1, <3>2
  <2> QED BY <2>1, <2>2, <2>3 DEF TableInv
<1>4. CASE Crash
  <2>1. DOMAIN channels' = {} /\ UNCHANGED <<grants, disk>>
    BY <1>4 DEF Crash, NoRows
  <2> QED BY <2>1 DEF TableInv
<1>5. ASSUME NEW a \in Session, Store(a) PROVE TableInv'
  <2>1. PICK c : c.op \in Ops /\ disk' = Written(disk, c)
    BY <1>5, StoreMoves DEF InFlight
  <2>2. PICK e : e = Written(disk, c)
    OBVIOUS
  <2>3. DOMAIN e.grants = Session
    BY <2>1, <2>2, WrittenGrants DEF FrameInv, TableInv
  <2>4. UNCHANGED <<channels, grants>>
    BY <1>5 DEF Store
  <2> QED BY <2>1, <2>2, <2>3, <2>4 DEF TableInv
<1>6. ASSUME NEW a \in Session, Memory(a) PROVE TableInv'
  <2>1. PICK c : c = busy[a].cmd
    OBVIOUS
  <2>2. channels' = Changed(c) /\ disk' = disk /\ At(a, "memory")
    BY <1>6, <2>1 DEF Memory, At
  <2>3. channels' = Loaded(disk)
    BY <2>1, <2>2 DEF MemoryInv, Follows
  <2>4. PICK f : f = channels'
    OBVIOUS
  <2>5. \A ch \in DOMAIN f : RoomOK(f[ch])
    BY <2>3, <2>4, LoadedRooms
  <2>6. DOMAIN grants' = Session
    <3>1. \/ grants' = [s \in Session |-> grants[s] \ {c.id}]
          \/ grants' = [grants EXCEPT ![c.who] = c.ids]
          \/ grants' = grants
      BY <1>6, <2>1 DEF Memory, Regranted
    <3> QED BY <3>1 DEF TableInv
  <2> QED BY <2>2, <2>4, <2>5, <2>6 DEF TableInv
<1>7. ASSUME NEW a \in Session, CommandOf(a) PROVE TableInv'
  BY <1>1, <1>7, CommandStarts DEF serverVars
<1>8. \/ UNCHANGED <<channels, grants, disk>> \/ Boot \/ SeedChannel \/ Crash
      \/ \E a \in Session : CommandOf(a) \/ Store(a) \/ Memory(a)
  BY DEF Next, vars, serverVars, Admit, Greet, Leave, Deliver, StoreFails, Announce, After,
         Copy, Send, Acked
<1> QED BY <1>1, <1>2, <1>3, <1>4, <1>5, <1>6, <1>7, <1>8

LEMMA NobodyShape ==
  ASSUME online' = {}, greeted' = {}, queue' = [s \in Session |-> <<>>],
         list' = [s \in Session |-> {}], mirror' = [s \in Session |-> NoMirror]
  PROVE  ClientInv'
<1>1. MirrorOK(NoMirror)
  BY DEF MirrorOK, NoMirror
<1>2. FramesOK(<<>>)
  BY DEF FramesOK
<1> QED BY <1>1, <1>2 DEF ClientInv, FramesOK, MirrorOK

LEMMA ClientNext ==
  ASSUME FrameInv, ClientInv, PlanInv, [Next]_vars
  PROVE  ClientInv'
<1>1. ASSUME UNCHANGED <<online, greeted, queue, list, mirror>> PROVE ClientInv'
  BY <1>1 DEF ClientInv, FramesOK, MirrorOK
<1>2. CASE Crash
  BY <1>2, NobodyShape DEF Crash
<1>3. ASSUME NEW s \in Session, Admit(s) PROVE ClientInv'
  BY <1>3 DEF Admit, ClientInv, FramesOK, MirrorOK, clientVars
<1>4. ASSUME NEW s \in Session, Greet(s) PROVE ClientInv'
  <2>1. PICK v : /\ mirror' = [mirror EXCEPT ![s] = v]
                 /\ v = [channels |-> [ch \in Visible(s) |-> channels[ch]], roles |-> roles,
                         mine |-> grants[s]]
    BY <1>4 DEF Greet
  <2>2. MirrorOK(v)
    BY <2>1 DEF MirrorOK
  <2>3. DOMAIN mirror' = Session /\ \A r \in Session : MirrorOK(mirror'[r])
    BY <2>1, <2>2 DEF ClientInv
  <2>4. DOMAIN list' = Session /\ UNCHANGED <<online, queue>>
    BY <1>4 DEF Greet, ClientInv
  <2>5. greeted' \subseteq online'
    BY <1>4 DEF Greet, ClientInv
  <2> QED BY <2>3, <2>4, <2>5 DEF ClientInv, FramesOK, MirrorOK
<1>5. ASSUME NEW s \in Session, Leave(s) PROVE ClientInv'
  <2>1. /\ queue' = [queue EXCEPT ![s] = <<>>] /\ online' = online \ {s} /\ greeted' = greeted \ {s}
        /\ DOMAIN list' = Session /\ mirror' = [mirror EXCEPT ![s] = NoMirror]
    BY <1>5 DEF Leave, ClientInv
  <2>2. MirrorOK(NoMirror)
    BY DEF MirrorOK, NoMirror
  <2>3. DOMAIN mirror' = Session /\ \A r \in Session : MirrorOK(mirror'[r])
    BY <2>1, <2>2 DEF ClientInv
  <2>4. \A r \in Session : queue'[r] = (IF r = s THEN <<>> ELSE queue[r])
    BY <2>1 DEF FrameInv
  <2>5. FramesOK(<<>>)
    BY DEF FramesOK
  <2>6. \A r \in Session : FramesOK(queue'[r]) /\ (queue'[r] # <<>> => r \in online')
    BY <2>1, <2>4, <2>5 DEF ClientInv
  <2> QED BY <2>1, <2>3, <2>6 DEF ClientInv, FramesOK, MirrorOK
<1>6. ASSUME NEW s \in Session, Deliver(s) PROVE ClientInv'
  <2>1. PICK q, f, v : q = queue[s] /\ f = Head(q) /\ v = mirror[s]
    OBVIOUS
  <2>2. /\ queue' = [queue EXCEPT ![s] = Tail(q)] /\ q # <<>> /\ UNCHANGED <<online, greeted>>
        /\ DOMAIN list' = Session /\ mirror' = [mirror EXCEPT ![s] = Mirrored(s, v, f)]
        /\ s \in online
    BY <1>6, <2>1 DEF Deliver, ClientInv
  <2>3. PICK X : q \in Seq(X)
    BY <2>1 DEF FrameInv
  <2>4. /\ 1 \in 1 .. Len(q) /\ f = q[1]
        /\ \A i \in 1 .. Len(Tail(q)) : i + 1 \in 1 .. Len(q) /\ Tail(q)[i] = q[i + 1]
    BY <2>1, <2>2, <2>3
  <2>5. FramesOK(q)
    BY <2>1 DEF ClientInv
  <2>6. f.k \in Kinds /\ FramesOK(Tail(q))
    BY <2>4, <2>5 DEF FramesOK
  <2>7. MirrorOK(Mirrored(s, v, f))
    BY <2>1, <2>6, MirroredIs DEF ClientInv
  <2>8. DOMAIN mirror' = Session /\ \A r \in Session : MirrorOK(mirror'[r])
    BY <2>2, <2>7 DEF ClientInv
  <2>9. \A r \in Session : queue'[r] = (IF r = s THEN Tail(q) ELSE queue[r])
    BY <2>2 DEF FrameInv
  <2>10. \A r \in Session : FramesOK(queue'[r]) /\ (queue'[r] # <<>> => r \in online')
    BY <2>2, <2>6, <2>9 DEF ClientInv
  <2> QED BY <2>2, <2>8, <2>10 DEF ClientInv, FramesOK, MirrorOK
<1>7. ASSUME NEW a \in Session, Announce(a) PROVE ClientInv'
  <2>1. UNCHANGED <<online, greeted, list, mirror>>
    BY <1>7 DEF Announce, clientVars
  <2>2. PICK b, f : b = busy[a] /\ f = Head(b.say)
    OBVIOUS
  <2>3. f.k \in Kinds
    <3>1. InFlight(b) /\ b.say # <<>>
      BY <1>7, <2>2, AnnounceMoves
    <3>2. PICK y, Y : y = b.say /\ y \in Seq(Y)
      BY <3>1 DEF InFlight
    <3>3. 1 \in 1 .. Len(y) /\ f = y[1]
      BY <2>2, <3>1, <3>2
    <3> QED BY <3>1, <3>2, <3>3 DEF InFlight, FramesOK
  <2>4. ASSUME NEW s \in Session
        PROVE  FramesOK(queue'[s]) /\ (queue'[s] # <<>> => s \in online)
    <3>1. PICK q, X : q = queue[s] /\ q \in Seq(X)
      BY DEF FrameInv
    <3>2. FramesOK(q) /\ (q # <<>> => s \in online)
      BY <3>1 DEF ClientInv
    <3>3. queue'[s] = IF s \in online THEN Append(q, f) ELSE q
      BY <1>7, <2>2, <3>1 DEF Announce
    <3>4. FramesOK(Append(q, f))
      <4>1. \A i \in 1 .. Len(Append(q, f)) :
              (i \in 1 .. Len(q) /\ Append(q, f)[i] = q[i]) \/ Append(q, f)[i] = f
        BY <3>1
      <4> QED BY <2>3, <3>2, <4>1 DEF FramesOK
    <3> QED BY <3>2, <3>3, <3>4
  <2> QED BY <2>1, <2>4 DEF ClientInv, FramesOK, MirrorOK
<1>8. ASSUME NEW a \in Session, NEW s \in Session, Send(a, s) PROVE ClientInv'
  <2>1. UNCHANGED <<online, greeted, list, mirror>>
    BY <1>8 DEF Send, clientVars
  <2>2. PICK b : b = busy[a]
    OBVIOUS
  <2>3. InFlight(b) /\ b # NoCommand /\ b.stage = "send" /\ s \in DOMAIN b.before
    BY <1>8, <2>2, SendMoves
  <2>4. s \in online
    BY <2>2, <2>3 DEF PlanInv, Planned
  <2>5. PICK d, G : /\ d = (IF s \in DOMAIN b.after THEN Difference(s, b) ELSE <<>>)
                    /\ G = DifferenceSet(s, b) /\ d \in Seq(G)
    <3>1. Lists(Difference(s, b), DifferenceSet(s, b))
      BY <2>3, DifferenceLists DEF InFlight
    <3>2. <<>> \in Seq(DifferenceSet(s, b))
      OBVIOUS
    <3> QED BY <3>1, <3>2 DEF Lists
  <2>6. \A f \in G : f.k \in Kinds
    BY <2>5, DifferenceIs DEF Kinds
  <2>7. PICK q, X : q = queue[s] /\ q \in Seq(X)
    BY DEF FrameInv
  <2>8. queue' = [queue EXCEPT ![s] = q \o d]
    BY <1>8, <2>2, <2>5, <2>7 DEF Send
  <2>9. FramesOK(q \o d)
    <3>1. \A i \in 1 .. Len(q \o d) :
            (i \in 1 .. Len(q) /\ (q \o d)[i] = q[i]) \/ (q \o d)[i] \in G
      BY <2>5, <2>7, ConcatFrom
    <3>2. FramesOK(q)
      BY <2>7 DEF ClientInv
    <3> QED BY <2>6, <3>1, <3>2 DEF FramesOK
  <2>10. \A r \in Session : FramesOK(queue'[r]) /\ (queue'[r] # <<>> => r \in online)
    BY <2>4, <2>8, <2>9 DEF ClientInv, FrameInv
  <2> QED BY <2>1, <2>10 DEF ClientInv, FramesOK, MirrorOK
<1>9. ASSUME NEW a \in Session, CommandOf(a) PROVE ClientInv'
  BY <1>1, <1>9, CommandStarts DEF clientVars
<1>10. \/ UNCHANGED <<online, greeted, queue, list, mirror>> \/ Crash
      \/ \E a \in Session : \/ Admit(a) \/ Greet(a) \/ Leave(a) \/ Deliver(a) \/ CommandOf(a)
                            \/ Announce(a) \/ \E s \in Session : Send(a, s)
  BY DEF Next, vars, clientVars, Boot, SeedChannel, Store, StoreFails, Memory, After, Copy, Acked
<1> QED BY <1>1, <1>2, <1>3, <1>4, <1>5, <1>6, <1>7, <1>8, <1>9, <1>10

-----------------------------------------------------------------------------
(* What a command has read stays true *)

\* e is b, with fewer left to tell.
Carries(e, b) ==
  /\ e.cmd = b.cmd /\ e.stage = b.stage /\ e.touched = b.touched /\ e.say = b.say
  /\ e.after = b.after /\ e.rooms = b.rooms
  /\ DOMAIN e.before \subseteq DOMAIN b.before
  /\ \A s \in DOMAIN e.before : e.before[s] = b.before[s]

LEMMA SeenStands ==
  ASSUME UNCHANGED <<channels, roles, grants>>
  PROVE  /\ \A s : Visible(s)' = Visible(s) /\ Truth(s)' = Truth(s)
         /\ \A f : Truthful(f) => Truthful(f)'
<1>1. ASSUME NEW s PROVE Visible(s)' = Visible(s) /\ Truth(s)' = Truth(s)
  BY DEF Truth, Visible, Can
<1>2. ASSUME NEW f, Truthful(f) PROVE Truthful(f)'
  BY <1>2 DEF Truthful
<1> QED BY <1>1, <1>2

LEMMA PlanStays ==
  ASSUME UNCHANGED <<channels, roles, grants>>, NEW b, b # NoCommand, Planned(b), NEW e, Carries(e, b),
         DOMAIN e.before \subseteq online',
         Poised(b) => \A s \in online' \ DOMAIN e.before : queue'[s] = <<>>
  PROVE  Planned(e)'
<1>1. /\ \A s : Visible(s)' = Visible(s)
      /\ \A f : Truthful(f) => Truthful(f)'
  BY SeenStands
<1>2. Poised(e) <=> Poised(b)
  BY DEF Poised, Carries
<1>3. Poised(e) => /\ \A s \in DOMAIN e.before : e.before[s] = Visible(s)'
                   /\ \A s \in online' \ DOMAIN e.before : queue'[s] = <<>>
  BY <1>1, <1>2 DEF Planned, Carries
<1>4. Telling(e) => \A i \in 1 .. Len(e.say) : Truthful(e.say[i])'
  <2> SUFFICES ASSUME Telling(e), NEW i \in 1 .. Len(e.say) PROVE Truthful(e.say[i])'
    OBVIOUS
  <2>1. b # NoCommand /\ b.stage \in {"announce", "copy", "send"}
    BY DEF Telling, Carries, NoCommand
  <2>2. PICK f : f = e.say[i]
    OBVIOUS
  <2>3. Truthful(f)
    BY <2>1, <2>2 DEF Planned, Telling, Carries
  <2> QED BY <1>1, <2>2, <2>3
<1>5. e.stage \in {"copy", "send"} =>
        e.say = <<>> /\ \A s \in DOMAIN e.before : s \in DOMAIN e.after /\ e.after[s] = Visible(s)'
  BY <1>1 DEF Planned, Carries
<1>6. /\ e.stage \in {"store", "memory"} /\ e.cmd.op = "rerole" => e.cmd.id \in DOMAIN roles'
      /\ e.stage = "memory" /\ e.cmd.op = "create" => e.cmd.id \notin DOMAIN channels'
      /\ e.stage = "send" => e.rooms = channels'
  BY DEF Planned, Carries
<1> QED BY <1>3, <1>4, <1>5, <1>6 DEF Planned, Poised, Telling, NoCommand

LEMMA PlanFrom ==
  ASSUME \A a \in Session : \A e : e = busy'[a] /\ e # NoCommand => Planned(e)'
  PROVE  PlanInv'
<1> SUFFICES ASSUME NEW a \in Session, (busy[a] # NoCommand)' PROVE Planned(busy[a])'
  BY DEF PlanInv
<1>1. PICK e : e = busy'[a]
  OBVIOUS
<1>2. Planned(e)'
  BY <1>1 DEF NoCommand
<1> QED BY <1>1, <1>2 DEF Planned, Poised, Telling, Truthful, NoCommand

\* One command moves.
LEMMA PlanTurned ==
  ASSUME PlanInv, NEW a \in Session, NEW j, Turned(a, j), j # NoCommand => Planned(j)',
         \/ \A d \in Session : d # a => busy[d] = NoCommand
         \/ UNCHANGED <<channels, roles, grants, online, queue>>
  PROVE  PlanInv'
<1> SUFFICES ASSUME NEW d \in Session, NEW e, e = busy'[d], e # NoCommand PROVE Planned(e)'
  BY PlanFrom
<1>1. CASE d = a
  BY <1>1 DEF Turned
<1>2. CASE d # a
  <2>1. e = busy[d]
    BY <1>2 DEF Turned
  <2>2. UNCHANGED <<channels, roles, grants, online, queue>>
    BY <1>2, <2>1
  <2>3. Planned(e) /\ Carries(e, e)
    BY <2>1 DEF PlanInv, Carries
  <2>4. DOMAIN e.before \subseteq online'
    BY <2>2, <2>3 DEF Planned
  <2>5. Poised(e) => \A s \in online' \ DOMAIN e.before : queue'[s] = <<>>
    BY <2>2, <2>3 DEF Planned
  <2> QED BY <2>2, <2>3, <2>4, <2>5, PlanStays
<1> QED BY <1>1, <1>2

\* What a role command broadcasts is what it has made true.
LEMMA AnnouncedTrue ==
  ASSUME NEW c, NEW f \in AnnouncedSet(c), DOMAIN grants = Session, online \subseteq Session,
         c.op = "rerole" => c.id \in DOMAIN roles,
         roles' = Reroled(c), grants' = Regranted(c)
  PROVE  Truthful(f)'
<1>1. CASE c.op = "unrole"
  <2>1. roles' = Minus(roles, {c.id}) /\ grants' = [s \in Session |-> grants[s] \ {c.id}]
    BY <1>1 DEF Reroled, Regranted
  <2>2. c.id \notin DOMAIN roles' /\ \A s \in Session : grants'[s] = grants[s] \ {c.id}
    BY <2>1 DEF Minus
  <2>3. \/ f.k = "roleDeleted" /\ f.id = c.id
        \/ f.k = "mine" /\ f.who \in online /\ f.ids = grants[f.who] \ {c.id}
    BY <1>1, AnnouncedIs
  <2> QED BY <2>2, <2>3 DEF Truthful
<1>2. CASE c.op = "rerole"
  <2>1. roles' = [roles EXCEPT ![c.id] = c.role]
    BY <1>2 DEF Reroled
  <2>2. c.id \in DOMAIN roles' /\ roles'[c.id] = c.role
    BY <1>2, <2>1
  <2>3. f.k = "roleUpdated" /\ f.id = c.id /\ f.role = c.role
    BY <1>2, AnnouncedIs
  <2> QED BY <2>2, <2>3 DEF Truthful
<1>3. CASE c.op = "grant"
  <2>1. grants' = [grants EXCEPT ![c.who] = c.ids]
    BY <1>3 DEF Regranted
  <2>2. f.k = "mine" /\ f.who = c.who /\ f.who \in online /\ f.ids = c.ids
    BY <1>3, AnnouncedIs
  <2>3. f.who \in Session /\ grants'[f.who] = f.ids
    BY <2>1, <2>2
  <2> QED BY <2>2, <2>3 DEF Truthful
<1> QED BY <1>1, <1>2, <1>3, AnnouncedIs

LEMMA PlanSessions ==
  ASSUME FrameInv, ClientInv, PlanInv, NEW s \in Session,
         Admit(s) \/ Greet(s) \/ Leave(s) \/ Deliver(s)
  PROVE  PlanInv'
<1>1. UNCHANGED <<channels, roles, grants>>
  BY DEF Admit, Greet, Leave, Deliver, serverVars
<1> SUFFICES ASSUME NEW a \in Session, NEW e, e = busy'[a], e # NoCommand PROVE Planned(e)'
  BY PlanFrom
<1>2. PICK b : b = busy[a]
  OBVIOUS
<1>3. ASSUME b # NoCommand, Carries(e, b), DOMAIN e.before \subseteq online',
             \A r \in online' \ DOMAIN e.before :
               queue'[r] = <<>> \/ (r \in online \ DOMAIN b.before /\ queue'[r] = queue[r])
      PROVE  Planned(e)'
  <2>1. Planned(b)
    BY <1>2, <1>3 DEF PlanInv
  <2>2. Poised(b) => \A r \in online' \ DOMAIN e.before : queue'[r] = <<>>
    BY <1>3, <2>1 DEF Planned
  <2> QED BY <1>1, <1>3, <2>1, <2>2, PlanStays
<1>4. CASE Admit(s)
  <2>1. e = b /\ online' = online \cup {s} /\ s \notin online /\ queue' = queue
    BY <1>2, <1>4 DEF Admit
  <2>2. Carries(e, b) /\ queue[s] = <<>> /\ Planned(b)
    BY <1>2, <2>1 DEF Carries, ClientInv, PlanInv
  <2>3. DOMAIN e.before \subseteq online'
    BY <2>1, <2>2 DEF Planned
  <2> QED BY <1>3, <2>1, <2>2, <2>3
<1>5. CASE Greet(s)
  <2>1. e = b /\ online' = online /\ queue' = queue
    BY <1>2, <1>5 DEF Greet
  <2>2. Carries(e, b) /\ Planned(b)
    BY <1>2, <2>1 DEF Carries, PlanInv
  <2>3. DOMAIN e.before \subseteq online'
    BY <2>1, <2>2 DEF Planned
  <2> QED BY <1>3, <2>1, <2>2, <2>3
<1>6. CASE Leave(s)
  <2>1. online' = online \ {s} /\ queue' = [queue EXCEPT ![s] = <<>>]
    BY <1>6 DEF Leave
  <2>2. PICK w : w = Minus(b.before, {s})
    OBVIOUS
  <2>3. b # NoCommand /\ e = Job(b.cmd, b.stage, w, b.touched, b.say, b.after, b.rooms)
    BY <1>2, <1>6, <2>2, LeaveMoves
  <2>4. /\ e.cmd = b.cmd /\ e.stage = b.stage /\ e.before = w /\ e.touched = b.touched
        /\ e.say = b.say /\ e.after = b.after /\ e.rooms = b.rooms
    BY <2>3, JobIs
  <2>5. Carries(e, b) /\ DOMAIN e.before = DOMAIN b.before \ {s}
    BY <2>2, <2>4 DEF Carries, Minus
  <2>6. Planned(b)
    BY <1>2, <2>3 DEF PlanInv
  <2>7. DOMAIN e.before \subseteq online'
    BY <2>1, <2>5, <2>6 DEF Planned
  <2>8. \A r \in online' \ DOMAIN e.before : r \in online \ DOMAIN b.before /\ queue'[r] = queue[r]
    BY <2>1, <2>5 DEF FrameInv
  <2> QED BY <1>3, <2>3, <2>5, <2>7, <2>8
<1>7. CASE Deliver(s)
  <2>1. e = b /\ online' = online /\ queue[s] # <<>> /\ queue' = [queue EXCEPT ![s] = Tail(queue[s])]
    BY <1>2, <1>7 DEF Deliver
  <2>2. Carries(e, b) /\ Planned(b)
    BY <1>2, <2>1 DEF Carries, PlanInv
  <2>3. DOMAIN e.before \subseteq online'
    BY <2>1, <2>2 DEF Planned
  <2>4. Poised(b) => \A r \in online' \ DOMAIN e.before : queue'[r] = <<>>
    <3> SUFFICES ASSUME Poised(b), NEW r \in online' \ DOMAIN e.before PROVE queue'[r] = <<>>
      OBVIOUS
    <3>1. queue[r] = <<>> /\ r # s
      BY <2>1, <2>2 DEF Planned
    <3> QED BY <2>1, <3>1
  <2> QED BY <1>1, <2>1, <2>2, <2>3, <2>4, PlanStays
<1> QED BY <1>4, <1>5, <1>6, <1>7

LEMMA PlanNext ==
  ASSUME FrameInv, MemoryInv, TableInv, ClientInv, PlanInv, OneAtATime, [Next]_vars
  PROVE  PlanInv'
<1>1. ASSUME UNCHANGED <<channels, roles, grants, online, queue, busy>> PROVE PlanInv'
  <2> SUFFICES ASSUME NEW a \in Session, NEW e, e = busy'[a], e # NoCommand PROVE Planned(e)'
    BY PlanFrom
  <2>1. Planned(e) /\ Carries(e, e)
    BY <1>1 DEF PlanInv, Carries
  <2>2. DOMAIN e.before \subseteq online'
    BY <1>1, <2>1 DEF Planned
  <2>3. Poised(e) => \A s \in online' \ DOMAIN e.before : queue'[s] = <<>>
    BY <1>1, <2>1 DEF Planned
  <2> QED BY <1>1, <2>1, <2>2, <2>3, PlanStays
<1>2. ASSUME \A a \in Session : busy'[a] = NoCommand PROVE PlanInv'
  BY <1>2 DEF PlanInv, NoCommand
<1>3. CASE Boot \/ SeedChannel
  <2>1. busy' = busy /\ \A a \in Session : busy[a] = NoCommand
    BY <1>3 DEF Boot, SeedChannel, MemoryInv, Starting
  <2> QED BY <1>2, <2>1
<1>4. CASE Crash
  BY <1>2, <1>4 DEF Crash
<1>5. ASSUME NEW s \in Session, Admit(s) \/ Greet(s) \/ Leave(s) \/ Deliver(s) PROVE PlanInv'
  BY <1>5, PlanSessions
<1>6. ASSUME NEW a \in Session, busy[a] # NoCommand
      PROVE  \A d \in Session : d # a => busy[d] = NoCommand
  BY <1>6 DEF OneAtATime
<1>7. DOMAIN Snapshot = online /\ \A s \in online : Snapshot[s] = Visible(s)
  BY DEF Snapshot
<1>8. ASSUME NEW a \in Session, CommandOf(a) PROVE PlanInv'
  <2>1. UNCHANGED <<channels, roles, grants, online, queue>>
    BY <1>8, CommandStarts DEF serverVars
  <2>2. PICK c, w, j : /\ Turned(a, j) /\ j = Job(c, "store", w, {}, <<>>, NoRows, NoRows)
                       /\ w = (IF c.op \in ChannelOps THEN NoRows ELSE Snapshot)
                       /\ c.op = "rerole" => c.id \in DOMAIN roles
    BY <1>8, CommandStarts
  <2>3. j.cmd = c /\ j.before = w /\ j.stage = "store"
    BY <2>2, JobIs
  <2>4. DOMAIN w \subseteq online
    BY <1>7, <2>2 DEF NoRows
  <2>5. c.op \notin ChannelOps => DOMAIN w = online /\ \A s \in online : w[s] = Visible(s)
    BY <1>7, <2>2
  <2>6. Planned(j)
    BY <2>2, <2>3, <2>4, <2>5 DEF Planned, Poised, Telling
  <2>7. Planned(j)'
    <3>1. Carries(j, j) /\ j # NoCommand
      BY <2>2, JobIs DEF Carries
    <3>2. DOMAIN j.before \subseteq online'
      BY <2>1, <2>3, <2>4
    <3>3. Poised(j) => \A s \in online' \ DOMAIN j.before : queue'[s] = <<>>
      BY <2>1, <2>6 DEF Planned
    <3> QED BY <2>1, <2>6, <3>1, <3>2, <3>3, PlanStays
  <2> QED BY <2>1, <2>2, <2>7, PlanTurned
<1>9. ASSUME NEW a \in Session, Store(a) PROVE PlanInv'
  <2>1. UNCHANGED <<channels, roles, grants, online, queue>>
    BY <1>9 DEF Store
  <2>2. PICK b : b = busy[a]
    OBVIOUS
  <2>3. PICK w, j : /\ w = (IF b.cmd.op \in ChannelOps THEN Snapshot ELSE b.before)
                    /\ j = Job(b.cmd, "memory", w, b.touched, b.say, b.after, b.rooms)
                    /\ Turned(a, j) /\ b # NoCommand /\ b.stage = "store" /\ ~ Conflicts(b.cmd)
    BY <1>9, <2>2, StoreMoves
  <2>4. Planned(b)
    BY <2>2, <2>3 DEF PlanInv
  <2>5. j.cmd = b.cmd /\ j.before = w /\ j.stage = "memory"
    BY <2>3, JobIs
  <2>6. b.cmd.op = "create" => b.cmd.id \notin DOMAIN channels
    <3>1. \A d \in Session : ~ At(d, "memory")
      BY <1>6, <2>2, <2>3 DEF At
    <3>2. Agree
      BY <2>2, <2>3, <3>1 DEF MemoryInv, Starting
    <3>3. PICK m : m = Loaded(disk)
      OBVIOUS
    <3>4. DOMAIN m = DOMAIN disk.channels
      BY <3>3, LoadedFacts
    <3>5. channels = m
      BY <3>2, <3>3 DEF Agree
    <3> QED BY <2>3, <3>4, <3>5 DEF Conflicts
  <2>7. CASE b.cmd.op \in ChannelOps
    <3>1. w = Snapshot
      BY <2>3, <2>7
    <3>2. Planned(j)
      BY <1>7, <2>4, <2>5, <2>6, <2>3, <2>7, <3>1 DEF Planned, Poised, Telling, ChannelOps
    <3>3. DOMAIN j.before = online
      BY <1>7, <2>5, <3>1
    <3>4. Carries(j, j) /\ j # NoCommand
      BY <2>3, JobIs DEF Carries
    <3>5. Planned(j)'
      BY <2>1, <3>2, <3>3, <3>4, PlanStays
    <3> QED BY <2>1, <2>3, <3>5, PlanTurned
  <2>8. CASE b.cmd.op \notin ChannelOps
    <3>1. w = b.before
      BY <2>3, <2>8
    <3>2. Planned(j)
      BY <2>4, <2>5, <2>3, <2>6, <2>8, <3>1 DEF Planned, Poised, Telling
    <3>3. Carries(j, j) /\ j # NoCommand
      BY <2>3, JobIs DEF Carries
    <3>4. /\ DOMAIN j.before \subseteq online'
          /\ Poised(j) => \A s \in online' \ DOMAIN j.before : queue'[s] = <<>>
      BY <2>1, <3>2 DEF Planned
    <3>5. Planned(j)'
      BY <2>1, <3>2, <3>3, <3>4, PlanStays
    <3> QED BY <2>1, <2>3, <3>5, PlanTurned
  <2> QED BY <2>7, <2>8
<1>10. ASSUME NEW a \in Session, StoreFails(a) \/ Acked(a) PROVE PlanInv'
  BY <1>10, EndMoves, PlanTurned DEF serverVars
<1>11. ASSUME NEW a \in Session, Memory(a) PROVE PlanInv'
  <2>1. PICK b : b = busy[a]
    OBVIOUS
  <2>2. PICK y, t, j : /\ y = Announced(b.cmd) /\ t = Touched(b.cmd)
                    /\ j = Job(b.cmd, "announce", b.before, t, y, b.after, b.rooms)
                    /\ Turned(a, j) /\ b # NoCommand /\ b.stage = "memory"
                    /\ roles' = Reroled(b.cmd) /\ grants' = Regranted(b.cmd)
    BY <1>11, <2>1, MemoryMoves
  <2>3. Planned(b)
    BY <2>1, <2>2 DEF PlanInv
  <2>4. j.cmd = b.cmd /\ j.before = b.before /\ j.stage = "announce" /\ j.say = y
    BY <2>2, JobIs
  <2>5. \A i \in 1 .. Len(y) : Truthful(y[i])'
    <3>1. PICK Y : Lists(y, Y) /\ Y = AnnouncedSet(b.cmd)
      BY <2>2, OnlineFinite, AnnouncedLists
    <3>2. \A i \in 1 .. Len(y) : y[i] \in Y
      BY <3>1 DEF Lists
    <3>3. \A f \in Y : Truthful(f)'
      BY <2>2, <2>3, <3>1, AnnouncedTrue DEF TableInv, FrameInv, Planned
    <3>4. ASSUME NEW i \in 1 .. Len(y) PROVE Truthful(y[i])'
      <4>1. PICK f : f = y[i]
        OBVIOUS
      <4> QED BY <3>2, <3>3, <4>1
    <3> QED BY <3>4
  <2>6. DOMAIN b.before \subseteq online'
    BY <1>11, <2>3 DEF Planned, Memory
  <2>7. Planned(j)'
    BY <2>4, <2>5, <2>6 DEF Planned, Poised, Telling
  <2> QED BY <1>6, <2>1, <2>2, <2>7, PlanTurned
<1>12. ASSUME NEW a \in Session, Announce(a) PROVE PlanInv'
  <2>1. UNCHANGED <<channels, roles, grants, online>>
    BY <1>12 DEF Announce, serverVars
  <2>2. PICK b, y : b = busy[a] /\ y = b.say
    OBVIOUS
  <2>3. PICK j : /\ j = Job(b.cmd, "announce", b.before, b.touched, Tail(y), b.after, b.rooms)
                 /\ Turned(a, j) /\ InFlight(b) /\ b # NoCommand /\ b.stage = "announce" /\ y # <<>>
    BY <1>12, <2>2, AnnounceMoves
  <2>4. Planned(b)
    BY <2>2, <2>3 DEF PlanInv
  <2>5. j.cmd = b.cmd /\ j.before = b.before /\ j.stage = "announce" /\ j.say = Tail(y)
    <3>1. PICK r : r = Tail(y)
      OBVIOUS
    <3>2. j = Job(b.cmd, "announce", b.before, b.touched, r, b.after, b.rooms)
      BY <2>3, <3>1
    <3> QED BY <3>1, <3>2 DEF Job
  <2>6. \A i \in 1 .. Len(Tail(y)) : Truthful(Tail(y)[i])'
    <3>1. PICK Y : y \in Seq(Y)
      BY <2>2, <2>3 DEF InFlight
    <3>2. \A i \in 1 .. Len(Tail(y)) : i + 1 \in 1 .. Len(y) /\ Tail(y)[i] = y[i + 1]
      BY <2>3, <3>1
    <3>3. \A i \in 1 .. Len(y) : Truthful(y[i])
      BY <2>2, <2>3, <2>4 DEF Planned, Telling
    <3>4. \A f : Truthful(f) => Truthful(f)'
      BY <2>1, SeenStands
    <3>5. ASSUME NEW i \in 1 .. Len(Tail(y)) PROVE Truthful(Tail(y)[i])'
      <4>1. PICK f : f = Tail(y)[i]
        OBVIOUS
      <4> QED BY <3>2, <3>3, <3>4, <4>1
    <3> QED BY <3>5
  <2>7. DOMAIN j.before \subseteq online'
    BY <2>1, <2>4, <2>5 DEF Planned
  <2>8. Planned(j)'
    BY <2>5, <2>6, <2>7 DEF Planned, Poised, Telling
  <2> QED BY <1>6, <2>2, <2>3, <2>8, PlanTurned
<1>13. ASSUME NEW a \in Session, After(a) PROVE PlanInv'
  <2>1. UNCHANGED <<channels, roles, grants, online, queue>>
    BY <1>13 DEF After, serverVars
  <2>2. PICK b : b = busy[a]
    OBVIOUS
  <2>3. PICK n, j : /\ j = Job(b.cmd, "copy", b.before, b.touched, b.say, n, b.rooms) /\ n = Snapshot
                    /\ Turned(a, j) /\ b # NoCommand /\ b.stage = "announce" /\ b.say = <<>>
    BY <1>13, <2>2, AfterMoves
  <2>4. Planned(b)
    BY <2>2, <2>3 DEF PlanInv
  <2>5. j.before = b.before /\ j.stage = "copy" /\ j.say = <<>> /\ j.after = n
    BY <2>3, JobIs
  <2>6. Planned(j)
    BY <1>7, <2>3, <2>4, <2>5 DEF Planned, Poised, Telling
  <2>7. Carries(j, j) /\ j # NoCommand /\ ~ Poised(j)
    BY <2>3, <2>5, JobIs DEF Carries, Poised
  <2>8. Planned(j)'
    <3>1. DOMAIN j.before \subseteq online'
      BY <2>1, <2>6 DEF Planned
    <3> QED BY <2>1, <2>6, <2>7, <3>1, PlanStays
  <2> QED BY <2>1, <2>3, <2>8, PlanTurned
<1>14. ASSUME NEW a \in Session, Copy(a) PROVE PlanInv'
  <2>1. UNCHANGED <<channels, roles, grants, online, queue>>
    BY <1>14 DEF Copy, serverVars
  <2>2. PICK b : b = busy[a]
    OBVIOUS
  <2>3. PICK m, j : /\ j = Job(b.cmd, "send", b.before, b.touched, b.say, b.after, m) /\ m = channels
                    /\ Turned(a, j) /\ b # NoCommand /\ b.stage = "copy"
    BY <1>14, <2>2, CopyMoves
  <2>4. Planned(b)
    BY <2>2, <2>3 DEF PlanInv
  <2>5. /\ j.before = b.before /\ j.stage = "send" /\ j.say = b.say /\ j.after = b.after
        /\ j.rooms = m
    BY <2>3, JobIs
  <2>6. Planned(j)
    BY <2>3, <2>4, <2>5 DEF Planned, Poised, Telling
  <2>7. Carries(j, j) /\ j # NoCommand /\ ~ Poised(j)
    BY <2>3, <2>5, JobIs DEF Carries, Poised
  <2>8. Planned(j)'
    <3>1. DOMAIN j.before \subseteq online'
      BY <2>1, <2>6 DEF Planned
    <3> QED BY <2>1, <2>6, <2>7, <3>1, PlanStays
  <2> QED BY <2>1, <2>3, <2>8, PlanTurned
<1>15. ASSUME NEW a \in Session, NEW s \in Session, Send(a, s) PROVE PlanInv'
  <2>1. UNCHANGED <<channels, roles, grants, online>>
    BY <1>15 DEF Send, serverVars
  <2>2. PICK b : b = busy[a]
    OBVIOUS
  <2>3. PICK w, j : /\ j = Job(b.cmd, "send", w, b.touched, b.say, b.after, b.rooms)
                    /\ w = Minus(b.before, {s})
                    /\ Turned(a, j) /\ b # NoCommand /\ b.stage = "send"
    BY <1>15, <2>2, SendMoves
  <2>4. Planned(b)
    BY <2>2, <2>3 DEF PlanInv
  <2>5. /\ j.cmd = b.cmd /\ j.before = w /\ j.stage = "send" /\ j.say = b.say /\ j.after = b.after
        /\ j.rooms = b.rooms /\ j.touched = b.touched
    BY <2>3, JobIs
  <2>6. Carries(j, b) /\ ~ Poised(b)
    BY <2>3, <2>5 DEF Carries, Minus, Poised
  <2>7. DOMAIN j.before \subseteq online'
    BY <2>1, <2>4, <2>6 DEF Planned, Carries
  <2>8. Planned(j)'
    BY <2>1, <2>3, <2>4, <2>6, <2>7, PlanStays
  <2> QED BY <1>6, <2>2, <2>3, <2>8, PlanTurned
<1>16. CASE UNCHANGED vars
  BY <1>1, <1>16 DEF vars, serverVars
<1> QED BY <1>3, <1>4, <1>5, <1>8, <1>9, <1>10, <1>11, <1>12, <1>13, <1>14, <1>15, <1>16 DEF Next

-----------------------------------------------------------------------------
(* What a change of memory leaves to be told *)

\* What changed for s and is not owed to it did not change.
LEMMA MemoryOwes ==
  ASSUME FrameInv, TableInv, ClientInv, PlanInv, NEW a \in Session, Memory(a), NEW b, b = busy[a],
         NEW s \in DOMAIN b.before, NEW T, T = Truth(s), NEW U, U = Truth(s)', NEW e, e = busy'[a],
         NEW k \in Topics, NEW x, ~ Owes(U, e, s, k, x)
  PROVE  Same(T, U, k, x)
<1>1. PICK c, w, t, y : /\ c = b.cmd /\ w = b.before /\ t = Touched(c) /\ y = Announced(c)
                        /\ e = Job(c, "announce", w, t, y, b.after, b.rooms)
                        /\ InFlight(b) /\ b # NoCommand /\ b.stage = "memory"
                        /\ channels' = Changed(c) /\ roles' = Reroled(c) /\ grants' = Regranted(c)
  BY MemoryMoves DEF Turned
<1>2. e.before = w /\ e.touched = t /\ e.say = y /\ c.op \in Ops
  BY <1>1, JobIs DEF InFlight
<1>3. /\ s \in online /\ s \in Session /\ w[s] = Visible(s)
      /\ c.op = "create" => c.id \notin DOMAIN channels
  BY <1>1 DEF PlanInv, Planned, Poised, ClientInv
<1>4. /\ T.seen = Visible(s) /\ T.rooms = channels /\ T.mine = grants[s] /\ T.roles = roles
  BY TruthIs
<1>5. U.seen = Visible(s)' /\ U.rooms = channels' /\ U.mine = grants'[s] /\ U.roles = roles'
  BY DEF Truth
<1>6. \A f \in AnnouncedSet(c) : ~ On(s, f, k, x)
  <2> SUFFICES ASSUME NEW f \in AnnouncedSet(c) PROVE ~ On(s, f, k, x)
    OBVIOUS
  <2>1. PICK i \in 1 .. Len(y) : y[i] = f
    BY <1>1, OnlineFinite, AnnouncedLists DEF Lists
  <2> QED BY <1>2, <2>1 DEF Owes
<1>7. ~ Differs(U, e, s, k, x)
  BY <1>1, <1>2 DEF Owes
<1>8. CASE k = "list"
  BY <1>2, <1>3, <1>4, <1>7, <1>8 DEF Differs, Same
<1>9. CASE k = "room"
  <2>1. /\ x \in T.seen <=> x \in U.seen
        /\ x \notin t \cap T.seen \cap U.seen
    BY <1>2, <1>3, <1>4, <1>7, <1>9 DEF Differs
  <2>2. ASSUME x \in T.seen PROVE T.rooms[x] = U.rooms[x]
    <3>1. x \in DOMAIN channels /\ x \in DOMAIN Changed(c)
      BY <1>1, <1>4, <1>5, <2>1, <2>2 DEF Visible
    <3>2. x \notin Touched(c)
      BY <1>1, <2>1, <2>2
    <3>3. RoomOK(channels[x])
      BY <3>1 DEF TableInv
    <3>4. Changed(c)[x] = channels[x]
      BY <1>2, <1>3, <3>1, <3>2, <3>3, ChangedElsewhere
    <3> QED BY <1>1, <1>4, <1>5, <3>4
  <2> QED BY <1>9, <2>1, <2>2 DEF Same
<1>10. CASE k = "mine"
  <2>1. x \in Regranted(c)[s] <=> x \in grants[s]
    BY <1>2, <1>3, <1>6, <1>10, AnnouncedAll DEF TableInv
  <2> QED BY <1>1, <1>4, <1>5, <1>10, <2>1 DEF Same
<1>11. CASE k = "role"
  <2>1. /\ x \in DOMAIN roles <=> x \in DOMAIN Reroled(c)
        /\ x \in DOMAIN roles => roles[x] = Reroled(c)[x]
    BY <1>2, <1>3, <1>6, <1>11, AnnouncedAll DEF TableInv
  <2> QED BY <1>1, <1>4, <1>5, <1>11, <2>1 DEF Same
<1> QED BY <1>8, <1>9, <1>10, <1>11 DEF Topics

\* What a command in flight still owes is stale.
LEMMA OwedIsStale ==
  ASSUME NEW s, NEW k, NEW x, NEW a \in Session, NEW e, e = busy'[a], Telling(e),
         NEW U, U = Truth(s)', Owes(U, e, s, k, x)
  PROVE  Stale(s, k, x)'
<1>1. Telling(busy'[a]) /\ Owes(Truth(s)', busy'[a], s, k, x)
  OBVIOUS
<1> QED BY <1>1 DEF Stale, Telling, NoCommand

LEMMA MemoryTold ==
  ASSUME FrameInv, TableInv, ClientInv, PlanInv, ToldInv, OneAtATime, NEW a \in Session, Memory(a)
  PROVE  ToldInv'
<1>1. PICK b, e : b = busy[a] /\ e = busy'[a]
  OBVIOUS
<1>2. PICK t, y : /\ e = Job(b.cmd, "announce", b.before, t, y, b.after, b.rooms)
                  /\ b # NoCommand /\ b.stage = "memory"
                  /\ raced' = raced \cup (greeted \ DOMAIN b.before)
  BY <1>1, MemoryMoves DEF Turned
<1>3. UNCHANGED <<queue, online, greeted, list, mirror>>
  BY DEF Memory, clientVars
<1> SUFFICES ASSUME NEW s \in online \ raced', NEW k \in Topics, NEW x, ~ Stale(s, k, x)'
             PROVE  Told(s, k, x)'
  BY <1>3 DEF ToldInv
<1>4. Planned(b)
  BY <1>1, <1>2 DEF PlanInv
<1>5. CASE s \in DOMAIN b.before
  <2>1. PICK T, U : T = Truth(s) /\ U = Truth(s)'
    OBVIOUS
  <2>2. Telling(e)
    BY <1>2, JobIs DEF Telling
  <2>3. ~ Owes(U, e, s, k, x)
    BY <1>1, <2>1, <2>2, OwedIsStale
  <2>4. Same(T, U, k, x)
    BY <1>1, <1>5, <2>1, <2>3, MemoryOwes
  <2>5. ~ Stale(s, k, x)
    BY <1>1, <1>2 DEF Stale, Telling, OneAtATime
  <2>6. Told(s, k, x)
    BY <1>2, <2>5 DEF ToldInv
  <2>7. /\ LastWord(T, s, queue[s], k, x) => LastWord(U, s, queue[s], k, x)
        /\ NoWord(T, s, queue[s], list[s], mirror[s], k, x)
             => NoWord(U, s, queue[s], list[s], mirror[s], k, x)
    BY <2>4, WordsStand
  <2> QED BY <1>3, <2>1, <2>6, <2>7 DEF Told
<1>6. CASE s \notin DOMAIN b.before
  <2>1. s \notin greeted' /\ queue'[s] = <<>>
    BY <1>2, <1>3, <1>4, <1>6 DEF Planned, Poised
  <2>2. \A T : LastWord(T, s, <<>>, k, x)
    BY DEF LastWord
  <2> QED BY <2>1, <2>2 DEF Told
<1> QED BY <1>5, <1>6

-----------------------------------------------------------------------------
(* Every client is told *)

\* A step that changes nothing s may be told and nothing it was told.
LEMMA ToldStands ==
  ASSUME UNCHANGED <<channels, roles, grants>>, NEW s, NEW k, NEW x,
         queue'[s] = queue[s], list'[s] = list[s], mirror'[s] = mirror[s],
         s \in greeted' => s \in greeted
  PROVE  Told(s, k, x) => Told(s, k, x)'
<1>1. Truth(s)' = Truth(s)
  BY SeenStands
<1> QED BY <1>1 DEF Told

\* e owes s what b owed it.
Debt(e, b, s) ==
  /\ e.say = b.say /\ e.touched = b.touched
  /\ s \in DOMAIN b.before => s \in DOMAIN e.before /\ e.before[s] = b.before[s]

LEMMA OwesStill ==
  ASSUME NEW T, NEW b, NEW e, NEW s, Debt(e, b, s), NEW k \in Topics, NEW x, Owes(T, b, s, k, x)
  PROVE  Owes(T, e, s, k, x)
<1>1. s \in DOMAIN b.before /\ Differs(T, b, s, k, x) => Differs(T, e, s, k, x)
  BY DEF Differs, Debt, Topics
<1> QED BY <1>1 DEF Owes, Debt

\* No command takes back what it owes.
LEMMA StaleStands ==
  ASSUME UNCHANGED <<channels, roles, grants>>, NEW s, NEW k \in Topics, NEW x,
         \A a \in Session : \A b, e : b = busy[a] /\ e = busy'[a] /\ Telling(b)
           /\ Owes(Truth(s), b, s, k, x) => Telling(e) /\ Debt(e, b, s)
  PROVE  Stale(s, k, x) => Stale(s, k, x)'
<1> SUFFICES ASSUME NEW a \in Session, Telling(busy[a]), Owes(Truth(s), busy[a], s, k, x)
             PROVE  Stale(s, k, x)'
  BY DEF Stale
<1>1. PICK b, e, T : b = busy[a] /\ e = busy'[a] /\ T = Truth(s)
  OBVIOUS
<1>2. Telling(e) /\ Debt(e, b, s) /\ Owes(T, b, s, k, x)
  BY <1>1
<1>3. Owes(T, e, s, k, x)
  BY <1>2, OwesStill
<1>4. T = Truth(s)'
  BY <1>1, SeenStands
<1> QED BY <1>1, <1>2, <1>3, <1>4, OwedIsStale

\* The step is the command's own: it moved to j, and owes what it owed.
LEMMA StaleTurned ==
  ASSUME UNCHANGED <<channels, roles, grants>>, NEW s, NEW k \in Topics, NEW x,
         NEW a \in Session, NEW j, Turned(a, j), NEW d, d = busy[a],
         Telling(d) /\ Owes(Truth(s), d, s, k, x) => Telling(j) /\ Debt(j, d, s)
  PROVE  Stale(s, k, x) => Stale(s, k, x)'
<1>1. ASSUME NEW h \in Session, NEW b, b = busy[h], NEW e, e = busy'[h], Telling(b),
             Owes(Truth(s), b, s, k, x)
      PROVE  Telling(e) /\ Debt(e, b, s)
  <2>1. CASE h = a
    BY <1>1, <2>1 DEF Turned
  <2>2. CASE h # a
    <3>1. e = b
      BY <1>1, <2>2 DEF Turned
    <3> QED BY <1>1, <3>1 DEF Debt
  <2> QED BY <2>1, <2>2
<1> QED BY <1>1, StaleStands

LEMMA AnnounceTold ==
  ASSUME FrameInv, ClientInv, PlanInv, ToldInv, NEW a \in Session, Announce(a)
  PROVE  ToldInv'
<1>1. UNCHANGED <<channels, roles, grants, online, greeted, raced, list, mirror>>
  BY DEF Announce, serverVars, clientVars
<1>2. PICK b, y, f, z : b = busy[a] /\ y = b.say /\ f = Head(y) /\ z = Tail(y)
  OBVIOUS
<1>3. PICK j : /\ j = Job(b.cmd, "announce", b.before, b.touched, z, b.after, b.rooms)
               /\ Turned(a, j) /\ InFlight(b) /\ b # NoCommand /\ b.stage = "announce" /\ y # <<>>
  BY <1>2, AnnounceMoves
<1>4. PICK Y : y \in Seq(Y)
  BY <1>2, <1>3 DEF InFlight
<1>5. /\ 1 \in 1 .. Len(y) /\ y[1] = f
      /\ \A i \in 1 .. Len(y) : i = 1 \/ (i - 1 \in 1 .. Len(z) /\ z[i - 1] = y[i])
  BY <1>2, <1>3, <1>4
<1>6. Truthful(f)
  BY <1>2, <1>3, <1>5 DEF PlanInv, Planned, Telling
<1> SUFFICES ASSUME NEW s \in online \ raced, NEW k \in Topics, NEW x, ~ Stale(s, k, x)'
             PROVE  Told(s, k, x)'
  BY <1>1 DEF ToldInv
<1>7. s \in Session /\ s \in online
  BY DEF ClientInv
<1>8. PICK T, q, X, d, r, g : /\ T = Truth(s) /\ q = queue[s] /\ q \in Seq(X) /\ d = <<f>>
                              /\ r = q \o d /\ g = (s \in greeted)
  BY <1>7 DEF FrameInv
<1>9. queue'[s] = r
  <2>1. queue'[s] = Append(q, f)
    BY <1>2, <1>7, <1>8 DEF Announce
  <2>2. Append(q, f) = q \o <<f>>
    BY <1>8
  <2> QED BY <1>8, <2>1, <2>2
<1>10. Truth(s)' = T
  BY <1>1, <1>8, SeenStands
<1>11. PICK G : G = {f} /\ d \in Seq(G) /\ 1 \in 1 .. Len(d) /\ d[1] = f
  <2>1. d \in Seq({f}) /\ 1 \in 1 .. Len(d) /\ d[1] = f
    BY <1>8
  <2> QED BY <2>1
<1>12. \A h \in G : On(s, h, k, x) => Says(T, h, k, x)
  BY <1>6, <1>7, <1>8, <1>11, SaidTrue
<1>13. \/ \E i \in 1 .. Len(d) : On(s, d[i], k, x)
       \/ LastWord(T, s, q, k, x) /\ (g => NoWord(T, s, q, list[s], mirror[s], k, x))
  <2>1. CASE On(s, f, k, x)
    BY <1>11, <2>1
  <2>2. CASE ~ On(s, f, k, x)
    <3>1. Telling(j) /\ j.say = z /\ j.touched = b.touched /\ j.before = b.before
      BY <1>3 DEF Job, Telling, NoCommand
    <3>2. ASSUME Telling(b), Owes(T, b, s, k, x) PROVE Owes(T, j, s, k, x)
      <4>1. CASE s \in DOMAIN b.before /\ Differs(T, b, s, k, x)
        <5>1. Differs(T, j, s, k, x)
          BY <3>1, <4>1 DEF Differs, Topics
        <5> QED BY <3>1, <4>1, <5>1 DEF Owes
      <4>2. ASSUME NEW i \in 1 .. Len(y), On(s, y[i], k, x) PROVE Owes(T, j, s, k, x)
        <5>1. i # 1
          BY <1>5, <2>2, <4>2
        <5>2. i - 1 \in 1 .. Len(z) /\ z[i - 1] = y[i]
          BY <1>5, <5>1
        <5> QED BY <3>1, <4>2, <5>2 DEF Owes
      <4> QED BY <1>2, <3>2, <4>1, <4>2 DEF Owes
    <3>3. ~ Stale(s, k, x)
      <4> SUFFICES ASSUME Stale(s, k, x) PROVE FALSE
        OBVIOUS
      <4>1. PICK h \in Session : Telling(busy[h]) /\ Owes(Truth(s), busy[h], s, k, x)
        BY DEF Stale
      <4>2. PICK e : e = busy'[h]
        OBVIOUS
      <4>3. Telling(e) /\ Owes(T, e, s, k, x)
        <5>1. CASE h = a
          BY <1>2, <1>3, <1>8, <3>1, <3>2, <4>1, <4>2, <5>1 DEF Turned
        <5>2. CASE h # a
          <6>1. e = busy[h]
            BY <1>3, <4>2, <5>2 DEF Turned
          <6> QED BY <1>8, <4>1, <6>1
        <5> QED BY <5>1, <5>2
      <4> QED BY <1>10, <4>2, <4>3, OwedIsStale
    <3>4. Told(s, k, x)
      BY <3>3 DEF ToldInv
    <3> QED BY <1>8, <3>4 DEF Told
  <2> QED BY <2>1, <2>2
<1>14. LastWord(T, s, r, k, x) /\ (g => NoWord(T, s, r, list[s], mirror[s], k, x))
  <2>1. r = q \o d /\ q \in Seq(X) /\ d \in Seq(G)
    BY <1>8, <1>11
  <2> QED BY <1>12, <1>13, <2>1, WordsQueued
<1> QED BY <1>1, <1>8, <1>9, <1>10, <1>14 DEF Told

LEMMA SendTold ==
  ASSUME FrameInv, ClientInv, PlanInv, ToldInv, OneAtATime, NEW a \in Session, NEW s \in Session,
         Send(a, s)
  PROVE  ToldInv'
<1>1. UNCHANGED <<channels, roles, grants, online, greeted, raced, list, mirror>>
  BY DEF Send, serverVars, clientVars
<1>2. PICK b : b = busy[a]
  OBVIOUS
<1>3. PICK w, j : /\ j = Job(b.cmd, "send", w, b.touched, b.say, b.after, b.rooms)
                  /\ w = Minus(b.before, {s})
                  /\ Turned(a, j) /\ InFlight(b) /\ b # NoCommand /\ b.stage = "send"
                  /\ s \in DOMAIN b.before
  BY <1>2, SendMoves
<1>4. Planned(b)
  BY <1>2, <1>3 DEF PlanInv
<1>5. b.say = <<>> /\ s \in DOMAIN b.after /\ b.after[s] = Visible(s) /\ b.rooms = channels
  BY <1>3, <1>4 DEF Planned
<1>6. PICK d, G : Lists(d, G) /\ d = Difference(s, b) /\ G = DifferenceSet(s, b)
  BY <1>3, DifferenceLists DEF InFlight
<1>7. PICK q, X : q = queue[s] /\ q \in Seq(X)
  BY DEF FrameInv
<1>8. queue' = [queue EXCEPT ![s] = q \o d]
  BY <1>2, <1>5, <1>6, <1>7 DEF Send
<1> SUFFICES ASSUME NEW r \in online \ raced, NEW k \in Topics, NEW x, ~ Stale(r, k, x)'
             PROVE  Told(r, k, x)'
  BY <1>1 DEF ToldInv
<1>9. CASE r = s
  <2>1. PICK T, g, z : T = Truth(s) /\ g = (s \in greeted) /\ z = q \o d
    OBVIOUS
  <2>2. Truth(s)' = T
    BY <1>1, <2>1, SeenStands
  <2>3. \A f \in G : On(s, f, k, x) => Says(T, f, k, x)
    BY <1>5, <1>6, <2>1, DifferenceTrue
  <2>4. d \in Seq(G)
    BY <1>6 DEF Lists
  <2>5. \/ \E i \in 1 .. Len(d) : On(s, d[i], k, x)
        \/ LastWord(T, s, q, k, x) /\ (g => NoWord(T, s, q, list[s], mirror[s], k, x))
    <3>1. CASE Stale(s, k, x)
      <4>1. PICK h \in Session : Telling(busy[h]) /\ Owes(Truth(s), busy[h], s, k, x)
        BY <3>1 DEF Stale
      <4>2. h = a
        BY <1>2, <1>3, <4>1 DEF OneAtATime, Telling
      <4>3. Owes(T, b, s, k, x)
        BY <1>2, <2>1, <4>1, <4>2
      <4>4. ~ \E i \in 1 .. Len(b.say) : TRUE
        BY <1>5
      <4>5. Differs(T, b, s, k, x)
        BY <4>3, <4>4 DEF Owes
      <4>6. PICK f \in DifferenceSet(s, b) : On(s, f, k, x)
        BY <1>5, <2>1, <4>5, DifferenceAll
      <4> QED BY <1>6, <4>6 DEF Lists
    <3>2. CASE ~ Stale(s, k, x)
      BY <1>7, <1>9, <2>1, <3>2 DEF ToldInv, Told
    <3> QED BY <3>1, <3>2
  <2>6. LastWord(T, s, z, k, x) /\ (g => NoWord(T, s, z, list[s], mirror[s], k, x))
    BY <1>7, <2>1, <2>3, <2>4, <2>5, WordsQueued
  <2>7. queue'[s] = z
    BY <1>8, <2>1 DEF FrameInv
  <2> QED BY <1>1, <1>9, <2>1, <2>2, <2>6, <2>7 DEF Told
<1>10. CASE r # s
  <2>1. queue'[r] = queue[r]
    BY <1>8, <1>10
  <2>2. Telling(j) /\ Debt(j, b, r)
    <3>1. Telling(j) /\ j.say = b.say /\ j.touched = b.touched /\ j.before = w
      BY <1>3 DEF Job, Telling, NoCommand
    <3> QED BY <1>3, <1>10, <3>1 DEF Debt, Minus
  <2>3. ~ Stale(r, k, x)
    BY <1>1, <1>2, <1>3, <2>2, StaleTurned
  <2>4. Told(r, k, x)
    BY <2>3 DEF ToldInv
  <2> QED BY <1>1, <2>1, <2>4, ToldStands
<1> QED BY <1>9, <1>10

LEMMA ToldNext ==
  ASSUME FrameInv, MemoryInv, TableInv, ClientInv, PlanInv, ToldInv, OneAtATime, [Next]_vars
  PROVE  ToldInv'
<1>0. ASSUME UNCHANGED busy, NEW s, NEW k \in Topics, NEW x, UNCHANGED <<channels, roles, grants>>
      PROVE  Stale(s, k, x) => Stale(s, k, x)'
  <2>1. \A a \in Session : \A b, e : b = busy[a] /\ e = busy'[a] => e = b /\ Debt(e, b, s)
    BY <1>0 DEF Debt
  <2> QED BY <1>0, <2>1, StaleStands
<1>1. ASSUME UNCHANGED <<channels, roles, grants, online, greeted, raced, queue, list, mirror>>,
             NEW a \in Session, NEW j, Turned(a, j), NEW b, b = busy[a],
             \A s, k, x : Telling(b) /\ Owes(Truth(s), b, s, k, x) => Telling(j) /\ Debt(j, b, s)
      PROVE  ToldInv'
  <2> SUFFICES ASSUME NEW s \in online \ raced, NEW k \in Topics, NEW x, ~ Stale(s, k, x)'
               PROVE  Told(s, k, x)'
    BY <1>1 DEF ToldInv
  <2>1. ~ Stale(s, k, x)
    BY <1>1, StaleTurned
  <2>2. Told(s, k, x)
    BY <2>1 DEF ToldInv
  <2> QED BY <1>1, <2>2, ToldStands
<1>2. CASE online' = {}
  BY <1>2 DEF ToldInv
<1>3. CASE Boot \/ SeedChannel \/ Crash
  BY <1>2, <1>3 DEF Boot, SeedChannel, Crash, MemoryInv, Starting
<1>4. ASSUME NEW s \in Session, Admit(s) PROVE ToldInv'
  <2>1. /\ UNCHANGED <<channels, roles, grants, greeted, queue, list, mirror, busy>>
        /\ online' = online \cup {s} /\ s \notin online
    BY <1>4 DEF Admit, serverVars, clientVars
  <2> SUFFICES ASSUME NEW r \in online' \ raced', NEW k \in Topics, NEW x, ~ Stale(r, k, x)'
               PROVE  Told(r, k, x)'
    BY DEF ToldInv
  <2>2. CASE r = s
    <3>1. s \notin greeted' /\ queue'[s] = <<>>
      BY <2>1 DEF ClientInv
    <3>2. \A T : LastWord(T, s, <<>>, k, x)
      BY DEF LastWord
    <3> QED BY <2>2, <3>1, <3>2 DEF Told
  <2>3. CASE r # s
    <3>1. r \in online \ raced
      BY <1>4, <2>1, <2>3 DEF Admit
    <3> QED BY <1>0, <2>1, <3>1, ToldStands DEF ToldInv
  <2> QED BY <2>2, <2>3
<1>5. ASSUME NEW s \in Session, Greet(s) PROVE ToldInv'
  <2>1. /\ UNCHANGED <<channels, roles, grants, online, raced, queue, busy>>
        /\ greeted' = greeted \cup {s}
        /\ list' = [list EXCEPT ![s] = Visible(s)]
        /\ mirror' = [mirror EXCEPT ![s] =
             [channels |-> [ch \in Visible(s) |-> channels[ch]], roles |-> roles, mine |-> grants[s]]]
    BY <1>5 DEF Greet, serverVars
  <2> SUFFICES ASSUME NEW r \in online \ raced, NEW k \in Topics, NEW x, ~ Stale(r, k, x)'
               PROVE  Told(r, k, x)'
    BY <2>1 DEF ToldInv
  <2>2. ~ Stale(r, k, x)
    BY <1>0, <2>1
  <2>3. Told(r, k, x)
    BY <2>2 DEF ToldInv
  <2>4. CASE r = s
    <3>1. PICK T : /\ T = Truth(s) /\ T.seen = Visible(s) /\ T.rooms = channels
                   /\ T.mine = grants[s] /\ T.roles = roles
      BY TruthIs
    <3>2. Truth(s)' = T
      BY <2>1, <3>1 DEF Truth, Visible, Can
    <3>3. PICK v : v = mirror'[s]
      OBVIOUS
    <3>4. /\ list'[s] = T.seen
          /\ v = [channels |-> [ch \in T.seen |-> T.rooms[ch]], roles |-> T.roles, mine |-> T.mine]
      BY <2>1, <3>1, <3>3 DEF ClientInv
    <3>5. Knows(T, T.seen, v, k, x)
      BY <3>4, GreetedKnows
    <3>6. LastWord(T, s, queue[s], k, x)
      BY <2>3, <2>4, <3>1 DEF Told
    <3> QED BY <2>1, <2>4, <3>2, <3>3, <3>4, <3>5, <3>6 DEF Told, NoWord
  <2>5. CASE r # s
    <3>1. queue'[r] = queue[r] /\ list'[r] = list[r] /\ mirror'[r] = mirror[r]
          /\ (r \in greeted' => r \in greeted)
      BY <2>1, <2>5 DEF ClientInv
    <3> QED BY <2>1, <2>3, <3>1, ToldStands
  <2> QED BY <2>4, <2>5
<1>6. ASSUME NEW s \in Session, Leave(s) PROVE ToldInv'
  <2>1. /\ UNCHANGED <<channels, roles, grants>> /\ online' = online \ {s}
        /\ raced' = raced \ {s} /\ greeted' = greeted \ {s}
        /\ queue' = [queue EXCEPT ![s] = <<>>] /\ list' = [list EXCEPT ![s] = {}]
        /\ mirror' = [mirror EXCEPT ![s] = NoMirror]
    BY <1>6 DEF Leave, serverVars
  <2> SUFFICES ASSUME NEW r \in online' \ raced', NEW k \in Topics, NEW x, ~ Stale(r, k, x)'
               PROVE  Told(r, k, x)'
    BY DEF ToldInv
  <2>2. r \in online \ raced /\ r # s /\ r \in Session
    BY <2>1 DEF ClientInv
  <2>3. queue'[r] = queue[r] /\ list'[r] = list[r] /\ mirror'[r] = mirror[r]
        /\ (r \in greeted' => r \in greeted)
    BY <2>1, <2>2 DEF ClientInv, FrameInv
  <2>4. ~ Stale(r, k, x)
    <3>1. ASSUME NEW a \in Session, NEW b, b = busy[a], NEW e, e = busy'[a], Telling(b)
          PROVE  Telling(e) /\ Debt(e, b, r)
      <4>1. PICK w : w = Minus(b.before, {s})
        OBVIOUS
      <4>2. e = Job(b.cmd, b.stage, w, b.touched, b.say, b.after, b.rooms)
        BY <1>6, <3>1, <4>1, LeaveMoves DEF Telling
      <4>3. /\ e.stage = b.stage /\ e # NoCommand /\ e.say = b.say /\ e.touched = b.touched
            /\ e.before = w
        BY <4>2, JobIs
      <4> QED BY <2>2, <3>1, <4>1, <4>3 DEF Telling, Debt, Minus
    <3> QED BY <2>1, <3>1, StaleStands
  <2> QED BY <2>1, <2>2, <2>3, <2>4, ToldStands DEF ToldInv
<1>7. ASSUME NEW s \in Session, Deliver(s) PROVE ToldInv'
  <2>1. /\ UNCHANGED <<channels, roles, grants, online, greeted, raced, busy>>
        /\ s \in greeted /\ queue[s] # <<>>
        /\ queue' = [queue EXCEPT ![s] = Tail(queue[s])]
        /\ list' = [list EXCEPT ![s] = Listed(list[s], Head(queue[s]))]
        /\ mirror' = [mirror EXCEPT ![s] = Mirrored(s, mirror[s], Head(queue[s]))]
    BY <1>7 DEF Deliver, serverVars
  <2> SUFFICES ASSUME NEW r \in online \ raced, NEW k \in Topics, NEW x, ~ Stale(r, k, x)'
               PROVE  Told(r, k, x)'
    BY <2>1 DEF ToldInv
  <2>2. ~ Stale(r, k, x)
    BY <1>0, <2>1
  <2>3. Told(r, k, x)
    BY <2>2 DEF ToldInv
  <2>4. CASE r = s
    <3>1. PICK T, q, l, v, w : /\ T = Truth(s) /\ q = queue[s] /\ l = list[s] /\ v = mirror[s]
                               /\ w = Mirrored(s, v, Head(q))
      OBVIOUS
    <3>2. Truth(s)' = T
      BY <2>1, <3>1 DEF Truth, Visible, Can
    <3>3. queue'[s] = Tail(q) /\ list'[s] = Listed(l, Head(q)) /\ mirror'[s] = w
      BY <2>1, <3>1 DEF ClientInv, FrameInv
    <3>4. PICK X : q \in Seq(X)
      BY <3>1 DEF FrameInv
    <3>5. FramesOK(q) /\ MirrorOK(v) /\ q # <<>>
      BY <2>1, <3>1 DEF ClientInv
    <3>6. LastWord(T, s, q, k, x) /\ NoWord(T, s, q, l, v, k, x)
      BY <2>1, <2>3, <2>4, <3>1 DEF Told
    <3>7. LastWord(T, s, Tail(q), k, x) /\ NoWord(T, s, Tail(q), Listed(l, Head(q)), w, k, x)
      BY <3>1, <3>4, <3>5, <3>6, WordsDelivered
    <3> QED BY <2>1, <2>4, <3>2, <3>3, <3>7 DEF Told
  <2>5. CASE r # s
    <3>1. r \in Session
      BY DEF ClientInv
    <3>2. queue'[r] = queue[r] /\ list'[r] = list[r] /\ mirror'[r] = mirror[r]
          /\ (r \in greeted' => r \in greeted)
      BY <2>1, <2>5, <3>1 DEF ClientInv, FrameInv
    <3> QED BY <2>1, <2>3, <3>2, ToldStands
  <2> QED BY <2>4, <2>5
<1>8. ASSUME NEW a \in Session, CommandOf(a) PROVE ToldInv'
  <2>1. /\ UNCHANGED <<channels, roles, grants, online, greeted, raced, queue, list, mirror>>
        /\ busy[a] = NoCommand
    BY <1>8, CommandStarts DEF serverVars, clientVars
  <2>2. PICK j : Turned(a, j)
    BY <1>8, CommandStarts
  <2> QED BY <1>1, <2>1, <2>2 DEF Telling
<1>9. ASSUME NEW a \in Session, Store(a) PROVE ToldInv'
  <2>1. UNCHANGED <<channels, roles, grants, online, greeted, raced, queue, list, mirror>>
    BY <1>9 DEF Store, clientVars
  <2>2. PICK b : b = busy[a]
    OBVIOUS
  <2>3. PICK j : Turned(a, j) /\ b.stage = "store"
    BY <1>9, <2>2, StoreMoves
  <2> QED BY <1>1, <2>1, <2>2, <2>3 DEF Telling
<1>10. ASSUME NEW a \in Session, StoreFails(a) \/ Acked(a) PROVE ToldInv'
  <2>1. PICK b : b = busy[a]
    OBVIOUS
  <2>2. /\ UNCHANGED <<channels, roles, grants, online, greeted, raced, queue, list, mirror>>
        /\ Turned(a, NoCommand) /\ b # NoCommand
        /\ b.stage = "store" \/ (b.stage = "send" /\ DOMAIN b.before = {})
    BY <1>10, <2>1, EndMoves DEF serverVars, clientVars
  <2>3. ASSUME NEW s, NEW k, NEW x, Telling(b) PROVE ~ Owes(Truth(s), b, s, k, x)
    <3>1. b.stage = "send" /\ DOMAIN b.before = {}
      BY <2>2, <2>3 DEF Telling
    <3>2. b.say = <<>>
      BY <2>1, <2>2, <3>1 DEF PlanInv, Planned
    <3>3. ~ \E i \in 1 .. Len(b.say) : TRUE
      BY <3>2
    <3> QED BY <3>1, <3>3 DEF Owes
  <2> QED BY <1>1, <2>1, <2>2, <2>3
<1>11. ASSUME NEW a \in Session, After(a) \/ Copy(a) PROVE ToldInv'
  <2>1. UNCHANGED <<channels, roles, grants, online, greeted, raced, queue, list, mirror>>
    BY <1>11 DEF After, Copy, serverVars, clientVars
  <2>2. PICK b : b = busy[a]
    OBVIOUS
  <2>3. PICK st, n, m, j : /\ j = Job(b.cmd, st, b.before, b.touched, b.say, n, m)
                           /\ Turned(a, j) /\ st \in {"copy", "send"}
    <3>1. CASE After(a)
      BY <2>2, <3>1, AfterMoves
    <3>2. CASE Copy(a)
      BY <2>2, <3>2, CopyMoves
    <3> QED BY <1>11, <3>1, <3>2
  <2>4. /\ j.stage = st /\ j.before = b.before /\ j.touched = b.touched /\ j.say = b.say
        /\ j # NoCommand
    BY <2>3, JobIs
  <2>5. Telling(j) /\ \A s : Debt(j, b, s)
    BY <2>3, <2>4 DEF Telling, Debt
  <2> QED BY <1>1, <2>1, <2>2, <2>3, <2>5
<1>12. ASSUME NEW a \in Session, Memory(a) PROVE ToldInv'
  BY <1>12, MemoryTold
<1>13. ASSUME NEW a \in Session, Announce(a) PROVE ToldInv'
  BY <1>13, AnnounceTold
<1>14. ASSUME NEW a \in Session, NEW s \in Session, Send(a, s) PROVE ToldInv'
  BY <1>14, SendTold
<1>15. CASE UNCHANGED vars
  <2>1. UNCHANGED <<channels, roles, grants, online, greeted, raced, queue, list, mirror, busy>>
    BY <1>15 DEF vars, serverVars, clientVars
  <2> QED BY <1>0, <2>1, ToldStands DEF ToldInv
<1> QED
  BY <1>3, <1>4, <1>5, <1>6, <1>7, <1>8, <1>9, <1>10, <1>11, <1>12, <1>13, <1>14, <1>15 DEF Next

LEMMA ToldInit == Init => TableInv /\ ClientInv /\ PlanInv /\ ToldInv
<1> SUFFICES ASSUME Init PROVE TableInv /\ ClientInv /\ PlanInv /\ ToldInv
  OBVIOUS
<1>1. PICK t \in InitialTables :
        disk = [channels |-> t.channels, overwrites |-> t.overwrites,
                roles |-> InitialRoles, grants |-> InitialGrants]
  BY DEF Init
<1>2. TableInv
  <2>1. DOMAIN channels = {} /\ grants = InitialGrants /\ disk.grants = InitialGrants
    BY <1>1 DEF Init, NoRows
  <2> QED BY <2>1, ChannelsAssumption DEF TableInv
<1>3. ClientInv
  <2>1. MirrorOK(NoMirror) /\ FramesOK(<<>>)
    BY DEF MirrorOK, NoMirror, FramesOK
  <2> QED BY <2>1 DEF Init, ClientInv
<1>4. PlanInv /\ ToldInv
  BY DEF Init, PlanInv, ToldInv
<1> QED BY <1>2, <1>3, <1>4

\* A client that was told everything resolves what the server resolves.
LEMMA ToldAgrees ==
  ASSUME ClientInv, ToldInv, NEW s \in greeted \ raced, queue[s] = <<>>,
         \A a \in Session : busy[a] = NoCommand
  PROVE  /\ list[s] = Visible(s) /\ DOMAIN mirror[s].channels = Visible(s)
         /\ \A ch \in Visible(s) : my_permissions(s, ch) = Can(s, ch)
<1>1. PICK T, v : T = Truth(s) /\ v = mirror[s]
  OBVIOUS
<1>2. ASSUME NEW k \in Topics, NEW x PROVE Knows(T, list[s], v, k, x)
  <2>1. ~ Stale(s, k, x)
    BY DEF Stale, Telling
  <2>2. s \in online
    BY DEF ClientInv
  <2>3. NoWord(T, s, <<>>, list[s], v, k, x)
    BY <1>1, <2>1, <2>2 DEF ToldInv, Told
  <2> QED BY <2>3 DEF NoWord
<1>3. T.seen = Visible(s) /\ T.rooms = channels /\ T.mine = grants[s] /\ T.roles = roles
  BY <1>1, TruthIs
<1>4. "list" \in Topics /\ "room" \in Topics /\ "mine" \in Topics /\ "role" \in Topics
  BY DEF Topics
<1>5. list[s] = Visible(s)
  <2>1. \A x : x \in list[s] <=> x \in T.seen
    BY <1>2, <1>4 DEF Knows
  <2> QED BY <1>3, <2>1
<1>6. \A x : /\ x \in DOMAIN v.channels <=> x \in T.seen
             /\ x \in T.seen => v.channels[x] = T.rooms[x]
  BY <1>2, <1>4 DEF Knows
<1>7. DOMAIN v.channels = T.seen
  BY <1>6
<1>8. v.mine = T.mine
  <2>1. \A x : x \in v.mine <=> x \in T.mine
    BY <1>2, <1>4 DEF Knows
  <2> QED BY <2>1
<1>9. \A x : /\ x \in DOMAIN v.roles <=> x \in DOMAIN T.roles
             /\ x \in DOMAIN T.roles => v.roles[x] = T.roles[x]
  BY <1>2, <1>4 DEF Knows
<1>10. \A x : role_permissions(v.roles, x) = role_permissions(T.roles, x)
  BY <1>9 DEF role_permissions
<1>11. \A g : Base(v.roles, g) = Base(T.roles, g)
  BY <1>10 DEF Base
<1>12. \A g, o, ow : ResolveChannel(v.roles, g, s, o, ow) = ResolveChannel(T.roles, g, s, o, ow)
  BY <1>11 DEF ResolveChannel
<1>13. ASSUME NEW ch \in Visible(s) PROVE my_permissions(s, ch) = Can(s, ch)
  <2>1. v.channels[ch] = channels[ch]
    BY <1>3, <1>6
  <2>2. my_permissions(s, ch)
          = ResolveChannel(v.roles, v.mine, s, s = Owner, v.channels[ch].overwrites)
    BY <1>1 DEF my_permissions
  <2>3. Can(s, ch) = ResolveChannel(T.roles, T.mine, s, s = Owner, channels[ch].overwrites)
    BY <1>3 DEF Can
  <2> QED BY <1>8, <1>12, <2>1, <2>2, <2>3
<1> QED BY <1>1, <1>3, <1>5, <1>7, <1>13

\* While no two commands overlap, every client that was not greeted between the
\* snapshot of a command and its change, once its frames have arrived and no
\* command is in flight, lists precisely the channels it may view, and its
\* permission mirror resolves in each of them what the server enforces
\* (resync_visibility, PermMirror::apply): whichever commands came before, failed
\* or were cut short, and in whatever order frames, AuthOk, arrivals and
\* departures fell between a command's steps and those of its resync.
THEOREM MirrorsFollow == Spec /\ []OneAtATime => []MirrorAgrees
<1> DEFINE Inv == FrameInv /\ MemoryInv /\ TableInv /\ ClientInv /\ PlanInv /\ ToldInv
<1>1. Init => Inv
  BY FrameInit, MemoryInit, ToldInit
<1>2. Inv /\ OneAtATime /\ [Next]_vars => Inv'
  BY FrameNext, MemoryNext, TableNext, ClientNext, PlanNext, ToldNext
<1>3. Inv => MirrorAgrees
  BY ToldAgrees DEF MirrorAgrees, Quiet
<1> HIDE DEF Inv
<1> QED BY <1>1, <1>2, <1>3, PTL DEF Spec
=============================================================================
