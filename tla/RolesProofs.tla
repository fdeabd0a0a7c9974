----------------------------- MODULE RolesProofs -----------------------------
(***************************************************************************)
(* Proofs about Roles, for any members, roles, grants and masks, with      *)
(* crashes and failed writes: when commands do not overlap, no two roles   *)
(* share a position, and nobody reaches up.                                *)
(***************************************************************************)
EXTENDS Roles, FiniteSetTheorems, FunctionTheorems, WellFoundedInduction, TLAPS

-----------------------------------------------------------------------------
(* The inductive invariant *)

\* A list of roles the checks may rely on.
Table ==
  {rs \in UNION {[D -> Positioned] : D \in SUBSET RoleIds} :
     /\ EVERYONE_ROLE_ID \in DOMAIN rs /\ rs[EVERYONE_ROLE_ID].position = 0
     /\ \A id, r \in DOMAIN rs : rs[id].position = rs[r].position => id = r}

Inputs == [roles : Table, members : [Member -> SUBSET RoleIds]]

\* New positions for exactly these roles, all different.
Renumbers(rs, to) ==
  /\ to \in [DOMAIN rs -> Nat] /\ to[EVERYONE_ROLE_ID] = 0
  /\ \A id, r \in DOMAIN rs : to[id] = to[r] => id = r

\* A new role for a place that is free.
Inserts(id, role, next) ==
  /\ id \in RoleIds /\ id \notin DOMAIN disk.roles
  /\ role \in Positioned /\ role.position = 1
  /\ SameContents(next, [disk EXCEPT !.roles = WithRole(@, id, role)])

\* What a command has yet to write leads from the tables to its new inputs, and
\* as long as it can still be refused the tables hold the old ones.
Pending(w, next, refresh) ==
  \/ /\ w = <<>>
     /\ SameContents(next, disk)
  \/ \E to : /\ w = <<SetRolePositions(to)>>
             /\ Renumbers(disk.roles, to)
             /\ SameContents(next, disk)
             /\ refresh = <<>> => SameContents(perms, disk)
  \/ \E id, role : /\ w = <<InsertRole(id, role)>> /\ refresh = <<>>
                   /\ Inserts(id, role, next)
                   /\ \A r \in DOMAIN disk.roles : disk.roles[r].position # 1
                   /\ SameContents(perms, disk)
  \/ \E to, id, role : /\ w = <<SetRolePositions(to), InsertRole(id, role)>> /\ refresh = <<>>
                       /\ Renumbers(disk.roles, to)
                       /\ \A r \in DOMAIN to : to[r] # 1
                       /\ Inserts(id, role, next)
                       /\ SameContents(perms, disk)
  \/ \E id, mask : /\ w = <<UpdateRole(id, mask)>>
                   /\ mask \in SUBSET ALL
                   /\ SameContents(next, Written(disk, UpdateRole(id, mask)))
                   /\ SameContents(perms, disk)
  \/ \E id, to : /\ w = <<DeleteRole(id), SetRolePositions(to)>> /\ refresh # <<>>
                 /\ id # EVERYONE_ROLE_ID
                 /\ Renumbers(Without(disk.roles, id), to)
                 /\ SameContents(next, Written(disk, DeleteRole(id)))
                 /\ SameContents(perms, disk)
  \/ \E m, ids : /\ w = <<ReplaceMemberRoles(m, ids)>>
                 /\ m \in Member /\ ids \in SUBSET RoleIds
                 /\ SameContents(next, Written(disk, ReplaceMemberRoles(m, ids)))
                 /\ SameContents(perms, disk)

JobOK(b) ==
  /\ \E w, n, s, r : b = [writes |-> w, next |-> n, swapped |-> s, refresh |-> r]
  /\ b.next \in Inputs /\ b.swapped \in BOOLEAN
  /\ b.swapped => b.writes = <<>> /\ SameContents(perms, disk)
  /\ ~ b.swapped => Pending(b.writes, b.next, b.refresh)

RolesInv ==
  /\ perms \in Inputs /\ disk \in Inputs
  /\ DOMAIN busy = Member
  /\ OneAtATime
  /\ \A a \in Member : busy[a] # Idle => JobOK(busy[a])
  /\ Quiet => SameContents(perms, disk)

\* The roles at the rank of a or above under the inputs p keep under q what they had.
Spares(a, p, q) ==
  LET top == top_role_position(p.roles, p.members[a])
      above == {id \in DOMAIN p.roles : p.roles[id].position >= top}
  IN /\ above \subseteq DOMAIN q.roles
     /\ \A id \in above :
          /\ q.roles[id].permissions = p.roles[id].permissions
          /\ \A m \in Member : id \in q.members[m] <=> id \in p.members[m]
          /\ \A r \in DOMAIN p.roles \cap DOMAIN q.roles :
               p.roles[r].position < p.roles[id].position
                 => q.roles[r].position < q.roles[id].position

\* The inputs a command was checked against are still there when it swaps.
SparesInv ==
  \A a \in Member \ {Owner} :
    busy[a] # Idle /\ ~ busy[a].swapped => Spares(a, perms, busy[a].next)

-----------------------------------------------------------------------------
(* Ranks *)

\* Every set of numbers that is not empty has a least one.
LEMMA LeastNat ==
  ASSUME NEW T \in SUBSET Nat, T # {}
  PROVE  \E n \in T : \A m \in T : n <= m
<1>1. PICK n \in T : \A m \in T : ~ (<<m, n>> \in OpToRel(<, Nat))
  BY WFMin, NatLessThanWellFounded, Zenon
<1>2. \A m \in T : ~ (m < n)
  BY <1>1, Zenon DEF OpToRel
<1> QED BY <1>2

\* Among finitely many roles one is the most senior: by the smallest set that
\* has none.
LEMMA MostSenior ==
  ASSUME NEW rs, NEW G \in SUBSET DOMAIN rs, IsFiniteSet(G), G # {},
         \A id \in G : rs[id].position \in Nat
  PROVE  \E p \in G : \A q \in G : rs[q].position <= rs[p].position
<1> DEFINE Top(S) == \E p \in S : \A q \in S : rs[q].position <= rs[p].position
           bad == {n \in Nat : \E S \in SUBSET G :
                     IsFiniteSet(S) /\ S # {} /\ Cardinality(S) = n /\ ~ Top(S)}
<1>1. bad = {}
  <2>1. SUFFICES ASSUME bad # {} PROVE FALSE
    OBVIOUS
  <2>2. PICK n \in bad : \A m \in bad : n <= m
    BY <2>1, LeastNat
  <2>3. PICK S \in SUBSET G : IsFiniteSet(S) /\ S # {} /\ Cardinality(S) = n /\ ~ Top(S)
    BY <2>2
  <2>4. PICK x \in S : TRUE
    BY <2>3
  <2>5. IsFiniteSet(S \ {x}) /\ Cardinality(S \ {x}) = n - 1 /\ n - 1 \in Nat
    <3>1. IsFiniteSet(S \ {x}) /\ Cardinality(S \ {x}) = Cardinality(S) - 1
      BY <2>3, <2>4, FS_RemoveElement
    <3>2. Cardinality(S \ {x}) \in Nat
      BY <3>1, FS_CardinalityType
    <3> QED BY <2>3, <3>1, <3>2
  <2>6. \A q \in S : rs[q].position \in Nat
    BY <2>3
  <2>7. CASE S \ {x} = {}
    <3>1. \A q \in S : q = x
      BY <2>7
    <3> QED BY <2>3, <2>4, <2>6, <3>1
  <2>8. CASE S \ {x} # {}
    <3>1. ~ (n - 1 \in bad)
      BY <2>2, <2>5
    <3>2. Top(S \ {x})
      BY <2>3, <2>5, <2>8, <3>1
    <3>3. PICK p \in S \ {x} : \A q \in S \ {x} : rs[q].position <= rs[p].position
      BY <3>2
    <3>4. CASE rs[x].position <= rs[p].position
      BY <2>3, <2>6, <3>3, <3>4
    <3>5. CASE ~ (rs[x].position <= rs[p].position)
      <4>1. \A q \in S : rs[q].position <= rs[x].position
        BY <2>4, <2>6, <3>3, <3>5
      <4> QED BY <2>3, <2>4, <4>1
    <3> QED BY <3>4, <3>5
  <2> QED BY <2>7, <2>8
<1>2. Cardinality(G) \in Nat
  BY FS_CardinalityType
<1> QED BY <1>1, <1>2

\* A rank is a number.
LEMMA RankIsNumber ==
  ASSUME NEW rs, NEW granted, IsFiniteSet(granted),
         \A id \in DOMAIN rs : rs[id].position \in Nat
  PROVE  top_role_position(rs, granted) \in Nat
<1> DEFINE G == granted \cap DOMAIN rs
           held == {rs[id].position : id \in G}
<1>1. top_role_position(rs, granted)
        = IF held = {} THEN 0 ELSE CHOOSE p \in held : \A q \in held : q <= p
  BY DEF top_role_position
<1>2. held \subseteq Nat
  OBVIOUS
<1>3. held # {} => \E p \in held : \A q \in held : q <= p
  <2> SUFFICES ASSUME held # {} PROVE \E p \in held : \A q \in held : q <= p
    OBVIOUS
  <2>1. G # {} /\ IsFiniteSet(G)
    BY FS_Subset
  <2>2. PICK p \in G : \A q \in G : rs[q].position <= rs[p].position
    BY <2>1, MostSenior
  <2> QED BY <2>2
<1> HIDE DEF held
<1>4. CASE held = {}
  BY <1>1, <1>4
<1>5. CASE held # {}
  <2>1. PICK p : p = CHOOSE x \in held : \A q \in held : q <= x
    OBVIOUS
  <2>2. p \in held
    BY <1>3, <1>5, <2>1, Zenon
  <2> QED BY <1>1, <1>2, <1>5, <2>1, <2>2
<1> QED BY <1>4, <1>5

-----------------------------------------------------------------------------
(* Lists of roles *)

LEMMA RoleIdsFinite == IsFiniteSet(RoleIds)
<1>1. 0 \in Int /\ MaxRoleId \in Int
  BY RolesAssumption
<1> QED BY <1>1, FS_Interval DEF RoleIds

LEMMA TableFacts ==
  ASSUME NEW rs \in Table
  PROVE  /\ rs \in [DOMAIN rs -> Positioned] /\ DOMAIN rs \in SUBSET RoleIds
         /\ IsFiniteSet(DOMAIN rs)
         /\ EVERYONE_ROLE_ID \in DOMAIN rs /\ rs[EVERYONE_ROLE_ID].position = 0
         /\ \A id, r \in DOMAIN rs : rs[id].position = rs[r].position => id = r
         /\ \A id \in DOMAIN rs : rs[id].position \in Nat /\ rs[id].permissions \in SUBSET ALL
<1>1. PICK D \in SUBSET RoleIds : rs \in [D -> Positioned]
  BY DEF Table
<1>2. DOMAIN rs = D
  BY <1>1
<1>3. IsFiniteSet(D)
  <2>1. IsFiniteSet(RoleIds)
    BY RoleIdsFinite
  <2> QED BY <1>1, <2>1, FS_Subset
<1>4. \A id \in DOMAIN rs : rs[id].position \in Nat /\ rs[id].permissions \in SUBSET ALL
  BY <1>1, <1>2 DEF Positioned
<1> QED BY <1>1, <1>2, <1>3, <1>4 DEF Table

LEMMA TableIntro ==
  ASSUME NEW rs, NEW D \in SUBSET RoleIds, rs \in [D -> Positioned],
         EVERYONE_ROLE_ID \in D, rs[EVERYONE_ROLE_ID].position = 0,
         \A id, r \in D : rs[id].position = rs[r].position => id = r
  PROVE  rs \in Table
BY DEF Table

LEMMA InputsFacts ==
  ASSUME NEW p \in Inputs
  PROVE  /\ p.roles \in Table /\ p.members \in [Member -> SUBSET RoleIds]
         /\ p = [roles |-> p.roles, members |-> p.members]
<1>1. p.roles \in Table /\ p.members \in [Member -> SUBSET RoleIds]
  BY DEF Inputs
<1>2. \A x, y : \A w \in [roles : {x}, members : {y}] : w = [roles |-> x, members |-> y]
  OBVIOUS
<1>3. p \in [roles : {p.roles}, members : {p.members}]
  BY DEF Inputs
<1> QED BY <1>1, <1>2, <1>3

LEMMA InputsUpdates ==
  ASSUME NEW p \in Inputs, NEW x, NEW y
  PROVE  /\ [p EXCEPT !.roles = x] = [roles |-> x, members |-> p.members]
         /\ [p EXCEPT !.members = y] = [roles |-> p.roles, members |-> y]
         /\ [p EXCEPT !.roles = x, !.members = y] = [roles |-> x, members |-> y]
<1>1. \A u, v : \A w \in [roles : {u}, members : {v}] : w = [roles |-> u, members |-> v]
  OBVIOUS
<1>2. [p EXCEPT !.roles = x] \in [roles : {x}, members : {p.members}]
  BY DEF Inputs
<1>3. [p EXCEPT !.members = y] \in [roles : {p.roles}, members : {y}]
  BY DEF Inputs
<1>4. [p EXCEPT !.roles = x, !.members = y] \in [roles : {x}, members : {y}]
  BY DEF Inputs
<1>5. [p EXCEPT !.roles = x] = [roles |-> x, members |-> p.members]
  BY <1>1, <1>2, Zenon
<1>6. [p EXCEPT !.members = y] = [roles |-> p.roles, members |-> y]
  BY <1>1, <1>3, Zenon
<1>7. [p EXCEPT !.roles = x, !.members = y] = [roles |-> x, members |-> y]
  BY <1>1, <1>4, Zenon
<1> QED BY <1>5, <1>6, <1>7

LEMMA InputsIntro ==
  ASSUME NEW x \in Table, NEW y \in [Member -> SUBSET RoleIds]
  PROVE  LET p == [roles |-> x, members |-> y]
         IN p \in Inputs /\ p.roles = x /\ p.members = y
BY DEF Inputs

\* Renumbering changes the positions and nothing else.
LEMMA Placed ==
  ASSUME NEW rs \in Table, NEW to, Renumbers(rs, to)
  PROVE  LET out == AtPositions(rs, to) IN
         /\ out \in Table /\ DOMAIN out = DOMAIN rs
         /\ \A id \in DOMAIN rs : /\ out[id].permissions = rs[id].permissions
                                  /\ out[id].position = to[id]
<1> DEFINE out == AtPositions(rs, to)
<1>1. /\ rs \in [DOMAIN rs -> Positioned] /\ DOMAIN rs \in SUBSET RoleIds
      /\ EVERYONE_ROLE_ID \in DOMAIN rs
  BY TableFacts
<1>2. DOMAIN to = DOMAIN rs /\ \A id \in DOMAIN rs : to[id] \in Nat
  BY DEF Renumbers
<1>3. DOMAIN out = DOMAIN rs /\ \A id \in DOMAIN rs : out[id] = [rs[id] EXCEPT !.position = to[id]]
  BY <1>2 DEF AtPositions
<1>4. ASSUME NEW id \in DOMAIN rs
      PROVE  /\ out[id] \in Positioned /\ out[id].permissions = rs[id].permissions
             /\ out[id].position = to[id]
  BY <1>1, <1>2, <1>3 DEF Positioned
<1>5. out \in [DOMAIN rs -> Positioned]
  <2>1. out = [id \in DOMAIN rs |-> out[id]]
    BY <1>2 DEF AtPositions
  <2> HIDE DEF out
  <2> QED BY <1>4, <2>1
<1> HIDE DEF out
<1>6. out \in Table
  BY <1>1, <1>4, <1>5, TableIntro DEF Renumbers
<1> QED BY <1>3, <1>4, <1>6 DEF out

LEMMA Added ==
  ASSUME NEW rs \in Table, NEW id \in RoleIds, id \notin DOMAIN rs, NEW role \in Positioned,
         role.position # 0, \A r \in DOMAIN rs : rs[r].position # role.position
  PROVE  LET out == WithRole(rs, id, role) IN
         /\ out \in Table /\ DOMAIN out = DOMAIN rs \cup {id} /\ out[id] = role
         /\ \A r \in DOMAIN rs : out[r] = rs[r]
<1> DEFINE out == WithRole(rs, id, role)
<1>1. /\ rs \in [DOMAIN rs -> Positioned] /\ DOMAIN rs \in SUBSET RoleIds
      /\ EVERYONE_ROLE_ID \in DOMAIN rs /\ rs[EVERYONE_ROLE_ID].position = 0
      /\ \A i, r \in DOMAIN rs : rs[i].position = rs[r].position => i = r
  BY TableFacts
<1>2. /\ out \in [DOMAIN rs \cup {id} -> Positioned] /\ out[id] = role
      /\ \A r \in DOMAIN rs : out[r] = rs[r]
  BY <1>1 DEF WithRole
<1>3. DOMAIN rs \cup {id} \in SUBSET RoleIds
  BY <1>1
<1> HIDE DEF out
<1>4. out \in Table
  <2>1. \A i, r \in DOMAIN rs \cup {id} : out[i].position = out[r].position => i = r
    BY <1>1, <1>2
  <2>2. out[EVERYONE_ROLE_ID].position = 0
    BY <1>1, <1>2
  <2> QED BY <1>1, <1>2, <1>3, <2>1, <2>2, TableIntro
<1> QED BY <1>2, <1>4 DEF out

LEMMA Removed ==
  ASSUME NEW rs \in Table, NEW id, id # EVERYONE_ROLE_ID
  PROVE  LET out == Without(rs, id) IN
         /\ out \in Table /\ DOMAIN out = DOMAIN rs \ {id}
         /\ \A r \in DOMAIN out : out[r] = rs[r]
<1> DEFINE out == Without(rs, id)
<1>1. /\ rs \in [DOMAIN rs -> Positioned] /\ DOMAIN rs \in SUBSET RoleIds
      /\ EVERYONE_ROLE_ID \in DOMAIN rs /\ rs[EVERYONE_ROLE_ID].position = 0
      /\ \A i, r \in DOMAIN rs : rs[i].position = rs[r].position => i = r
  BY TableFacts
<1>2. /\ out \in [DOMAIN rs \ {id} -> Positioned]
      /\ \A r \in DOMAIN rs \ {id} : out[r] = rs[r]
  BY <1>1 DEF Without
<1>3. DOMAIN rs \ {id} \in SUBSET RoleIds
  BY <1>1
<1> HIDE DEF out
<1>4. out \in Table
  BY <1>1, <1>2, <1>3, TableIntro
<1> QED BY <1>2, <1>4 DEF out

\* Making room at position 1.
LEMMA Shifted ==
  ASSUME NEW rs \in Table
  PROVE  LET to == shifted_positions(rs) IN
         /\ Renumbers(rs, to) /\ \A id \in DOMAIN to : to[id] # 1
         /\ \A id, r \in DOMAIN rs : rs[id].position < rs[r].position => to[id] < to[r]
<1> DEFINE to == shifted_positions(rs)
<1>1. /\ EVERYONE_ROLE_ID \in DOMAIN rs /\ rs[EVERYONE_ROLE_ID].position = 0
      /\ \A i, r \in DOMAIN rs : rs[i].position = rs[r].position => i = r
      /\ \A i \in DOMAIN rs : rs[i].position \in Nat
  BY TableFacts
<1>2. /\ to \in [DOMAIN rs -> Nat]
      /\ \A id \in DOMAIN rs : to[id] = IF rs[id].position = 0 THEN 0 ELSE rs[id].position + 1
  BY <1>1 DEF shifted_positions
<1> HIDE DEF to
<1>3. Renumbers(rs, to)
  BY <1>1, <1>2 DEF Renumbers
<1>4. \A id \in DOMAIN rs : to[id] # 1
  BY <1>1, <1>2
<1>5. \A id, r \in DOMAIN rs : rs[id].position < rs[r].position => to[id] < to[r]
  BY <1>1, <1>2
<1> QED BY <1>2, <1>3, <1>4, <1>5 DEF to

\* Compacting keeps the order.
LEMMA CompactedFacts ==
  ASSUME NEW rs \in Table
  PROVE  LET to == Compacted(rs) IN
         /\ Renumbers(rs, to)
         /\ \A id, r \in DOMAIN rs : rs[id].position < rs[r].position => to[id] < to[r]
<1> DEFINE to == Compacted(rs)
           under(id) == {r \in DOMAIN rs : rs[r].position < rs[id].position}
<1>1. /\ EVERYONE_ROLE_ID \in DOMAIN rs /\ rs[EVERYONE_ROLE_ID].position = 0
      /\ \A i, r \in DOMAIN rs : rs[i].position = rs[r].position => i = r
      /\ \A i \in DOMAIN rs : rs[i].position \in Nat
      /\ IsFiniteSet(DOMAIN rs)
  BY TableFacts
<1>2. \A id \in DOMAIN rs : IsFiniteSet(under(id)) /\ Cardinality(under(id)) \in Nat
  BY <1>1, FS_Subset, FS_CardinalityType
<1>3. to \in [DOMAIN rs -> Nat] /\ \A id \in DOMAIN rs : to[id] = Cardinality(under(id))
  BY <1>2 DEF Compacted
<1>4. ASSUME NEW id \in DOMAIN rs, NEW r \in DOMAIN rs, rs[id].position < rs[r].position
      PROVE  to[id] < to[r]
  <2>1. under(id) \subseteq under(r) /\ id \in under(r) /\ id \notin under(id)
    BY <1>1, <1>4
  <2>2. under(id) # under(r)
    BY <2>1
  <2>3. Cardinality(under(id)) < Cardinality(under(r))
    <3> HIDE DEF under
    <3> QED BY <1>2, <2>1, <2>2, FS_Subset
  <2> QED BY <1>3, <2>3
<1>5. to[EVERYONE_ROLE_ID] = 0
  <2>1. under(EVERYONE_ROLE_ID) = {}
    BY <1>1
  <2> QED BY <1>1, <1>3, <2>1, FS_EmptySet
<1> HIDE DEF to, under
<1>6. ASSUME NEW id \in DOMAIN rs, NEW r \in DOMAIN rs, to[id] = to[r] PROVE id = r
  <2>1. ~ (rs[id].position < rs[r].position) /\ ~ (rs[r].position < rs[id].position)
    BY <1>3, <1>4, <1>6
  <2> QED BY <1>1, <2>1
<1>7. Renumbers(rs, to)
  BY <1>3, <1>5, <1>6 DEF Renumbers
<1> QED BY <1>4, <1>7 DEF to

\* As many positions as roles: no position is given twice.
LEMMA DenseIsInjective ==
  ASSUME NEW rs \in Table, NEW to, DOMAIN to = DOMAIN rs,
         {to[id] : id \in DOMAIN to} = 0 .. (Cardinality(DOMAIN to) - 1),
         to \in [DOMAIN rs -> RoleIds], to[EVERYONE_ROLE_ID] = 0
  PROVE  Renumbers(rs, to)
<1> DEFINE D == DOMAIN rs
           T == 0 .. (Cardinality(D) - 1)
<1>1. IsFiniteSet(D) /\ Cardinality(D) \in Nat
  BY TableFacts, FS_CardinalityType
<1>2. Cardinality(T) = Cardinality(D)
  <2>1. PICK n \in Nat : n = Cardinality(D)
    BY <1>1
  <2>2. 0 \in Int /\ n - 1 \in Int
    OBVIOUS
  <2>3. Cardinality(0 .. (n - 1)) = IF 0 > n - 1 THEN 0 ELSE (n - 1) - 0 + 1
    BY <2>2, FS_Interval
  <2> QED BY <2>1, <2>3
<1>3. to \in Surjection(D, T)
  BY DEF Surjection
<1>4. to \in Injection(D, T)
  <2> HIDE DEF D, T
  <2> QED BY <1>1, <1>2, <1>3, FS_SurjSameCardinalityImpliesInj
<1>5. \A id, r \in D : to[id] = to[r] => id = r
  BY <1>4 DEF Injection, IsInjective
<1>6. to \in [D -> Nat]
  BY DEF RoleIds
<1> QED BY <1>5, <1>6 DEF Renumbers

-----------------------------------------------------------------------------
(* Contents *)

LEMMA SameFacts ==
  /\ \A p : SameContents(p, p)
  /\ \A p, q : SameContents(p, q) => SameContents(q, p)
  /\ \A p, q, r : SameContents(p, q) /\ SameContents(q, r) => SameContents(p, r)
<1>1. \A p : SameContents(p, p)
  BY DEF SameContents
<1>2. \A p, q : SameContents(p, q) => SameContents(q, p)
  BY DEF SameContents
<1>3. \A p, q, r : SameContents(p, q) /\ SameContents(q, r) => SameContents(p, r)
  BY DEF SameContents
<1> QED BY <1>1, <1>2, <1>3

\* The tables after each kind of statement.
LEMMA WrittenPositions ==
  ASSUME NEW d \in Inputs, NEW to, Renumbers(d.roles, to)
  PROVE  LET out == Written(d, SetRolePositions(to)) IN
         /\ out \in Inputs /\ SameContents(out, d)
         /\ out.roles = AtPositions(d.roles, to) /\ out.members = d.members
<1> DEFINE out == Written(d, SetRolePositions(to))
           rs == AtPositions(d.roles, to)
<1>1. out = [d EXCEPT !.roles = rs]
  BY DEF Written, SetRolePositions
<1>2. d.roles \in Table /\ d.members \in [Member -> SUBSET RoleIds]
  BY InputsFacts
<1>3. rs \in Table /\ DOMAIN rs = DOMAIN d.roles
      /\ \A id \in DOMAIN d.roles : rs[id].permissions = d.roles[id].permissions
  BY <1>2, Placed
<1> HIDE DEF rs
<1>4. out = [roles |-> rs, members |-> d.members]
  BY <1>1, InputsUpdates
<1>5. out \in Inputs /\ out.roles = rs /\ out.members = d.members
  BY <1>2, <1>3, <1>4, InputsIntro
<1> HIDE DEF out
<1>6. SameContents(out, d)
  BY <1>3, <1>5 DEF SameContents
<1> QED BY <1>5, <1>6 DEF out, rs

LEMMA WrittenInsert ==
  ASSUME NEW d \in Inputs, NEW id \in RoleIds, id \notin DOMAIN d.roles, NEW role \in Positioned,
         role.position = 1, \A r \in DOMAIN d.roles : d.roles[r].position # 1
  PROVE  LET out == Written(d, InsertRole(id, role)) IN
         /\ out \in Inputs /\ out = [d EXCEPT !.roles = WithRole(@, id, role)]
<1> DEFINE out == Written(d, InsertRole(id, role))
           rs == WithRole(d.roles, id, role)
<1>1. out = [d EXCEPT !.roles = rs] /\ out = [d EXCEPT !.roles = WithRole(@, id, role)]
  BY DEF Written, InsertRole
<1>2. d.roles \in Table /\ d.members \in [Member -> SUBSET RoleIds]
  BY InputsFacts
<1>3. rs \in Table
  <2>1. role.position # 0 /\ \A r \in DOMAIN d.roles : d.roles[r].position # role.position
    OBVIOUS
  <2> QED BY <1>2, <2>1, Added
<1> HIDE DEF rs
<1>4. out = [roles |-> rs, members |-> d.members]
  BY <1>1, InputsUpdates
<1>5. out \in Inputs
  BY <1>2, <1>3, <1>4, InputsIntro
<1> QED BY <1>1, <1>5

\* A list with another mask for one role.
Remask(rs, id, mask) ==
  [r \in DOMAIN rs |-> IF r = id THEN [rs[r] EXCEPT !.permissions = mask] ELSE rs[r]]

LEMMA Remasked ==
  ASSUME NEW rs \in Table, NEW id, NEW mask \in SUBSET ALL
  PROVE  LET out == Remask(rs, id, mask) IN
         /\ out \in Table /\ DOMAIN out = DOMAIN rs
         /\ \A r \in DOMAIN rs : /\ out[r].position = rs[r].position
                                 /\ out[r].permissions = IF r = id THEN mask ELSE rs[r].permissions
<1> DEFINE out == Remask(rs, id, mask)
<1>1. /\ rs \in [DOMAIN rs -> Positioned] /\ DOMAIN rs \in SUBSET RoleIds
      /\ EVERYONE_ROLE_ID \in DOMAIN rs /\ rs[EVERYONE_ROLE_ID].position = 0
      /\ \A i, r \in DOMAIN rs : rs[i].position = rs[r].position => i = r
  BY TableFacts
<1>2. DOMAIN out = DOMAIN rs
  BY DEF Remask
<1>3. ASSUME NEW r \in DOMAIN rs
      PROVE  /\ out[r] \in Positioned /\ out[r].position = rs[r].position
             /\ out[r].permissions = IF r = id THEN mask ELSE rs[r].permissions
  <2>1. CASE r = id
    <3>1. out[r] = [rs[r] EXCEPT !.permissions = mask] /\ rs[r] \in Positioned
      BY <1>1, <2>1 DEF Remask
    <3> QED BY <2>1, <3>1 DEF Positioned
  <2>2. CASE r # id
    BY <1>1, <2>2 DEF Remask
  <2> QED BY <2>1, <2>2
<1>4. out \in [DOMAIN rs -> Positioned]
  BY <1>3 DEF Remask
<1> HIDE DEF out
<1>5. out \in Table
  BY <1>1, <1>3, <1>4, TableIntro
<1> QED BY <1>2, <1>3, <1>5 DEF out

LEMMA WrittenUpdate ==
  ASSUME NEW d \in Inputs, NEW id, NEW mask \in SUBSET ALL
  PROVE  LET out == Written(d, UpdateRole(id, mask)) IN
         /\ out \in Inputs /\ DOMAIN out.roles = DOMAIN d.roles /\ out.members = d.members
         /\ \A r \in DOMAIN d.roles :
              out.roles[r].permissions = IF r = id THEN mask ELSE d.roles[r].permissions
<1> DEFINE out == Written(d, UpdateRole(id, mask))
           rs == Remask(d.roles, id, mask)
<1>1. out = [d EXCEPT !.roles = rs]
  BY DEF Written, UpdateRole, Remask
<1>2. d.roles \in Table /\ d.members \in [Member -> SUBSET RoleIds]
  BY InputsFacts
<1>3. /\ rs \in Table /\ DOMAIN rs = DOMAIN d.roles
      /\ \A r \in DOMAIN d.roles :
           rs[r].permissions = IF r = id THEN mask ELSE d.roles[r].permissions
  BY <1>2, Remasked
<1> HIDE DEF rs
<1>4. out = [roles |-> rs, members |-> d.members]
  BY <1>1, InputsUpdates
<1>5. out \in Inputs /\ out.roles = rs /\ out.members = d.members
  BY <1>2, <1>3, <1>4, InputsIntro
<1> QED BY <1>3, <1>5

LEMMA WrittenDelete ==
  ASSUME NEW d \in Inputs, NEW id, id # EVERYONE_ROLE_ID
  PROVE  LET out == Written(d, DeleteRole(id)) IN
         /\ out \in Inputs
         /\ out.roles = Without(d.roles, id) /\ out.members = Stripped(d.members, id)
<1> DEFINE out == Written(d, DeleteRole(id))
           rs == Without(d.roles, id)
           ms == Stripped(d.members, id)
<1>1. out = [d EXCEPT !.roles = rs, !.members = ms]
  BY DEF Written, DeleteRole
<1>2. d.roles \in Table /\ d.members \in [Member -> SUBSET RoleIds]
  BY InputsFacts
<1>3. rs \in Table
  BY <1>2, Removed
<1>4. ms \in [Member -> SUBSET RoleIds]
  BY <1>2 DEF Stripped
<1> HIDE DEF rs, ms
<1>5. out = [roles |-> rs, members |-> ms]
  BY <1>1, InputsUpdates
<1>6. out \in Inputs /\ out.roles = rs /\ out.members = ms
  BY <1>3, <1>4, <1>5, InputsIntro
<1> QED BY <1>6 DEF rs, ms

LEMMA WrittenGrants ==
  ASSUME NEW d \in Inputs, NEW m \in Member, NEW ids \in SUBSET RoleIds
  PROVE  LET out == Written(d, ReplaceMemberRoles(m, ids)) IN
         /\ out \in Inputs /\ out.roles = d.roles
         /\ out.members = [d.members EXCEPT ![m] = ids]
<1> DEFINE out == Written(d, ReplaceMemberRoles(m, ids))
           ms == [d.members EXCEPT ![m] = ids]
<1>1. out = [d EXCEPT !.members = ms]
  BY DEF Written, ReplaceMemberRoles
<1>2. d.roles \in Table /\ d.members \in [Member -> SUBSET RoleIds]
  BY InputsFacts
<1>3. ms \in [Member -> SUBSET RoleIds]
  BY <1>2
<1> HIDE DEF ms
<1>4. out = [roles |-> d.roles, members |-> ms]
  BY <1>1, InputsUpdates
<1>5. out \in Inputs /\ out.roles = d.roles /\ out.members = ms
  BY <1>2, <1>3, <1>4, InputsIntro
<1> QED BY <1>5 DEF ms

-----------------------------------------------------------------------------
(* The steps of a command *)

\* Whether a command has swapped its inputs in.
No == FALSE
Yes == TRUE

Job(w, n, s, r) == [writes |-> w, next |-> n, swapped |-> s, refresh |-> r]

LEMMA JobParts ==
  ASSUME NEW w, NEW n, NEW s, NEW r, NEW b, b = Job(w, n, s, r)
  PROVE  /\ b.writes = w /\ b.next = n /\ b.swapped = s /\ b.refresh = r /\ b # Idle
         /\ \A v : [b EXCEPT !.writes = v] = Job(v, n, s, r)
         /\ \A v : [b EXCEPT !.swapped = v] = Job(w, n, v, r)
<1>1. b # Idle
  BY DEF Job, Idle
<1>2. \A v : [b EXCEPT !.writes = v] = Job(v, n, s, r)
  BY DEF Job
<1>3. \A v : [b EXCEPT !.swapped = v] = Job(w, n, v, r)
  BY DEF Job
<1> QED BY <1>1, <1>2, <1>3 DEF Job

\* The command in flight, in its parts.
LEMMA InFlight ==
  ASSUME RolesInv, NEW a \in Member, busy[a] # Idle
  PROVE  \E w, n, s, r : /\ busy[a] = Job(w, n, s, r) /\ n \in Inputs /\ s \in BOOLEAN
                         /\ s => w = <<>> /\ SameContents(perms, disk)
                         /\ ~ s => Pending(w, n, r)
<1>1. JobOK(busy[a])
  BY DEF RolesInv
<1>2. PICK w, n, s, r : busy[a] = Job(w, n, s, r)
  BY <1>1 DEF JobOK, Job
<1>3. busy[a].writes = w /\ busy[a].next = n /\ busy[a].swapped = s /\ busy[a].refresh = r
  BY <1>2, JobParts
<1>4. n \in Inputs /\ s \in BOOLEAN
  BY <1>1, <1>3 DEF JobOK
<1>5. s => w = <<>> /\ SameContents(perms, disk)
  BY <1>1, <1>3, Zenon DEF JobOK
<1>6. ~ s => Pending(w, n, r)
  BY <1>1, <1>3, Zenon DEF JobOK
<1> QED BY <1>2, <1>4, <1>5, <1>6, Zenon

\* Only a is at work, so what a's job needs is all there is to show.
LEMMA OneJob ==
  ASSUME RolesInv, NEW a \in Member, \A b \in Member \ {a} : busy[b] = Idle,
         perms' \in Inputs, disk' \in Inputs,
         NEW job, busy' = [busy EXCEPT ![a] = job],
         job # Idle => JobOK(job)',
         job = Idle => SameContents(perms, disk)'
  PROVE  RolesInv'
<1>1. DOMAIN busy = Member
  BY DEF RolesInv
<1>2. busy'[a] = job /\ DOMAIN busy' = Member /\ \A b \in Member \ {a} : busy'[b] = Idle
  BY <1>1
<1>3. \A x, y \in Member : busy'[x] # Idle /\ busy'[y] # Idle => x = y
  BY <1>2
<1>4. ASSUME NEW x \in Member, busy'[x] # Idle PROVE JobOK(busy[x])'
  <2>1. x = a /\ busy'[x] = job /\ job # Idle
    BY <1>2, <1>4
  <2> QED BY <2>1 DEF JobOK, Pending, Inserts
<1>5. Quiet' => SameContents(perms, disk)'
  BY <1>2 DEF Quiet
<1> QED BY <1>1, <1>2, <1>3, <1>4, <1>5 DEF RolesInv, OneAtATime

LEMMA OthersIdle ==
  ASSUME RolesInv, NEW a \in Member, busy[a] # Idle
  PROVE  \A b \in Member \ {a} : busy[b] = Idle
BY DEF RolesInv, OneAtATime

\* A command starts.
LEMMA Started ==
  ASSUME RolesInv, SparesInv, Quiet, NEW a \in Member, NEW w, NEW n \in Inputs, NEW r,
         Command(a, w, n, r), Pending(w, n, r), a # Owner => Spares(a, perms, n)
  PROVE  RolesInv' /\ SparesInv'
<1>1. PICK job : job = Job(w, n, No, r)
  OBVIOUS
<1>2. /\ busy' = [busy EXCEPT ![a] = job] /\ perms' = perms /\ disk' = disk
  BY <1>1 DEF Command, Job, No
<1>3. Quiet /\ DOMAIN busy = Member
  BY DEF RolesInv
<1>4. perms' \in Inputs /\ disk' \in Inputs /\ \A b \in Member \ {a} : busy[b] = Idle
  BY <1>2, <1>3 DEF RolesInv, Quiet
<1>5. job # Idle /\ job.writes = w /\ job.next = n /\ job.swapped \in BOOLEAN /\ ~ job.swapped /\ job.refresh = r
  <2>1. job.swapped = No /\ job # Idle /\ job.writes = w /\ job.next = n /\ job.refresh = r
    BY <1>1, JobParts
  <2> QED BY <2>1 DEF No
<1>6. Pending(w, n, r)'
  BY <1>2 DEF Pending, Inserts
<1>7. JobOK(job)'
  <2>1. \E w1, n1, s1, r1 : job = [writes |-> w1, next |-> n1, swapped |-> s1, refresh |-> r1]
    BY <1>1 DEF Job
  <2>2. job.swapped \in BOOLEAN
    BY <1>5
  <2> QED BY <1>5, <1>6, <2>1, <2>2 DEF JobOK
<1>8. RolesInv'
  BY <1>2, <1>4, <1>5, <1>7, OneJob
<1>9. SparesInv'
  <2> SUFFICES ASSUME NEW x \in Member \ {Owner}, busy'[x] # Idle
               PROVE  Spares(x, perms, busy[x].next)'
    BY DEF SparesInv
  <2>1. x = a /\ busy'[x] = job
    BY <1>2, <1>3 DEF Quiet
  <2>2. Spares(x, perms, n)
    BY <2>1
  <2> QED BY <1>2, <1>5, <2>1, <2>2 DEF Spares
<1> QED BY <1>8, <1>9

\* A write is through, or its failure does not matter.
LEMMA WentOn ==
  ASSUME RolesInv, SparesInv, NEW a \in Member, NEW w, NEW n \in Inputs, NEW r,
         busy[a] = Job(w, n, No, r), perms' = perms, disk' \in Inputs,
         busy' = [busy EXCEPT ![a].writes = Tail(@)],
         NEW t, t = Tail(w), Pending(t, n, r)'
  PROVE  RolesInv' /\ SparesInv'
<1>1. PICK job : job = Job(t, n, No, r)
  OBVIOUS
<1>2. /\ busy[a] # Idle /\ busy[a].writes = w /\ busy[a].next = n /\ ~ busy[a].swapped
      /\ \A v : [busy[a] EXCEPT !.writes = v] = Job(v, n, No, r)
  <2>1. busy[a] # Idle /\ busy[a].writes = w /\ busy[a].next = n /\ busy[a].swapped = No
    BY JobParts
  <2>2. \A v : [busy[a] EXCEPT !.writes = v] = Job(v, n, No, r)
    BY JobParts
  <2> QED BY <2>1, <2>2 DEF No
<1>3. DOMAIN busy = Member /\ perms' \in Inputs
  BY DEF RolesInv
<1>4. busy' = [busy EXCEPT ![a] = job]
  <2>1. busy' = [busy EXCEPT ![a] = [busy[a] EXCEPT !.writes = Tail(busy[a].writes)]]
    BY <1>3
  <2>2. [busy[a] EXCEPT !.writes = t] = job
    BY <1>1, <1>2
  <2> QED BY <1>2, <2>1, <2>2
<1>5. job # Idle /\ job.writes = t /\ job.next = n /\ job.swapped \in BOOLEAN /\ ~ job.swapped /\ job.refresh = r
  <2>1. job.writes = t /\ job.next = n /\ job.refresh = r /\ job.swapped = No
    BY <1>1 DEF Job
  <2>2. job # Idle
    BY <1>1 DEF Job, Idle
  <2> QED BY <2>1, <2>2 DEF No
<1>6. JobOK(job)'
  <2>1. \E w1, n1, s1, r1 : job = [writes |-> w1, next |-> n1, swapped |-> s1, refresh |-> r1]
    BY <1>1 DEF Job
  <2>2. job.swapped \in BOOLEAN
    BY <1>5
  <2> QED BY <1>5, <2>1, <2>2 DEF JobOK
<1>7. \A b \in Member \ {a} : busy[b] = Idle
  BY <1>2, OthersIdle
<1>8. RolesInv'
  BY <1>3, <1>4, <1>5, <1>6, <1>7, OneJob
<1>9. SparesInv'
  <2> SUFFICES ASSUME NEW x \in Member \ {Owner}, busy'[x] # Idle
               PROVE  Spares(x, perms, busy[x].next)'
    BY DEF SparesInv
  <2>1. x = a /\ busy'[x] = job
    BY <1>3, <1>4, <1>7
  <2>2. Spares(x, perms, n)
    BY <1>2, <2>1 DEF SparesInv
  <2> QED BY <1>5, <2>1, <2>2 DEF Spares
<1> QED BY <1>8, <1>9

\* A command is refused by the store.
LEMMA GaveUp ==
  ASSUME RolesInv, SparesInv, NEW a \in Member, busy[a] # Idle, SameContents(perms, disk),
         perms' = perms, disk' = disk, busy' = [busy EXCEPT ![a] = Idle]
  PROVE  RolesInv' /\ SparesInv'
<1>1. \A b \in Member \ {a} : busy[b] = Idle
  BY OthersIdle
<1>2. perms' \in Inputs /\ disk' \in Inputs /\ SameContents(perms, disk)' /\ DOMAIN busy = Member
  BY DEF RolesInv, SameContents
<1>3. RolesInv'
  BY <1>1, <1>2, OneJob
<1>4. \A b \in Member : busy'[b] = Idle
  BY <1>1, <1>2
<1> QED BY <1>3, <1>4 DEF SparesInv

\* The same role added to the same contents.
LEMMA SameAdded ==
  ASSUME NEW p \in Inputs, NEW q \in Inputs, SameContents(p, q), NEW id, NEW role
  PROVE  SameContents([p EXCEPT !.roles = WithRole(@, id, role)],
                      [q EXCEPT !.roles = WithRole(@, id, role)])
<1>1. PICK x : x = WithRole(p.roles, id, role)
  OBVIOUS
<1>2. PICK y : y = WithRole(q.roles, id, role)
  OBVIOUS
<1>3. /\ [p EXCEPT !.roles = x] = [roles |-> x, members |-> p.members]
      /\ [q EXCEPT !.roles = y] = [roles |-> y, members |-> q.members]
  BY InputsUpdates
<1>4. /\ DOMAIN p.roles = DOMAIN q.roles /\ p.members = q.members
      /\ \A r \in DOMAIN p.roles : p.roles[r].permissions = q.roles[r].permissions
  BY DEF SameContents
<1>5. /\ DOMAIN x = DOMAIN p.roles \cup {id} /\ DOMAIN y = DOMAIN q.roles \cup {id}
      /\ \A r \in DOMAIN p.roles \cup {id} : x[r] = IF r = id THEN role ELSE p.roles[r]
      /\ \A r \in DOMAIN q.roles \cup {id} : y[r] = IF r = id THEN role ELSE q.roles[r]
  BY <1>1, <1>2 DEF WithRole
<1>6. DOMAIN x = DOMAIN y /\ \A r \in DOMAIN x : x[r].permissions = y[r].permissions
  BY <1>4, <1>5
<1>7. SameContents([roles |-> x, members |-> p.members], [roles |-> y, members |-> q.members])
  BY <1>4, <1>6 DEF SameContents
<1> QED BY <1>1, <1>2, <1>3, <1>7

\* A write that lands brings the command nearer to its new inputs.
LEMMA WriteLands ==
  ASSUME RolesInv, NEW w, NEW n \in Inputs, NEW r, Pending(w, n, r), w # <<>>,
         perms' = perms, NEW h, h = Head(w), NEW t, t = Tail(w), disk' = Written(disk, h)
  PROVE  disk' \in Inputs /\ Pending(t, n, r)'
<1>1. disk \in Inputs /\ disk.roles \in Table
  BY InputsFacts DEF RolesInv
<1>2. ASSUME disk' \in Inputs, t = <<>>, SameContents(n, disk')
      PROVE  disk' \in Inputs /\ Pending(t, n, r)'
  BY <1>2 DEF Pending
<1>3. ASSUME NEW to, w = <<SetRolePositions(to)>>, Renumbers(disk.roles, to), SameContents(n, disk)
      PROVE  disk' \in Inputs /\ Pending(t, n, r)'
  <2>1. h = SetRolePositions(to) /\ t = <<>>
    BY <1>3
  <2>2. disk' \in Inputs /\ SameContents(disk', disk)
    BY <1>1, <1>3, <2>1, WrittenPositions
  <2>3. SameContents(n, disk')
    BY <1>3, <2>2, SameFacts
  <2> QED BY <1>2, <2>1, <2>2, <2>3
<1>4. ASSUME NEW id, NEW role, w = <<InsertRole(id, role)>>, Inserts(id, role, n),
             \A x \in DOMAIN disk.roles : disk.roles[x].position # 1
      PROVE  disk' \in Inputs /\ Pending(t, n, r)'
  <2>1. h = InsertRole(id, role) /\ t = <<>>
    BY <1>4
  <2>2. disk' \in Inputs /\ disk' = [disk EXCEPT !.roles = WithRole(@, id, role)]
    BY <1>1, <1>4, <2>1, WrittenInsert DEF Inserts
  <2>3. SameContents(n, disk')
    BY <1>4, <2>2 DEF Inserts
  <2> QED BY <1>2, <2>1, <2>2, <2>3
<1>5. ASSUME NEW to, NEW id, NEW role, w = <<SetRolePositions(to), InsertRole(id, role)>>, r = <<>>,
             Renumbers(disk.roles, to), \A x \in DOMAIN to : to[x] # 1,
             Inserts(id, role, n), SameContents(perms, disk)
      PROVE  disk' \in Inputs /\ Pending(t, n, r)'
  <2>1. h = SetRolePositions(to) /\ t = <<InsertRole(id, role)>>
    BY <1>5
  <2>2. disk' \in Inputs /\ SameContents(disk', disk) /\ disk'.roles = AtPositions(disk.roles, to)
    BY <1>1, <1>5, <2>1, WrittenPositions
  <2>3. /\ DOMAIN disk'.roles = DOMAIN disk.roles
        /\ \A x \in DOMAIN disk.roles : disk'.roles[x].position = to[x]
    BY <1>1, <1>5, <2>2, Placed
  <2>4. DOMAIN to = DOMAIN disk.roles
    BY <1>5 DEF Renumbers
  <2>5. \A x \in DOMAIN disk'.roles : disk'.roles[x].position # 1
    BY <1>5, <2>3, <2>4
  <2>6. SameContents(perms', disk')
    BY <1>5, <2>2, SameFacts
  <2>7. SameContents(n, [disk' EXCEPT !.roles = WithRole(@, id, role)])
    <3>1. SameContents(disk, disk')
      BY <2>2, SameFacts
    <3>2. PICK e : e = disk'
      OBVIOUS
    <3>3. SameContents([disk EXCEPT !.roles = WithRole(@, id, role)],
                       [e EXCEPT !.roles = WithRole(@, id, role)])
      BY <1>1, <2>2, <3>1, <3>2, SameAdded
    <3>4. SameContents(n, [e EXCEPT !.roles = WithRole(@, id, role)])
      BY <1>5, <3>3, SameFacts DEF Inserts
    <3> QED BY <3>2, <3>4
  <2>8. Inserts(id, role, n)'
    BY <1>5, <2>3, <2>7 DEF Inserts
  <2> QED BY <1>5, <2>1, <2>2, <2>5, <2>6, <2>8 DEF Pending
<1>6. ASSUME NEW id, NEW mask, w = <<UpdateRole(id, mask)>>, mask \in SUBSET ALL,
             SameContents(n, Written(disk, UpdateRole(id, mask)))
      PROVE  disk' \in Inputs /\ Pending(t, n, r)'
  <2>1. h = UpdateRole(id, mask) /\ t = <<>>
    BY <1>6
  <2>2. disk' \in Inputs
    BY <1>1, <1>6, <2>1, WrittenUpdate
  <2> QED BY <1>2, <1>6, <2>1, <2>2
<1>7. ASSUME NEW id, NEW to, w = <<DeleteRole(id), SetRolePositions(to)>>, r # <<>>,
             id # EVERYONE_ROLE_ID, Renumbers(Without(disk.roles, id), to),
             SameContents(n, Written(disk, DeleteRole(id)))
      PROVE  disk' \in Inputs /\ Pending(t, n, r)'
  <2>1. h = DeleteRole(id) /\ t = <<SetRolePositions(to)>>
    BY <1>7
  <2>2. disk' \in Inputs /\ disk'.roles = Without(disk.roles, id)
    BY <1>1, <1>7, <2>1, WrittenDelete
  <2>3. Renumbers(disk'.roles, to) /\ SameContents(n, disk')
    BY <1>7, <2>1, <2>2
  <2> QED BY <1>7, <2>1, <2>2, <2>3 DEF Pending
<1>8. ASSUME NEW m, NEW ids, w = <<ReplaceMemberRoles(m, ids)>>, m \in Member, ids \in SUBSET RoleIds,
             SameContents(n, Written(disk, ReplaceMemberRoles(m, ids)))
      PROVE  disk' \in Inputs /\ Pending(t, n, r)'
  <2>1. h = ReplaceMemberRoles(m, ids) /\ t = <<>>
    BY <1>8
  <2>2. disk' \in Inputs
    BY <1>1, <1>8, <2>1, WrittenGrants
  <2> QED BY <1>2, <1>8, <2>1, <2>2
<1> QED BY <1>3, <1>4, <1>5, <1>6, <1>7, <1>8, Zenon DEF Pending

\* A write that fails leaves what was there, or loses positions only.
LEMMA WriteFails ==
  ASSUME NEW w, NEW n, NEW r, Pending(w, n, r), w # <<>>, NEW h, h = Head(w), NEW t, t = Tail(w)
  PROVE  IF r # <<>> /\ h.op = "positions" THEN Pending(t, n, r) ELSE SameContents(perms, disk)
<1>1. ASSUME NEW to, w = <<SetRolePositions(to)>>, SameContents(n, disk),
             r = <<>> => SameContents(perms, disk)
      PROVE  IF r # <<>> /\ h.op = "positions" THEN Pending(t, n, r) ELSE SameContents(perms, disk)
  <2>1. h.op = "positions" /\ t = <<>>
    BY <1>1 DEF SetRolePositions
  <2>2. Pending(t, n, r)
    BY <1>1, <2>1 DEF Pending
  <2> QED BY <1>1, <2>1, <2>2
<1>2. ASSUME SameContents(perms, disk), r = <<>> \/ h.op # "positions"
      PROVE  IF r # <<>> /\ h.op = "positions" THEN Pending(t, n, r) ELSE SameContents(perms, disk)
  BY <1>2
<1>3. ASSUME NEW id, NEW mask, w = <<UpdateRole(id, mask)>> PROVE h.op # "positions"
  BY <1>3 DEF UpdateRole
<1>4. ASSUME NEW id, NEW to, w = <<DeleteRole(id), SetRolePositions(to)>> PROVE h.op # "positions"
  BY <1>4 DEF DeleteRole
<1>5. ASSUME NEW m, NEW ids, w = <<ReplaceMemberRoles(m, ids)>> PROVE h.op # "positions"
  BY <1>5 DEF ReplaceMemberRoles
<1> QED BY <1>1, <1>2, <1>3, <1>4, <1>5, Zenon DEF Pending

LEMMA WriteStep ==
  ASSUME RolesInv, SparesInv, NEW a \in Member, Write(a)
  PROVE  RolesInv' /\ SparesInv'
<1>1. busy[a] # Idle /\ busy[a].writes # <<>> /\ perms' = perms
  BY DEF Write
<1>2. PICK w, n, s, r : /\ busy[a] = Job(w, n, s, r) /\ n \in Inputs /\ s \in BOOLEAN
                        /\ s => w = <<>> /\ SameContents(perms, disk)
                        /\ ~ s => Pending(w, n, r)
  BY <1>1, InFlight
<1>3. busy[a].writes = w /\ busy[a].refresh = r
  BY <1>2, JobParts
<1>4. ~ s /\ w # <<>>
  BY <1>1, <1>2, <1>3
<1>5. busy[a] = Job(w, n, No, r) /\ Pending(w, n, r)
  BY <1>2, <1>4 DEF No
<1>6. PICK h, t : h = Head(w) /\ t = Tail(w)
  OBVIOUS
<1>7. Optional(busy[a]) <=> r # <<>> /\ h.op = "positions"
  BY <1>3, <1>6 DEF Optional
<1>8. CASE disk' = Written(disk, h) /\ busy' = [busy EXCEPT ![a].writes = Tail(@)]
  <2>1. disk' \in Inputs /\ Pending(t, n, r)'
    BY <1>1, <1>2, <1>4, <1>5, <1>6, <1>8, WriteLands
  <2> QED BY <1>1, <1>2, <1>5, <1>6, <1>8, <2>1, WentOn
<1>9. CASE disk' = disk /\ Optional(busy[a]) /\ busy' = [busy EXCEPT ![a].writes = Tail(@)]
  <2>1. Pending(t, n, r)
    BY <1>4, <1>5, <1>6, <1>7, <1>9, WriteFails
  <2>2. disk' \in Inputs /\ Pending(t, n, r)'
    BY <1>1, <1>9, <2>1 DEF RolesInv, Pending, Inserts
  <2> QED BY <1>1, <1>2, <1>5, <1>6, <1>9, <2>2, WentOn
<1>10. CASE disk' = disk /\ ~ Optional(busy[a]) /\ busy' = [busy EXCEPT ![a] = Idle]
  <2>1. SameContents(perms, disk)
    BY <1>4, <1>5, <1>6, <1>7, <1>10, WriteFails
  <2> QED BY <1>1, <1>10, <2>1, GaveUp
<1> QED BY <1>3, <1>6, <1>8, <1>9, <1>10 DEF Write

-----------------------------------------------------------------------------
(* The commands *)

\* What a command finds when it starts.
LEMMA Calm ==
  ASSUME RolesInv, Quiet, NEW a \in Member
  PROVE  /\ SameContents(perms, disk) /\ DOMAIN perms.roles = DOMAIN disk.roles
         /\ perms.members = disk.members
         /\ perms \in Inputs /\ disk \in Inputs /\ perms.roles \in Table /\ disk.roles \in Table
         /\ perms.members \in [Member -> SUBSET RoleIds]
         /\ MyTop(a) \in Nat
<1>1. SameContents(perms, disk)
  BY DEF RolesInv
<1>2. perms \in Inputs /\ disk \in Inputs
  BY DEF RolesInv
<1>3. /\ perms.roles \in Table /\ disk.roles \in Table
      /\ perms.members \in [Member -> SUBSET RoleIds]
  BY <1>2, InputsFacts
<1>4. MyTop(a) \in Nat
  <2>1. IsFiniteSet(RoleIds)
    BY RoleIdsFinite
  <2>2. IsFiniteSet(perms.members[a])
    <3>1. perms.members[a] \subseteq RoleIds
      BY <1>3
    <3> QED BY <2>1, <3>1, FS_Subset
  <2>3. \A id \in DOMAIN perms.roles : perms.roles[id].position \in Nat
    BY <1>3, TableFacts
  <2> QED BY <2>2, <2>3, RankIsNumber DEF MyTop
<1> QED BY <1>1, <1>2, <1>3, <1>4 DEF SameContents

\* Renumbering looks at which roles there are and at nothing else.
LEMMA RenumbersSame ==
  ASSUME NEW x, NEW y, DOMAIN x = DOMAIN y, NEW to, Renumbers(x, to)
  PROVE  Renumbers(y, to)
BY DEF Renumbers

LEMMA SparesIntro ==
  ASSUME NEW a, NEW p, NEW q, NEW top, top = top_role_position(p.roles, p.members[a]),
         \A id \in DOMAIN p.roles : p.roles[id].position >= top =>
           /\ id \in DOMAIN q.roles
           /\ q.roles[id].permissions = p.roles[id].permissions
           /\ \A m \in Member : id \in q.members[m] <=> id \in p.members[m]
           /\ \A r \in DOMAIN p.roles \cap DOMAIN q.roles :
                p.roles[r].position < p.roles[id].position
                  => q.roles[r].position < q.roles[id].position
  PROVE  Spares(a, p, q)
BY DEF Spares

\* The id after the greatest one is free.
LEMMA FreshRole ==
  ASSUME RolesInv, NextRoleId <= MaxRoleId
  PROVE  NextRoleId \in RoleIds /\ NextRoleId \notin DOMAIN perms.roles
<1> DEFINE D == DOMAIN perms.roles
           S == {MaxRoleId - id : id \in D}
<1>1. perms.roles \in Table
  BY InputsFacts DEF RolesInv
<1>2. D \in SUBSET RoleIds /\ EVERYONE_ROLE_ID \in D
  BY <1>1, TableFacts
<1>3. MaxRoleId \in Nat
  BY RolesAssumption
<1>4. S \in SUBSET Nat /\ S # {}
  BY <1>2, <1>3 DEF RoleIds
<1>5. PICK k \in S : \A j \in S : k <= j
  BY <1>4, LeastNat
<1>6. \E id \in D : \A r \in D : r <= id
  <2>1. PICK id \in D : k = MaxRoleId - id
    BY <1>5
  <2>2. \A r \in D : MaxRoleId - id <= MaxRoleId - r
    BY <1>5, <2>1
  <2> QED BY <1>2, <1>3, <2>2 DEF RoleIds
<1> HIDE DEF D
<1>7. PICK top : top = CHOOSE id \in D : \A r \in D : r <= id
  OBVIOUS
<1>8. top \in D /\ \A r \in D : r <= top
  BY <1>6, <1>7, Zenon
<1>9. NextRoleId = 1 + top
  BY <1>7 DEF NextRoleId, D
<1> QED BY <1>2, <1>3, <1>8, <1>9 DEF RoleIds, D

LEMMA CreateStep ==
  ASSUME RolesInv, SparesInv, Quiet, NEW a \in Member, NEW mask \in Masks, create_role(a, mask)
  PROVE  RolesInv' /\ SparesInv'
<1>1. PICK to : to = shifted_positions(perms.roles)
  OBVIOUS
<1>2. PICK role : role = [position |-> 1, permissions |-> mask]
  OBVIOUS
<1>3. PICK id : id = NextRoleId
  OBVIOUS
<1>4. PICK x : x = AtPositions(perms.roles, to)
  OBVIOUS
<1>5. PICK y : y = WithRole(x, id, role)
  OBVIOUS
<1>6. PICK w : w = <<SetRolePositions(to), InsertRole(id, role)>>
  OBVIOUS
<1>7. PICK n : n = [perms EXCEPT !.roles = y]
  OBVIOUS
<1>8. Command(a, w, n, <<>>) /\ id <= MaxRoleId
  BY <1>1, <1>2, <1>3, <1>4, <1>5, <1>6, <1>7 DEF create_role
<1>9. /\ SameContents(perms, disk) /\ DOMAIN perms.roles = DOMAIN disk.roles
      /\ perms.members = disk.members
      /\ perms \in Inputs /\ disk \in Inputs /\ perms.roles \in Table /\ disk.roles \in Table
      /\ perms.members \in [Member -> SUBSET RoleIds]
  BY Calm
<1>10. id \in RoleIds /\ id \notin DOMAIN perms.roles
  BY <1>3, <1>8, FreshRole
<1>11. role \in Positioned /\ role.position = 1
  BY <1>2, RolesAssumption DEF Positioned
<1>12. /\ Renumbers(perms.roles, to) /\ \A r \in DOMAIN to : to[r] # 1
       /\ \A i, r \in DOMAIN perms.roles :
            perms.roles[i].position < perms.roles[r].position => to[i] < to[r]
  BY <1>1, <1>9, Shifted
<1>13. /\ x \in Table /\ DOMAIN x = DOMAIN perms.roles
       /\ \A i \in DOMAIN perms.roles : /\ x[i].permissions = perms.roles[i].permissions
                                        /\ x[i].position = to[i]
  BY <1>4, <1>9, <1>12, Placed
<1>14. DOMAIN to = DOMAIN perms.roles
  BY <1>12 DEF Renumbers
<1>15. /\ y \in Table /\ DOMAIN y = DOMAIN perms.roles \cup {id}
       /\ \A r \in DOMAIN perms.roles : y[r] = x[r]
  <2>1. role.position # 0 /\ \A r \in DOMAIN x : x[r].position # role.position
    BY <1>11, <1>12, <1>13, <1>14
  <2>2. id \notin DOMAIN x
    BY <1>10, <1>13
  <2>3. y \in Table
    <3>1. WithRole(x, id, role) \in Table
      BY <1>10, <1>11, <1>13, <2>1, <2>2, Added
    <3> QED BY <1>5, <3>1
  <2>4. DOMAIN y = DOMAIN x \cup {id} /\ \A r \in DOMAIN x : y[r] = x[r]
    BY <1>5, <2>2 DEF WithRole
  <2> QED BY <1>13, <2>3, <2>4
<1>16. n = [roles |-> y, members |-> perms.members]
  BY <1>7, <1>9, InputsUpdates
<1>17. n \in Inputs /\ n.roles = y /\ n.members = perms.members
  BY <1>9, <1>15, <1>16, InputsIntro
<1>18. SameContents(n, [disk EXCEPT !.roles = WithRole(@, id, role)])
  <2>1. PICK p : p = [roles |-> x, members |-> perms.members]
    OBVIOUS
  <2>2. p \in Inputs /\ p.roles = x /\ p.members = perms.members
    BY <1>9, <1>13, <2>1, InputsIntro
  <2>3. SameContents(p, perms)
    BY <1>13, <2>2 DEF SameContents
  <2>4. SameContents(p, disk)
    BY <1>9, <2>3, SameFacts
  <2>5. SameContents([p EXCEPT !.roles = WithRole(@, id, role)],
                     [disk EXCEPT !.roles = WithRole(@, id, role)])
    BY <1>9, <2>2, <2>4, SameAdded
  <2>6. [p EXCEPT !.roles = y] = n
    <3>1. [p EXCEPT !.roles = y] = [roles |-> y, members |-> p.members]
      BY <2>2, InputsUpdates
    <3> QED BY <1>16, <2>2, <3>1
  <2> QED BY <1>5, <2>2, <2>5, <2>6
<1>19. Inserts(id, role, n)
  BY <1>9, <1>10, <1>11, <1>18 DEF Inserts
<1>20. Renumbers(disk.roles, to)
  BY <1>9, <1>12, RenumbersSame
<1>21. Pending(w, n, <<>>)
  BY <1>6, <1>9, <1>12, <1>19, <1>20 DEF Pending
<1>22. Spares(a, perms, n)
  <2>1. \A i, r \in DOMAIN perms.roles : perms.roles[r].position < perms.roles[i].position
          => n.roles[r].position < n.roles[i].position
    BY <1>12, <1>13, <1>15, <1>17
  <2>2. \A i \in DOMAIN perms.roles :
          i \in DOMAIN n.roles /\ n.roles[i].permissions = perms.roles[i].permissions
    BY <1>13, <1>15, <1>17
  <2> QED BY <1>17, <2>1, <2>2, SparesIntro
<1> QED BY <1>8, <1>17, <1>21, <1>22, Started

\* Who is not the owner manages what is below its own rank.
LEMMA ManagesBelow ==
  ASSUME NEW a, a # Owner, NEW id, MayManage(a, id)
  PROVE  perms.roles[id].position < MyTop(a)
BY DEF MayManage, can_manage_role, MyTop

LEMMA UpdateStep ==
  ASSUME RolesInv, SparesInv, Quiet, NEW a \in Member, NEW id, NEW mask \in Masks, update_role(a, id, mask)
  PROVE  RolesInv' /\ SparesInv'
<1>1. PICK y : y = Remask(perms.roles, id, mask)
  OBVIOUS
<1>2. PICK w : w = <<UpdateRole(id, mask)>>
  OBVIOUS
<1>3. PICK n : n = [perms EXCEPT !.roles[id].permissions = mask]
  OBVIOUS
<1>4. Command(a, w, n, <<>>) /\ id \in DOMAIN perms.roles /\ MayManage(a, id)
  BY <1>2, <1>3 DEF update_role
<1>5. /\ SameContents(perms, disk) /\ DOMAIN perms.roles = DOMAIN disk.roles
      /\ perms.members = disk.members
      /\ perms \in Inputs /\ disk \in Inputs /\ perms.roles \in Table /\ disk.roles \in Table
      /\ perms.members \in [Member -> SUBSET RoleIds] /\ MyTop(a) \in Nat
  BY Calm
<1>6. mask \in SUBSET ALL
  BY RolesAssumption
<1>7. /\ y \in Table /\ DOMAIN y = DOMAIN perms.roles
      /\ \A r \in DOMAIN perms.roles :
           /\ y[r].position = perms.roles[r].position
           /\ y[r].permissions = IF r = id THEN mask ELSE perms.roles[r].permissions
  BY <1>1, <1>5, <1>6, Remasked
<1>8. n = [roles |-> y, members |-> perms.members]
  <2>1. PICK e : e = [perms.roles[id] EXCEPT !.permissions = mask]
    OBVIOUS
  <2>2. y = [r \in DOMAIN perms.roles |-> IF r = id THEN e ELSE perms.roles[r]]
    BY <1>1, <2>1 DEF Remask
  <2>3. perms.roles = [r \in DOMAIN perms.roles |-> perms.roles[r]]
    BY <1>5, TableFacts
  <2>4. [perms.roles EXCEPT ![id] = e] = y
    BY <2>2, <2>3
  <2>5. n = [perms EXCEPT !.roles = [perms.roles EXCEPT ![id] = e]]
    BY <1>3, <2>1
  <2> QED BY <1>5, <2>4, <2>5, InputsUpdates
<1>9. n \in Inputs /\ n.roles = y /\ n.members = perms.members
  BY <1>5, <1>7, <1>8, InputsIntro
<1>10. SameContents(n, Written(disk, UpdateRole(id, mask)))
  <2>1. PICK out : out = Written(disk, UpdateRole(id, mask))
    OBVIOUS
  <2>2. /\ DOMAIN out.roles = DOMAIN disk.roles /\ out.members = disk.members
        /\ \A r \in DOMAIN disk.roles :
             out.roles[r].permissions = IF r = id THEN mask ELSE disk.roles[r].permissions
    BY <1>5, <1>6, <2>1, WrittenUpdate
  <2>3. \A r \in DOMAIN perms.roles : perms.roles[r].permissions = disk.roles[r].permissions
    BY <1>5 DEF SameContents
  <2>4. SameContents(n, out)
    BY <1>5, <1>7, <1>9, <2>2, <2>3 DEF SameContents
  <2> QED BY <2>1, <2>4
<1>11. Pending(w, n, <<>>)
  BY <1>2, <1>5, <1>6, <1>10 DEF Pending
<1>12. ASSUME a # Owner PROVE Spares(a, perms, n)
  <2>1. perms.roles[id].position < MyTop(a)
    BY <1>4, <1>12, ManagesBelow
  <2>2. \A i \in DOMAIN perms.roles : perms.roles[i].position >= MyTop(a) => i # id
    <3>1. \A i \in DOMAIN perms.roles : perms.roles[i].position \in Nat
      BY <1>5, TableFacts
    <3> QED BY <1>4, <1>5, <2>1, <3>1
  <2>3. \A i \in DOMAIN perms.roles : perms.roles[i].position >= MyTop(a) =>
          n.roles[i].permissions = perms.roles[i].permissions
    BY <1>7, <1>9, <2>2
  <2>4. \A i \in DOMAIN perms.roles : i \in DOMAIN n.roles
                                      /\ n.roles[i].position = perms.roles[i].position
    BY <1>7, <1>9
  <2> QED BY <1>9, <2>3, <2>4, SparesIntro DEF MyTop
<1> QED BY <1>4, <1>9, <1>11, <1>12, Started

LEMMA ReorderStep ==
  ASSUME RolesInv, SparesInv, Quiet, NEW a \in Member, NEW to \in [DOMAIN perms.roles -> RoleIds],
         reorder_roles(a, to)
  PROVE  RolesInv' /\ SparesInv'
<1>1. PICK y : y = AtPositions(perms.roles, to)
  OBVIOUS
<1>2. PICK w : w = <<SetRolePositions(to)>>
  OBVIOUS
<1>3. PICK n : n = [perms EXCEPT !.roles = y]
  OBVIOUS
<1>4. /\ Command(a, w, n, <<>>)
      /\ DOMAIN to = DOMAIN perms.roles /\ to[EVERYONE_ROLE_ID] = 0
      /\ {to[id] : id \in DOMAIN to} = 0..(Cardinality(DOMAIN to) - 1)
      /\ a = Owner \/ MovesBelow(perms.roles, to, MyTop(a))
  BY <1>1, <1>2, <1>3 DEF reorder_roles
<1>5. /\ SameContents(perms, disk) /\ DOMAIN perms.roles = DOMAIN disk.roles
      /\ perms \in Inputs /\ disk \in Inputs /\ perms.roles \in Table /\ disk.roles \in Table
      /\ perms.members \in [Member -> SUBSET RoleIds] /\ MyTop(a) \in Nat
  BY Calm
<1>6. Renumbers(perms.roles, to)
  BY <1>4, <1>5, DenseIsInjective
<1>7. /\ y \in Table /\ DOMAIN y = DOMAIN perms.roles
      /\ \A id \in DOMAIN perms.roles : /\ y[id].permissions = perms.roles[id].permissions
                                        /\ y[id].position = to[id]
  BY <1>1, <1>5, <1>6, Placed
<1>8. n = [roles |-> y, members |-> perms.members]
  BY <1>3, <1>5, InputsUpdates
<1>9. n \in Inputs /\ n.roles = y /\ n.members = perms.members
  BY <1>5, <1>7, <1>8, InputsIntro
<1>10. SameContents(n, disk)
  <2>1. SameContents(n, perms)
    BY <1>7, <1>9 DEF SameContents
  <2> QED BY <1>5, <2>1, SameFacts
<1>11. Renumbers(disk.roles, to)
  BY <1>5, <1>6, RenumbersSame
<1>12. Pending(w, n, <<>>)
  BY <1>2, <1>5, <1>10, <1>11 DEF Pending
<1>13. ASSUME a # Owner PROVE Spares(a, perms, n)
  <2>1. PICK top \in Nat : top = MyTop(a)
    BY <1>5
  <2>2. \A id \in DOMAIN perms.roles : perms.roles[id].position \in Nat /\ to[id] \in Nat
    BY <1>5, <1>6, TableFacts DEF Renumbers
  <2>3. \A id \in DOMAIN perms.roles : to[id] # perms.roles[id].position =>
          perms.roles[id].position < top /\ to[id] < top
    BY <1>4, <1>13, <2>1 DEF MovesBelow
  <2>4. ASSUME NEW id \in DOMAIN perms.roles, perms.roles[id].position >= top,
               NEW r \in DOMAIN perms.roles, perms.roles[r].position < perms.roles[id].position
        PROVE  to[r] < to[id]
    BY <2>2, <2>3, <2>4
  <2>5. \A id \in DOMAIN perms.roles :
          /\ id \in DOMAIN n.roles /\ n.roles[id].permissions = perms.roles[id].permissions
          /\ n.roles[id].position = to[id]
    BY <1>7, <1>9
  <2>6. \A id \in DOMAIN perms.roles : perms.roles[id].position >= top =>
          \A r \in DOMAIN perms.roles \cap DOMAIN n.roles :
             perms.roles[r].position < perms.roles[id].position
               => n.roles[r].position < n.roles[id].position
    BY <2>4, <2>5
  <2>7. top = top_role_position(perms.roles, perms.members[a])
    BY <2>1 DEF MyTop
  <2> QED BY <1>9, <2>5, <2>6, <2>7, SparesIntro
<1> QED BY <1>4, <1>9, <1>12, <1>13, Started

LEMMA GrantStep ==
  ASSUME RolesInv, SparesInv, Quiet, NEW a \in Member, NEW m \in Member, NEW ids \in SUBSET RoleIds,
         set_member_roles(a, m, ids)
  PROVE  RolesInv' /\ SparesInv'
<1>1. PICK y : y = [perms.members EXCEPT ![m] = ids]
  OBVIOUS
<1>2. PICK w : w = <<ReplaceMemberRoles(m, ids)>>
  OBVIOUS
<1>3. PICK n : n = [perms EXCEPT !.members[m] = ids]
  OBVIOUS
<1>4. /\ Command(a, w, n, w)
      /\ \A id \in (ids \ perms.members[m]) \cup (perms.members[m] \ ids) : MayManage(a, id)
  BY <1>2, <1>3 DEF set_member_roles
<1>5. /\ SameContents(perms, disk) /\ DOMAIN perms.roles = DOMAIN disk.roles
      /\ perms.members = disk.members
      /\ perms \in Inputs /\ disk \in Inputs /\ perms.roles \in Table /\ disk.roles \in Table
      /\ perms.members \in [Member -> SUBSET RoleIds] /\ MyTop(a) \in Nat
  BY Calm
<1>6. n = [roles |-> perms.roles, members |-> y]
  <2>1. n = [perms EXCEPT !.members = y]
    BY <1>1, <1>3
  <2> QED BY <1>5, <2>1, InputsUpdates
<1>7. y \in [Member -> SUBSET RoleIds]
  BY <1>1, <1>5
<1>8. n \in Inputs /\ n.roles = perms.roles /\ n.members = y
  BY <1>5, <1>6, <1>7, InputsIntro
<1>9. SameContents(n, Written(disk, ReplaceMemberRoles(m, ids)))
  <2>1. PICK out : out = Written(disk, ReplaceMemberRoles(m, ids))
    OBVIOUS
  <2>2. out.roles = disk.roles /\ out.members = [disk.members EXCEPT ![m] = ids]
    BY <1>5, <2>1, WrittenGrants
  <2>3. out.members = y
    BY <1>1, <1>5, <2>2
  <2>4. SameContents(n, out)
    BY <1>5, <1>8, <2>2, <2>3 DEF SameContents
  <2> QED BY <2>1, <2>4
<1>10. Pending(w, n, w)
  BY <1>2, <1>5, <1>9 DEF Pending
<1>11. ASSUME a # Owner PROVE Spares(a, perms, n)
  <2>1. PICK top \in Nat : top = MyTop(a)
    BY <1>5
  <2>2. \A id \in (ids \ perms.members[m]) \cup (perms.members[m] \ ids) :
          perms.roles[id].position < top
    BY <1>4, <1>11, <2>1, ManagesBelow
  <2>3. \A id \in DOMAIN perms.roles : perms.roles[id].position \in Nat
    BY <1>5, TableFacts
  <2>4. ASSUME NEW id \in DOMAIN perms.roles, perms.roles[id].position >= top
        PROVE  \A x \in Member : id \in n.members[x] <=> id \in perms.members[x]
    <3>1. id \in ids <=> id \in perms.members[m]
      BY <2>2, <2>3, <2>4
    <3>2. \A x \in Member : n.members[x] = IF x = m THEN ids ELSE perms.members[x]
      BY <1>1, <1>5, <1>8
    <3> QED BY <3>1, <3>2
  <2>5. top = top_role_position(perms.roles, perms.members[a])
    BY <2>1 DEF MyTop
  <2> QED BY <1>8, <2>4, <2>5, SparesIntro
<1> QED BY <1>4, <1>8, <1>10, <1>11, Started

LEMMA DeleteStep ==
  ASSUME RolesInv, SparesInv, Quiet, NEW a \in Member, NEW id, delete_role(a, id)
  PROVE  RolesInv' /\ SparesInv'
<1>1. PICK kept : kept = Without(perms.roles, id)
  OBVIOUS
<1>2. PICK to : to = Compacted(kept)
  OBVIOUS
<1>3. PICK y : y = AtPositions(kept, to)
  OBVIOUS
<1>4. PICK ms : ms = Stripped(perms.members, id)
  OBVIOUS
<1>5. PICK w : w = <<DeleteRole(id), SetRolePositions(to)>>
  OBVIOUS
<1>6. PICK n : n = [roles |-> y, members |-> ms]
  OBVIOUS
<1>7. PICK r : r = <<DeleteRole(id)>>
  OBVIOUS
<1>8. /\ Command(a, w, n, r) /\ MayManage(a, id)
      /\ id \in DOMAIN perms.roles /\ id # EVERYONE_ROLE_ID
  BY <1>1, <1>2, <1>3, <1>4, <1>5, <1>6, <1>7 DEF delete_role
<1>9. /\ SameContents(perms, disk) /\ DOMAIN perms.roles = DOMAIN disk.roles
      /\ perms.members = disk.members
      /\ perms \in Inputs /\ disk \in Inputs /\ perms.roles \in Table /\ disk.roles \in Table
      /\ perms.members \in [Member -> SUBSET RoleIds] /\ MyTop(a) \in Nat
  BY Calm
<1>10. /\ kept \in Table /\ DOMAIN kept = DOMAIN perms.roles \ {id}
       /\ \A x \in DOMAIN kept : kept[x] = perms.roles[x]
  BY <1>1, <1>8, <1>9, Removed
<1>11. /\ Renumbers(kept, to)
       /\ \A x, z \in DOMAIN kept : kept[x].position < kept[z].position => to[x] < to[z]
  BY <1>2, <1>10, CompactedFacts
<1>12. /\ y \in Table /\ DOMAIN y = DOMAIN kept
       /\ \A x \in DOMAIN kept : /\ y[x].permissions = kept[x].permissions
                                 /\ y[x].position = to[x]
  BY <1>3, <1>10, <1>11, Placed
<1>13. /\ ms \in [Member -> SUBSET RoleIds]
       /\ \A m \in Member : ms[m] = perms.members[m] \ {id}
  BY <1>4, <1>9 DEF Stripped
<1>14. n \in Inputs /\ n.roles = y /\ n.members = ms
  BY <1>6, <1>12, <1>13, InputsIntro
<1>15. Renumbers(Without(disk.roles, id), to)
  <2>1. DOMAIN Without(disk.roles, id) = DOMAIN kept
    BY <1>9, <1>10 DEF Without
  <2> QED BY <1>11, <2>1, RenumbersSame
<1>16. SameContents(n, Written(disk, DeleteRole(id)))
  <2>1. PICK out : out = Written(disk, DeleteRole(id))
    OBVIOUS
  <2>2. out.roles = Without(disk.roles, id) /\ out.members = Stripped(disk.members, id)
    BY <1>8, <1>9, <2>1, WrittenDelete
  <2>3. out.members = ms
    BY <1>4, <1>9, <2>2
  <2>4. /\ DOMAIN out.roles = DOMAIN kept
        /\ \A x \in DOMAIN kept : out.roles[x] = disk.roles[x]
    BY <1>9, <1>10, <2>2 DEF Without
  <2>5. \A x \in DOMAIN perms.roles : perms.roles[x].permissions = disk.roles[x].permissions
    BY <1>9 DEF SameContents
  <2>6. SameContents(n, out)
    BY <1>10, <1>12, <1>14, <2>3, <2>4, <2>5 DEF SameContents
  <2> QED BY <2>1, <2>6
<1>17. Pending(w, n, r)
  <2>1. r # <<>>
    BY <1>7
  <2> QED BY <1>5, <1>8, <1>9, <1>15, <1>16, <2>1 DEF Pending
<1>18. ASSUME a # Owner PROVE Spares(a, perms, n)
  <2>1. PICK top \in Nat : top = MyTop(a)
    BY <1>9
  <2>2. perms.roles[id].position < top
    BY <1>8, <1>18, <2>1, ManagesBelow
  <2>3. \A x \in DOMAIN perms.roles : perms.roles[x].position \in Nat
    BY <1>9, TableFacts
  <2>4. ASSUME NEW x \in DOMAIN perms.roles, perms.roles[x].position >= top
        PROVE  x \in DOMAIN kept /\ x # id
    BY <1>8, <1>10, <2>2, <2>3, <2>4
  <2>5. \A x \in DOMAIN kept : /\ n.roles[x].permissions = perms.roles[x].permissions
                               /\ n.roles[x].position = to[x]
    BY <1>10, <1>12, <1>14
  <2>6. \A x, z \in DOMAIN kept : perms.roles[x].position < perms.roles[z].position
          => n.roles[x].position < n.roles[z].position
    BY <1>10, <1>11, <2>5
  <2>7. top = top_role_position(perms.roles, perms.members[a]) /\ DOMAIN n.roles = DOMAIN kept
    BY <1>12, <1>14, <2>1 DEF MyTop
  <2>8. \A x : x # id => \A m \in Member : x \in n.members[m] <=> x \in perms.members[m]
    BY <1>13, <1>14
  <2> QED BY <2>4, <2>5, <2>6, <2>7, <2>8, SparesIntro
<1> QED BY <1>8, <1>14, <1>17, <1>18, Started

\* The new inputs are swapped in.
LEMMA SwapStep ==
  ASSUME RolesInv, SparesInv, NEW a \in Member, swap_perm_state(a)
  PROVE  RolesInv' /\ SparesInv'
<1>1. busy[a] # Idle /\ busy[a].writes = <<>> /\ ~ busy[a].swapped /\ disk' = disk
  BY DEF swap_perm_state
<1>2. PICK w, n, s, r : /\ busy[a] = Job(w, n, s, r) /\ n \in Inputs /\ s \in BOOLEAN
                        /\ s => w = <<>> /\ SameContents(perms, disk)
                        /\ ~ s => Pending(w, n, r)
  BY <1>1, InFlight
<1>3. busy[a].writes = w /\ busy[a].next = n /\ busy[a].swapped = s
  BY <1>2, JobParts
<1>4. ~ s /\ w = <<>> /\ Pending(w, n, r)
  BY <1>1, <1>2, <1>3
<1>5. SameContents(n, disk)
  BY <1>4 DEF Pending
<1>6. perms' = n
  BY <1>3 DEF swap_perm_state
<1>7. PICK job : job = Job(w, n, Yes, r)
  OBVIOUS
<1>8. busy' = [busy EXCEPT ![a] = job]
  <2>1. [busy[a] EXCEPT !.swapped = Yes] = job
    BY <1>2, <1>7, JobParts
  <2>2. busy' = [busy EXCEPT ![a] = [busy[a] EXCEPT !.swapped = Yes]]
    BY DEF swap_perm_state, Yes
  <2> QED BY <2>1, <2>2
<1>9. /\ job.writes = <<>> /\ job.next = n /\ job.swapped \in BOOLEAN /\ job.swapped /\ job # Idle
      /\ \E w1, n1, s1, r1 : job = [writes |-> w1, next |-> n1, swapped |-> s1, refresh |-> r1]
  <2>1. job.writes = w /\ job.next = n /\ job.swapped = Yes
    BY <1>7 DEF Job
  <2>2. job # Idle
    BY <1>7 DEF Job, Idle
  <2>3. \E w1, n1, s1, r1 : job = [writes |-> w1, next |-> n1, swapped |-> s1, refresh |-> r1]
    BY <1>7 DEF Job
  <2> QED BY <1>4, <2>1, <2>2, <2>3 DEF Yes
<1>10. SameContents(perms', disk') /\ perms' \in Inputs /\ disk' \in Inputs /\ DOMAIN busy = Member
  BY <1>1, <1>2, <1>5, <1>6 DEF RolesInv
<1>11. JobOK(job)'
  BY <1>2, <1>9, <1>10 DEF JobOK
<1>12. \A b \in Member \ {a} : busy[b] = Idle
  BY <1>1, OthersIdle
<1>13. RolesInv'
  BY <1>8, <1>9, <1>10, <1>11, <1>12, OneJob
<1>14. \A b \in Member : busy'[b] # Idle => busy'[b].swapped
  BY <1>8, <1>9, <1>10, <1>12
<1> QED BY <1>13, <1>14 DEF SparesInv

\* The command is done.
LEMMA RefreshStep ==
  ASSUME RolesInv, SparesInv, NEW a \in Member, RefreshLive(a)
  PROVE  RolesInv' /\ SparesInv'
<1>1. /\ busy[a] # Idle /\ busy[a].swapped
      /\ perms' = perms /\ disk' = disk /\ busy' = [busy EXCEPT ![a] = Idle]
  BY DEF RefreshLive
<1>2. SameContents(perms, disk)
  BY <1>1 DEF RolesInv, JobOK
<1> QED BY <1>1, <1>2, GaveUp

LEMMA RestartStep ==
  ASSUME RolesInv, Restart
  PROVE  RolesInv' /\ SparesInv'
<1>1. perms' = disk /\ disk' = disk /\ busy' = [m \in Member |-> Idle]
  BY DEF Restart
<1>2. DOMAIN busy' = Member /\ \A m \in Member : busy'[m] = Idle
  BY <1>1
<1>3. perms' \in Inputs /\ disk' \in Inputs
  BY <1>1 DEF RolesInv
<1>4. SameContents(perms, disk)'
  BY <1>1 DEF SameContents
<1> QED BY <1>2, <1>3, <1>4 DEF RolesInv, OneAtATime, SparesInv

\* Sessions come and go, and the inputs stay.
LEMMA IdleStep ==
  ASSUME RolesInv, SparesInv, UNCHANGED <<perms, disk, busy>>
  PROVE  RolesInv' /\ SparesInv'
<1>1. perms' = perms /\ disk' = disk /\ busy' = busy
  OBVIOUS
<1>2. RolesInv'
  <2>1. ASSUME NEW w, NEW n, NEW r, Pending(w, n, r) PROVE Pending(w, n, r)'
    BY <1>1, <2>1 DEF Pending, Inserts
  <2>2. SameContents(perms, disk)' <=> SameContents(perms, disk)
    BY <1>1 DEF SameContents
  <2>3. \A a \in Member : busy[a] # Idle => JobOK(busy[a])'
    <3> SUFFICES ASSUME NEW a \in Member, busy[a] # Idle PROVE JobOK(busy[a])'
      OBVIOUS
    <3>1. PICK b : b = busy[a] /\ b = busy'[a] /\ JobOK(b)
      BY <1>1 DEF RolesInv
    <3>2. ~ b.swapped => Pending(b.writes, b.next, b.refresh)'
      BY <2>1, <3>1 DEF JobOK
    <3>3. ~ busy'[a].swapped => Pending(busy[a].writes, busy[a].next, busy[a].refresh)'
      BY <3>1, <3>2 DEF Pending, Inserts
    <3>4. JobOK(busy[a])
      BY <3>1
    <3> QED BY <1>1, <2>2, <3>3, <3>4 DEF JobOK
  <2> QED BY <1>1, <2>2, <2>3 DEF RolesInv, OneAtATime, Quiet
<1>3. SparesInv'
  BY <1>1 DEF SparesInv, Spares
<1> QED BY <1>2, <1>3

LEMMA RolesInitially ==
  ASSUME Init
  PROVE  RolesInv /\ SparesInv
<1>1. /\ perms = [roles |-> InitialRoles, members |-> InitialMembers] /\ disk = perms
      /\ busy = [m \in Member |-> Idle]
  BY DEF Init
<1>2. InitialRoles \in Table
  <2>1. PICK D : D = DOMAIN InitialRoles
    OBVIOUS
  <2>2. D \in SUBSET RoleIds /\ \A id \in D : InitialRoles[id] \in Positioned
    BY <2>1, RolesAssumption DEF RoleIds
  <2>3. InitialRoles \in [D -> Positioned]
    BY <2>1, <2>2, RolesAssumption
  <2> QED BY <2>1, <2>2, <2>3, RolesAssumption, TableIntro
<1>3. InitialMembers \in [Member -> SUBSET RoleIds]
  BY RolesAssumption DEF RoleIds
<1>4. perms \in Inputs /\ disk \in Inputs
  BY <1>1, <1>2, <1>3, InputsIntro
<1>5. SameContents(perms, disk)
  BY <1>1 DEF SameContents
<1>6. DOMAIN busy = Member /\ \A m \in Member : busy[m] = Idle
  BY <1>1
<1> QED BY <1>4, <1>5, <1>6 DEF RolesInv, OneAtATime, SparesInv

\* A command that starts and overlaps no other starts when none is in flight.
LEMMA StartsCalm ==
  ASSUME RolesInv, OneAtATime', NEW a \in Member, RoleCommand(a)
  PROVE  Quiet
<1>1. PICK w, n, r : Command(a, w, n, r)
  <2>1. ASSUME NEW w, NEW n, NEW r, Command(a, w, n, r)
        PROVE  \E w1, n1, r1 : Command(a, w1, n1, r1)
    BY <2>1
  <2> QED BY <2>1 DEF RoleCommand, create_role, update_role, delete_role, reorder_roles,
                      set_member_roles
<1>2. PICK job : job = Job(w, n, No, r)
  OBVIOUS
<1>3. busy[a] = Idle /\ busy' = [busy EXCEPT ![a] = job] /\ job # Idle
  BY <1>1, <1>2, JobParts DEF Command, Job, No
<1>4. \A b \in Member \ {a} : busy'[b] = busy[b]
  BY <1>3 DEF RolesInv
<1>5. busy'[a] # Idle
  BY <1>3 DEF RolesInv
<1> QED BY <1>3, <1>4, <1>5 DEF OneAtATime, Quiet

LEMMA RolesStep ==
  ASSUME RolesInv, SparesInv, [Next]_vars, OneAtATime'
  PROVE  RolesInv' /\ SparesInv'
<1>1. CASE UNCHANGED vars
  BY <1>1, IdleStep DEF vars
<1>2. CASE Restart
  BY <1>2, RestartStep
<1>3. ASSUME NEW m \in Member, ReadGrants(m) \/ Enter(m) \/ Leave(m)
      PROVE  RolesInv' /\ SparesInv'
  <2>1. UNCHANGED <<perms, disk, busy>>
    BY <1>3 DEF ReadGrants, Enter, Leave
  <2> QED BY <2>1, IdleStep
<1>4. ASSUME NEW a \in Member, Write(a) \/ swap_perm_state(a) \/ RefreshLive(a)
      PROVE  RolesInv' /\ SparesInv'
  BY <1>4, WriteStep, SwapStep, RefreshStep
<1>5. ASSUME NEW a \in Member, RoleCommand(a)
      PROVE  RolesInv' /\ SparesInv'
  BY <1>5, StartsCalm, CreateStep, UpdateStep, DeleteStep, ReorderStep, GrantStep DEF RoleCommand
<1> QED BY <1>1, <1>2, <1>3, <1>4, <1>5 DEF Next

LEMMA RolesHold == Spec /\ []OneAtATime => [](RolesInv /\ SparesInv)
<1>1. Init => RolesInv /\ SparesInv
  BY RolesInitially
<1>2. (RolesInv /\ SparesInv) /\ [Next]_vars /\ OneAtATime' => (RolesInv /\ SparesInv)'
  BY RolesStep
<1> QED BY <1>1, <1>2, PTL DEF Spec

-----------------------------------------------------------------------------
(* The theorems are about the behaviours in which no two commands are in flight
   at once; nothing in the code keeps two sessions apart, and RolesLost.cfg is a
   behaviour in which they overlap. *)

\* With commands that do not overlap no two roles ever share a position, in
\* memory or in the store, and @everyone is at the bottom: between any two steps
\* of a command, and so also when the process dies there or a write fails.
THEOREM PlacesAreUnique == Spec /\ []OneAtATime => []PositionsUnique
<1>1. RolesInv => PositionsUnique
  <2> SUFFICES ASSUME RolesInv, NEW rs \in {perms.roles, disk.roles}
               PROVE  /\ \A id, r \in DOMAIN rs : rs[id].position = rs[r].position => id = r
                      /\ rs[EVERYONE_ROLE_ID].position = 0
    BY DEF PositionsUnique
  <2>1. rs \in Table
    BY InputsFacts DEF RolesInv
  <2> QED BY <2>1, TableFacts
<1> QED BY <1>1, RolesHold, PTL

\* With commands that do not overlap, the swap of a member that is not the owner
\* leaves the roles at its rank and above their masks, their holders and their
\* places over what is below them.
THEOREM NobodyReachesUp == Spec /\ []OneAtATime => SeniorsUntouched
<1>1. ASSUME RolesInv, SparesInv, [Next]_vars, NEW a \in Member \ {Owner}, Swaps(a)
      PROVE  SparesSeniors(a)
  <2>1. busy[a] # Idle /\ ~ busy[a].swapped /\ busy'[a] # Idle /\ busy'[a].swapped
    BY <1>1 DEF Swaps
  <2>2. DOMAIN busy = Member /\ a \in Member
    BY <1>1 DEF RolesInv
  <2>3. ~ (busy' = busy)
    BY <2>1
  <2>4. ~ Restart
    BY <2>1, <2>2 DEF Restart
  <2>5. \A m \in Member : ~ (ReadGrants(m) \/ Enter(m) \/ Leave(m))
    BY <2>3 DEF ReadGrants, Enter, Leave
  <2>6. \A b \in Member : b # a => ~ (Write(b) \/ swap_perm_state(b) \/ RefreshLive(b))
    <3>1. \A b \in Member : b # a => busy[b] = Idle
      BY <1>1, <2>1, <2>2 DEF RolesInv, OneAtATime
    <3> QED BY <3>1 DEF Write, swap_perm_state, RefreshLive
  <2>7. ~ RefreshLive(a)
    BY <2>1 DEF RefreshLive
  <2>8. ~ Write(a)
    <3>1. \A v : [busy EXCEPT ![a].writes = v][a] = [busy[a] EXCEPT !.writes = v]
      BY <2>2
    <3>2. \A v : [busy[a] EXCEPT !.writes = v].swapped = busy[a].swapped
      <4>1. PICK w, n, s, r : busy[a] = Job(w, n, s, r)
        BY <1>1, <2>1, <2>2, InFlight
      <4> QED BY <4>1 DEF Job
    <3>3. busy' # [busy EXCEPT ![a] = Idle]
      BY <2>1, <2>2
    <3>4. busy' # [busy EXCEPT ![a].writes = Tail(@)]
      <4>1. PICK v : v = Tail(busy[a].writes)
        OBVIOUS
      <4>2. busy' # [busy EXCEPT ![a].writes = v]
        <5>1. ASSUME busy' = [busy EXCEPT ![a].writes = v] PROVE FALSE
          <6>1. busy'[a] = [busy[a] EXCEPT !.writes = v]
            BY <3>1, <5>1
          <6>2. busy'[a].swapped = busy[a].swapped
            BY <3>2, <6>1
          <6> QED BY <2>1, <6>2
        <5> QED BY <5>1
      <4> QED BY <4>1, <4>2
    <3> QED BY <3>3, <3>4 DEF Write
  <2>9. \A b \in Member : ~ RoleCommand(b)
    <3>1. ASSUME NEW b \in Member, NEW w, NEW n, NEW r, Command(b, w, n, r) PROVE FALSE
      BY <1>1, <2>1, <2>2, <3>1 DEF Command, RolesInv
    <3> QED BY <3>1 DEF RoleCommand, create_role, update_role, delete_role, reorder_roles,
                        set_member_roles
  <2>10. swap_perm_state(a)
    BY <1>1, <2>3, <2>4, <2>5, <2>6, <2>7, <2>8, <2>9 DEF Next, vars
  <2>11. perms' = busy[a].next
    BY <2>10 DEF swap_perm_state
  <2>12. Spares(a, perms, busy[a].next)
    BY <1>1, <2>1 DEF SparesInv
  <2>13. Spares(a, perms, perms')
    BY <2>11, <2>12
  <2> QED BY <2>13 DEF SparesSeniors, Seniors, MyTop, Spares
<1>2. RolesInv /\ SparesInv /\ [Next]_vars
        => [\A a \in Member \ {Owner} : Swaps(a) => SparesSeniors(a)]_vars
  BY <1>1
<1> QED BY <1>2, RolesHold, PTL DEF Spec, SeniorsUntouched
=============================================================================
