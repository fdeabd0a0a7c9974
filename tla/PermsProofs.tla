---------------------------- MODULE PermsProofs ----------------------------
(***************************************************************************)
(* The facts about the rules that every handler leans on, for all roles,   *)
(* grants and overwrites: a channel's bits follow the rule of precedence,  *)
(* overwrites never mint a server-wide bit, and rank is a strict order.    *)
(***************************************************************************)
EXTENDS PermsCheck, FiniteSetTheorems, WellFoundedInduction, TLAPS

\* The part of the input's typing that resolution depends on: no role carries
\* a bit this build does not know.
RolesKnown == \A id \in DOMAIN roles : roles[id].permissions \in SUBSET ALL

\* A member's base holds known bits only.
LEMMA BaseKnown ==
  ASSUME RolesKnown, NEW granted
  PROVE  Base(roles, granted) \in SUBSET ALL
BY DEF RolesKnown, Base, role_permissions

\* One layer: a bit survives a layer iff the layer allows it, or it was there
\* and the layer does not deny it; bits out of the channel's scope pass through.
LEMMA AppliedBit ==
  ASSUME NEW perms, NEW deny, NEW allow, NEW bit
  PROVE  bit \in Applied(perms, deny, allow) <=>
           IF bit \in CHANNEL_SCOPED
           THEN bit \in allow \/ (bit \in perms /\ bit \notin deny)
           ELSE bit \in perms
BY DEF Applied

\* The three layers of `resolve` decide each bit by precedence.
LEMMA LayeredBit ==
  ASSUME NEW base, NEW granted, NEW m, NEW ows, NEW bit
  PROVE  bit \in Layered(base, granted, m, ows) <=>
           BitByPrecedence(base, granted, m, ows, bit)
<1> DEFINE everyone == overwrite_for(ows, RoleTarget(EVERYONE_ROLE_ID))
           denies == UNION {overwrite_for(ows, RoleTarget(id)).deny : id \in granted}
           allows == UNION {overwrite_for(ows, RoleTarget(id)).allow : id \in granted}
           own == overwrite_for(ows, MemberTarget(m))
           first == Applied(base, everyone.deny, everyone.allow)
           second == Applied(first, denies, allows)
<1>1. Layered(base, granted, m, ows) = Applied(second, own.deny, own.allow)
  BY DEF Layered
<1>2. bit \in allows <=> \E id \in granted : bit \in overwrite_for(ows, RoleTarget(id)).allow
  OBVIOUS
<1>3. bit \in denies <=> \E id \in granted : bit \in overwrite_for(ows, RoleTarget(id)).deny
  OBVIOUS
<1>4. bit \in first <=> IF bit \in CHANNEL_SCOPED
                        THEN bit \in everyone.allow \/ (bit \in base /\ bit \notin everyone.deny)
                        ELSE bit \in base
  BY AppliedBit
<1> HIDE DEF first, denies, allows
<1>5. bit \in second <=> IF bit \in CHANNEL_SCOPED
                         THEN bit \in allows \/ (bit \in first /\ bit \notin denies)
                         ELSE bit \in first
  BY AppliedBit
<1> HIDE DEF second, own, everyone
<1>6. bit \in Applied(second, own.deny, own.allow) <=>
        IF bit \in CHANNEL_SCOPED
        THEN bit \in own.allow \/ (bit \in second /\ bit \notin own.deny)
        ELSE bit \in second
  BY AppliedBit
<1>7. BitByPrecedence(base, granted, m, ows, bit) <=>
        IF bit \notin CHANNEL_SCOPED THEN bit \in base
        ELSE \/ bit \in own.allow
             \/ /\ bit \notin own.deny
                /\ \/ bit \in allows
                   \/ /\ bit \notin denies
                      /\ \/ bit \in everyone.allow
                         \/ bit \in base /\ bit \notin everyone.deny
  BY <1>2, <1>3 DEF BitByPrecedence, own, everyone
<1> QED
  BY <1>1, <1>4, <1>5, <1>6, <1>7

\* Overwrites can only add channel-scoped bits.
LEMMA LayeredScope ==
  ASSUME NEW base, NEW granted, NEW m, NEW ows
  PROVE  Layered(base, granted, m, ows) \subseteq base \cup CHANNEL_SCOPED
BY DEF Layered, Applied

LEMMA RolesKnownInvariant == Spec => []RolesKnown
<1>1. Init => RolesKnown
  BY DEF Init, RolesKnown
<1>2. RolesKnown /\ [Next]_vars => RolesKnown'
  <2> SUFFICES ASSUME RolesKnown, [Next]_vars
               PROVE  RolesKnown'
    OBVIOUS
  <2>1. ASSUME NEW id \in RoleIds \cup {EVERYONE_ROLE_ID}, NEW mask \in RoleMasks,
               EditRole(id, mask)
        PROVE  RolesKnown'
    BY <2>1, PermsAssumption DEF EditRole, RolesKnown
  <2>2. ASSUME NEW id \in RoleIds, DropRole(id)
        PROVE  RolesKnown'
    BY <2>2 DEF DropRole, RolesKnown
  <2>3. CASE UNCHANGED roles
    BY <2>3 DEF RolesKnown
  <2> QED
    BY <2>1, <2>2, <2>3 DEF Next, EditGrants, EditOwner, EditOverwrite, vars
<1> QED
  BY <1>1, <1>2, PTL DEF Spec

\* For every set of roles, grants and overwrites, the masks resolve computes
\* are the ones the rule of precedence names (perms.rs, resolve).
THEOREM ResolutionFollowsPrecedence == Spec => []ResolveByPrecedence
<1>1. RolesKnown => ResolveByPrecedence
  <2> SUFFICES ASSUME RolesKnown, NEW m \in Members, ~IsOwner(m),
                      "ADMINISTRATOR" \notin Base(roles, grants[m])
               PROVE  Resolved(m) =
                        IF BitByPrecedence(Base(roles, grants[m]), grants[m], m,
                                           overwrites, "VIEW_CHANNEL")
                        THEN {b \in ALL : BitByPrecedence(Base(roles, grants[m]),
                                                          grants[m], m, overwrites, b)}
                        ELSE {}
    BY DEF ResolveByPrecedence
  <2> DEFINE base == Base(roles, grants[m])
             perms == Layered(base, grants[m], m, overwrites)
  <2>1. Resolved(m) = IF "VIEW_CHANNEL" \in perms THEN perms ELSE {}
    BY DEF Resolved, ResolveChannel
  <2>2. perms \subseteq ALL
    BY LayeredScope, BaseKnown DEF ALL
  <2>3. \A b : b \in perms <=> BitByPrecedence(base, grants[m], m, overwrites, b)
    BY LayeredBit
  <2> HIDE DEF perms, base
  <2>4. perms = {b \in ALL : BitByPrecedence(base, grants[m], m, overwrites, b)}
    BY <2>2, <2>3
  <2> QED
    BY <2>1, <2>3, <2>4 DEF base
<1> QED
  BY <1>1, RolesKnownInvariant, PTL

\* For every set of roles, grants and overwrites, no server-wide bit comes out
\* of a channel that the member's roles did not already carry.
THEOREM OverwritesMintNothing == Spec => []OverwritesNeverEscalate
<1>1. OverwritesNeverEscalate
  <2> SUFFICES ASSUME NEW m \in Members
               PROVE  Resolved(m) \cap SERVER_WIDE
                        \subseteq ResolveServer(roles, grants[m], IsOwner(m))
    BY DEF OverwritesNeverEscalate
  <2> DEFINE base == Base(roles, grants[m])
  <2>1. Layered(base, grants[m], m, overwrites) \subseteq base \cup CHANNEL_SCOPED
    BY LayeredScope
  <2>2. CHANNEL_SCOPED \cap SERVER_WIDE = {}
    BY DEF CHANNEL_SCOPED, SERVER_WIDE
  <2> QED
    BY <2>1, <2>2 DEF Resolved, ResolveChannel, ResolveServer
<1> QED
  BY <1>1, PTL

\* Every set of numbers that is not empty has a least one.
LEMMA LeastNat ==
  ASSUME NEW T \in SUBSET Nat, T # {}
  PROVE  \E n \in T : \A m \in T : n <= m
<1>1. PICK n \in T : \A m \in T : ~ (<<m, n>> \in OpToRel(<, Nat))
  BY WFMin, NatLessThanWellFounded, Zenon
<1>2. \A m \in T : ~ (m < n)
  BY <1>1, Zenon DEF OpToRel
<1> QED BY <1>2

\* Among finitely many roles one is the most senior: by the smallest set that
\* has none.
LEMMA MostSenior ==
  ASSUME NEW rs, NEW G \in SUBSET DOMAIN rs, IsFiniteSet(G), G # {},
         \A id \in G : rs[id].position \in Nat
  PROVE  \E p \in G : \A q \in G : rs[q].position <= rs[p].position
<1> DEFINE Top(S) == \E p \in S : \A q \in S : rs[q].position <= rs[p].position
           bad == {n \in Nat : \E S \in SUBSET G :
                     IsFiniteSet(S) /\ S # {} /\ Cardinality(S) = n /\ ~ Top(S)}
<1>1. bad = {}
  <2>1. SUFFICES ASSUME bad # {} PROVE FALSE
    OBVIOUS
  <2>2. PICK n \in bad : \A m \in bad : n <= m
    BY <2>1, LeastNat
  <2>3. PICK S \in SUBSET G : IsFiniteSet(S) /\ S # {} /\ Cardinality(S) = n /\ ~ Top(S)
    BY <2>2
  <2>4. PICK x \in S : TRUE
    BY <2>3
  <2>5. IsFiniteSet(S \ {x}) /\ Cardinality(S \ {x}) = n - 1 /\ n - 1 \in Nat
    <3>1. IsFiniteSet(S \ {x}) /\ Cardinality(S \ {x}) = Cardinality(S) - 1
      BY <2>3, <2>4, FS_RemoveElement
    <3>2. Cardinality(S \ {x}) \in Nat
      BY <3>1, FS_CardinalityType
    <3> QED BY <2>3, <3>1, <3>2
  <2>6. \A q \in S : rs[q].position \in Nat
    BY <2>3
  <2>7. CASE S \ {x} = {}
    <3>1. \A q \in S : q = x
      BY <2>7
    <3> QED BY <2>3, <2>4, <2>6, <3>1
  <2>8. CASE S \ {x} # {}
    <3>1. ~ (n - 1 \in bad)
      BY <2>2, <2>5
    <3>2. Top(S \ {x})
      BY <2>3, <2>5, <2>8, <3>1
    <3>3. PICK p \in S \ {x} : \A q \in S \ {x} : rs[q].position <= rs[p].position
      BY <3>2
    <3>4. CASE rs[x].position <= rs[p].position
      BY <2>3, <2>6, <3>3, <3>4
    <3>5. CASE ~ (rs[x].position <= rs[p].position)
      <4>1. \A q \in S : rs[q].position <= rs[x].position
        BY <2>4, <2>6, <3>3, <3>5
      <4> QED BY <2>3, <2>4, <4>1
    <3> QED BY <3>4, <3>5
  <2> QED BY <2>7, <2>8
<1>2. Cardinality(G) \in Nat
  BY FS_CardinalityType
<1> QED BY <1>1, <1>2

\* A rank is a number.
LEMMA RankIsNumber ==
  ASSUME NEW rs, NEW granted, IsFiniteSet(granted),
         \A id \in DOMAIN rs : rs[id].position \in Nat
  PROVE  top_role_position(rs, granted) \in Nat
<1> DEFINE G == granted \cap DOMAIN rs
           held == {rs[id].position : id \in G}
<1>1. top_role_position(rs, granted)
        = IF held = {} THEN 0 ELSE CHOOSE p \in held : \A q \in held : q <= p
  BY DEF top_role_position
<1>2. held \subseteq Nat
  OBVIOUS
<1>3. held # {} => \E p \in held : \A q \in held : q <= p
  <2> SUFFICES ASSUME held # {} PROVE \E p \in held : \A q \in held : q <= p
    OBVIOUS
  <2>1. G # {} /\ IsFiniteSet(G)
    BY FS_Subset
  <2>2. PICK p \in G : \A q \in G : rs[q].position <= rs[p].position
    BY <2>1, MostSenior
  <2> QED BY <2>2
<1> HIDE DEF held
<1>4. CASE held = {}
  BY <1>1, <1>4
<1>5. CASE held # {}
  <2>1. PICK p : p = CHOOSE x \in held : \A q \in held : q <= x
    OBVIOUS
  <2>2. p \in held
    BY <1>3, <1>5, <2>1, Zenon
  <2> QED BY <1>1, <1>2, <1>5, <2>1, <2>2
<1> QED BY <1>4, <1>5

\* What the order of rank depends on.
RanksTyped ==
  /\ \A id \in DOMAIN roles : roles[id].position \in Nat
  /\ grants \in [Members -> SUBSET RoleIds]

LEMMA RanksTypedInvariant == Spec => []RanksTyped
<1>1. Init => RanksTyped
  BY PermsAssumption DEF Init, RanksTyped, EVERYONE_ROLE_ID
<1>2. RanksTyped /\ [Next]_vars => RanksTyped'
  <2> SUFFICES ASSUME RanksTyped, [Next]_vars
               PROVE  RanksTyped'
    OBVIOUS
  <2>1. ASSUME NEW id \in RoleIds \cup {EVERYONE_ROLE_ID}, NEW mask \in RoleMasks,
               EditRole(id, mask)
        PROVE  RanksTyped'
    <3>1. DOMAIN roles' = DOMAIN roles
          /\ \A r \in DOMAIN roles : roles'[r].position = roles[r].position
      BY <2>1 DEF EditRole
    <3> QED BY <2>1, <3>1 DEF EditRole, RanksTyped
  <2>2. ASSUME NEW id \in RoleIds, DropRole(id)
        PROVE  RanksTyped'
    BY <2>2 DEF DropRole, RanksTyped
  <2>3. ASSUME NEW m \in Members, NEW granted \in SUBSET RoleIds, EditGrants(m, granted)
        PROVE  RanksTyped'
    BY <2>3 DEF EditGrants, RanksTyped
  <2>4. CASE UNCHANGED <<roles, grants>>
    BY <2>4 DEF RanksTyped
  <2> QED
    BY <2>1, <2>2, <2>3, <2>4 DEF Next, EditOwner, EditOverwrite, vars
<1> QED
  BY <1>1, <1>2, PTL DEF Spec

\* For every set of roles and grants, with deleted roles and with an owner, of
\* two members at most one may act on the other (perms.rs, can_act_on).
THEOREM RankIsStrict == Spec => []NobodyActsOnEachOther
<1>1. RanksTyped => NobodyActsOnEachOther
  <2> SUFFICES ASSUME RanksTyped, NEW m \in Members, NEW n \in Members,
                      can_act_on(roles, grants[m], IsOwner(m), grants[n], IsOwner(n)),
                      can_act_on(roles, grants[n], IsOwner(n), grants[m], IsOwner(m))
               PROVE  FALSE
    BY DEF NobodyActsOnEachOther
  <2>1. IsFiniteSet(grants[m]) /\ IsFiniteSet(grants[n])
    BY PermsAssumption, FS_Subset DEF RanksTyped
  <2>2. /\ top_role_position(roles, grants[m]) \in Nat
        /\ top_role_position(roles, grants[n]) \in Nat
    BY <2>1, RankIsNumber DEF RanksTyped
  <2> QED
    BY <2>2 DEF can_act_on
<1> QED
  BY <1>1, RanksTypedInvariant, PTL

=============================================================================
