--------------------------- MODULE GroupOpsProofs ---------------------------
(***************************************************************************)
(* What the operations of GroupContainer.cpp do to a vector of members,    *)
(* for every set of names and group ids and every limit: which entries     *)
(* stay, that a well-formed vector stays well formed, how many members a   *)
(* group has then, and what users see of it.                               *)
(***************************************************************************)
EXTENDS GroupOps, FiniteSetTheorems, TLAPS

\* The positions kept by remove_if, in order: Nth enumerates a set of positions
\* from its least to its greatest element and misses none.
LEMMA NthProperties ==
    ASSUME NEW size \in Nat, NEW K \in SUBSET (1 .. size)
    PROVE  /\ Cardinality(K) \in Nat
           /\ \A k \in 1 .. Cardinality(K) : Nth(K, k) \in K
           /\ \A k, m \in 1 .. Cardinality(K) : k < m => Nth(K, k) < Nth(K, m)
           /\ \A i \in K : \E k \in 1 .. Cardinality(K) : Nth(K, k) = i
<1> DEFINE Below(i) == {j \in K : j <= i}
           rank == [i \in K |-> Cardinality(Below(i))]
<1>0. \A i \in K : i \in Nat
  OBVIOUS
<1>1. IsFiniteSet(K) /\ Cardinality(K) \in Nat
  <2>1. IsFiniteSet(1 .. size)
    BY FS_Interval
  <2>2. IsFiniteSet(K)
    BY <2>1, FS_Subset
  <2> QED BY <2>2, FS_CardinalityType
<1>2. \A i \in K : /\ IsFiniteSet(Below(i))
                   /\ Cardinality(Below(i)) \in 1 .. Cardinality(K)
  <2> SUFFICES ASSUME NEW i \in K
               PROVE  /\ IsFiniteSet(Below(i))
                      /\ Cardinality(Below(i)) \in 1 .. Cardinality(K)
    OBVIOUS
  <2>1. IsFiniteSet(Below(i)) /\ Cardinality(Below(i)) <= Cardinality(K)
    BY <1>1, FS_Subset
  <2>2. Below(i) # {}
    OBVIOUS
  <2> HIDE DEF Below
  <2>3. Cardinality(Below(i)) \in Nat /\ Cardinality(Below(i)) # 0
    BY <2>1, <2>2, FS_CardinalityType, FS_EmptySet
  <2> QED BY <1>1, <2>1, <2>3
<1>3. \A i, j \in K : i < j => Cardinality(Below(i)) < Cardinality(Below(j))
  <2> SUFFICES ASSUME NEW i \in K, NEW j \in K, i < j
               PROVE  Cardinality(Below(i)) < Cardinality(Below(j))
    OBVIOUS
  <2>1. Below(i) \subseteq Below(j) /\ Below(i) # Below(j)
    <3>1. j \in Below(j) /\ j \notin Below(i)
      OBVIOUS
    <3>2. \A k \in K : k <= i => k <= j
      BY <1>0
    <3> QED BY <3>1, <3>2
  <2>2. /\ Cardinality(Below(i)) <= Cardinality(Below(j))
        /\ Cardinality(Below(i)) # Cardinality(Below(j))
    <3> HIDE DEF Below
    <3> QED BY <1>2, <2>1, FS_Subset
  <2> QED
    <3> HIDE DEF Below
    <3> QED BY <1>1, <1>2, <2>2
<1>4. rank \in Injection(K, 1 .. Cardinality(K))
  <2> HIDE DEF Below
  <2>1. rank \in [K -> 1 .. Cardinality(K)]
    BY <1>2
  <2>2. \A i, j \in K : rank[i] = rank[j] => i = j
    BY <1>1, <1>2, <1>3
  <2> QED BY <2>1, <2>2 DEF Injection, IsInjective
<1>5. rank \in Surjection(K, 1 .. Cardinality(K))
  <2> HIDE DEF rank
  <2>1. IsFiniteSet(1 .. Cardinality(K)) /\ Cardinality(1 .. Cardinality(K)) = Cardinality(K)
    BY <1>1, FS_Interval
  <2> QED BY <1>4, <2>1, FS_Injection
<1>6. \A k \in 1 .. Cardinality(K) : Nth(K, k) \in K /\ Cardinality(Below(Nth(K, k))) = k
  <2> SUFFICES ASSUME NEW k \in 1 .. Cardinality(K)
               PROVE  Nth(K, k) \in K /\ Cardinality(Below(Nth(K, k))) = k
    OBVIOUS
  <2>1. \E i \in K : Cardinality(Below(i)) = k
    BY <1>5 DEF Surjection
  <2> QED BY <2>1 DEF Nth
<1> DEFINE size_K == Cardinality(K)
           Position(k) == Nth(K, k)
<1>7. /\ rank \in [K -> 1 .. size_K]
      /\ \A i, j \in K : i < j => rank[i] < rank[j]
      /\ \A k \in 1 .. size_K : Position(k) \in K /\ rank[Position(k)] = k
  <2> HIDE DEF Below
  <2> QED BY <1>2, <1>3, <1>6
<1> HIDE DEF Below, rank, size_K, Position
<1>8. size_K \in Nat
  BY <1>1 DEF size_K
<1>9. \A k, m \in 1 .. size_K : k < m => Position(k) < Position(m)
  <2> SUFFICES ASSUME NEW k \in 1 .. size_K, NEW m \in 1 .. size_K, k < m
               PROVE  Position(k) < Position(m)
    OBVIOUS
  <2>1. /\ Position(k) \in K /\ Position(k) \in Nat /\ rank[Position(k)] = k
        /\ Position(m) \in K /\ Position(m) \in Nat /\ rank[Position(m)] = m
    BY <1>0, <1>7
  <2>2. Position(k) # Position(m)
    BY <2>1, <1>8
  <2>3. ~(Position(m) < Position(k))
    <3>1. Position(m) < Position(k) => m < k
      BY <2>1, <1>7
    <3> QED BY <3>1, <1>8
  <2> QED BY <2>1, <2>2, <2>3
<1>10. \A i \in K : rank[i] \in 1 .. size_K /\ Position(rank[i]) = i
  <2> SUFFICES ASSUME NEW i \in K
               PROVE  rank[i] \in 1 .. size_K /\ Position(rank[i]) = i
    OBVIOUS
  <2>1. rank[i] \in 1 .. size_K
    BY <1>7
  <2>2. PICK m \in K : m = Position(rank[i]) /\ rank[m] = rank[i]
    BY <2>1, <1>7
  <2>3. i \in Nat /\ m \in Nat /\ rank[i] \in Nat
    BY <1>0, <1>8, <2>1
  <2>4. (m < i => rank[m] < rank[i]) /\ (i < m => rank[i] < rank[m])
    BY <1>7
  <2>5. m = i
    BY <2>2, <2>3, <2>4
  <2> QED BY <2>1, <2>2, <2>5
<1> QED BY <1>7, <1>8, <1>9, <1>10 DEF size_K, Position

\* A set of positions has a least one.
LEMMA FirstProperties ==
    ASSUME NEW size \in Nat, NEW K \in SUBSET (1 .. size), K # {}
    PROVE  First(K) \in K /\ \A i \in K : First(K) <= i
<1>1. /\ Cardinality(K) \in Nat
      /\ \A k \in 1 .. Cardinality(K) : Nth(K, k) \in K
      /\ \A k, m \in 1 .. Cardinality(K) : k < m => Nth(K, k) < Nth(K, m)
      /\ \A i \in K : \E k \in 1 .. Cardinality(K) : Nth(K, k) = i
  BY NthProperties
<1>2. 1 \in 1 .. Cardinality(K) /\ \A i \in K : i \in Nat
  <2>1. PICK i \in K : TRUE
    OBVIOUS
  <2>2. PICK k \in 1 .. Cardinality(K) : Nth(K, k) = i
    BY <1>1, <2>1
  <2> QED BY <1>1, <2>2
<1>3. ASSUME NEW i \in K
      PROVE  Nth(K, 1) <= i
  <2>1. PICK k \in 1 .. Cardinality(K) : Nth(K, k) = i
    BY <1>1
  <2>2. k = 1 \/ 1 < k
    BY <1>1
  <2>3. Nth(K, 1) \in Nat /\ i \in Nat /\ (Nth(K, 1) = i \/ Nth(K, 1) < i)
    BY <1>1, <1>2, <2>1, <2>2
  <2> QED BY <2>3
<1>4. Nth(K, 1) \in K
  BY <1>1, <1>2
<1> QED BY <1>3, <1>4 DEF First

\* Removing a character: the vector that is left holds exactly the entries of
\* the other characters, in the order they had.
LEMMA EraseProperties ==
    ASSUME NEW groups \in Seq(GroupMember), NEW n
    PROVE  /\ Erase(groups, n) \in Seq(GroupMember)
           /\ \E from \in [DOMAIN Erase(groups, n) -> DOMAIN groups] :
                 /\ \A k \in DOMAIN Erase(groups, n) :
                       /\ Erase(groups, n)[k] = groups[from[k]]
                       /\ groups[from[k]].name # n
                 /\ \A k, m \in DOMAIN Erase(groups, n) : k < m => from[k] < from[m]
                 /\ \A i \in DOMAIN groups :
                       groups[i].name # n => \E k \in DOMAIN Erase(groups, n) : from[k] = i
<1> DEFINE K == {i \in DOMAIN groups : groups[i].name # n}
           from == [k \in 1 .. Cardinality(K) |-> Nth(K, k)]
<1>1. Len(groups) \in Nat /\ K \in SUBSET (1 .. Len(groups)) /\ DOMAIN groups = 1 .. Len(groups)
  OBVIOUS
<1>2. /\ Cardinality(K) \in Nat
      /\ \A k \in 1 .. Cardinality(K) : Nth(K, k) \in K
      /\ \A k, m \in 1 .. Cardinality(K) : k < m => Nth(K, k) < Nth(K, m)
      /\ \A i \in K : \E k \in 1 .. Cardinality(K) : Nth(K, k) = i
  <2> HIDE DEF K
  <2> QED BY <1>1, NthProperties
<1>3. /\ Erase(groups, n) = [k \in 1 .. Cardinality(K) |-> groups[Nth(K, k)]]
      /\ DOMAIN Erase(groups, n) = 1 .. Cardinality(K)
  BY DEF Erase, Keep
<1>4. Erase(groups, n) \in Seq(GroupMember)
  <2>1. \A k \in 1 .. Cardinality(K) : groups[Nth(K, k)] \in GroupMember
    BY <1>1, <1>2
  <2> HIDE DEF K
  <2> QED BY <1>2, <1>3, <2>1
<1>5. from \in [DOMAIN Erase(groups, n) -> DOMAIN groups]
  BY <1>1, <1>2, <1>3
<1>6. \A k \in DOMAIN Erase(groups, n) :
         Erase(groups, n)[k] = groups[from[k]] /\ groups[from[k]].name # n
  BY <1>2, <1>3
<1>7. \A k, m \in DOMAIN Erase(groups, n) : k < m => from[k] < from[m]
  BY <1>2, <1>3
<1>8. \A i \in DOMAIN groups :
         groups[i].name # n => \E k \in DOMAIN Erase(groups, n) : from[k] = i
  BY <1>2, <1>3
<1> QED BY <1>4, <1>5, <1>6, <1>7, <1>8

-----------------------------------------------------------------------------

WellFormed(groups) ==
    /\ groups \in Seq(GroupMember)
    /\ UniqueNames(groups)
    /\ \A i \in DOMAIN groups : LedByFirst(groups, i)

\* Looking a character up: in a well-formed vector the answer of GetGroupInfo
\* does not depend on which entry the loop meets first.
LEMMA LookupProperties ==
    ASSUME NEW groups, WellFormed(groups), NEW n \in Names
    PROVE  /\ GroupOf(groups, n) = NoGroup => EntriesOf(groups, n) = {}
           /\ \A i \in EntriesOf(groups, n) :
                 /\ EntriesOf(groups, n) = {i}
                 /\ First(EntriesOf(groups, n)) = i
                 /\ GroupOf(groups, n) = groups[i].groupId
           /\ IsLeader(groups, n) <=> \E i \in EntriesOf(groups, n) : groups[i].isLeader
<1>1. \A i \in DOMAIN groups : groups[i] \in GroupMember /\ i \in Nat
  BY DEF WellFormed
<1>2. ASSUME NEW i \in EntriesOf(groups, n)
      PROVE  /\ EntriesOf(groups, n) = {i}
             /\ First(EntriesOf(groups, n)) = i
             /\ GroupOf(groups, n) = groups[i].groupId
  <2>1. EntriesOf(groups, n) = {i}
    BY DEF EntriesOf, WellFormed, UniqueNames
  <2>2. First({i}) = i
    BY <1>1 DEF First, EntriesOf
  <2> QED BY <2>1, <2>2 DEF GroupOf
<1>3. GroupOf(groups, n) = NoGroup => EntriesOf(groups, n) = {}
  <2> SUFFICES ASSUME NEW i \in EntriesOf(groups, n)
               PROVE  GroupOf(groups, n) # NoGroup
    OBVIOUS
  <2>1. groups[i].groupId \in GroupIds
    BY <1>1 DEF EntriesOf, GroupMember
  <2> QED BY <1>2, <2>1, GroupIdsAssumption
<1>4. ASSUME NEW g \in GroupIds, NEW i \in MembersOf(groups, g), groups[i].isLeader
      PROVE  LeaderOf(groups, g) = groups[i].name
  <2> DEFINE leaders == {k \in MembersOf(groups, g) : groups[k].isLeader}
  <2>1. \A k \in leaders : ~(k < i) /\ ~(i < k)
    BY <1>1, <1>4 DEF WellFormed, LedByFirst, MembersOf
  <2>2. leaders = {i}
    BY <1>1, <1>4, <2>1 DEF MembersOf
  <2>3. Last({i}) = i
    BY <1>1 DEF Last, MembersOf
  <2> QED BY <2>2, <2>3 DEF LeaderOf
<1>5. ASSUME IsLeader(groups, n)
      PROVE  \E i \in EntriesOf(groups, n) : groups[i].isLeader
  <2> DEFINE g == GroupOf(groups, n)
             leaders == {k \in MembersOf(groups, g) : groups[k].isLeader}
  <2>1. leaders # {}
    BY <1>5, NamesAssumption DEF IsLeader, LeaderOf
  <2>2. PICK i \in leaders : TRUE
    BY <2>1
  <2>3. g \in GroupIds /\ i \in DOMAIN groups
    BY <1>1, <2>2 DEF MembersOf, GroupMember
  <2>4. groups[i].name = n
    BY <1>4, <1>5, <2>2, <2>3 DEF IsLeader
  <2> QED BY <2>2, <2>3, <2>4 DEF EntriesOf
<1>6. ASSUME NEW i \in EntriesOf(groups, n), groups[i].isLeader
      PROVE  IsLeader(groups, n)
  <2>1. groups[i].groupId \in GroupIds /\ groups[i].name = n /\ i \in MembersOf(groups, groups[i].groupId)
    BY <1>1 DEF EntriesOf, MembersOf, GroupMember
  <2> QED BY <1>2, <1>4, <1>6, <2>1, GroupIdsAssumption DEF IsLeader
<1> QED BY <1>2, <1>3, <1>5, <1>6

\* Founding and joining: a new entry keeps the vector well formed when its name
\* is new and it leads exactly when its group is new.
LEMMA AppendWellFormed ==
    ASSUME NEW groups, WellFormed(groups), NEW member \in GroupMember,
           \A i \in DOMAIN groups : groups[i].name # member.name,
           member.isLeader <=> \A i \in DOMAIN groups : groups[i].groupId # member.groupId
    PROVE  WellFormed(Append(groups, member))
<1> DEFINE new == Append(groups, member)
<1>1. /\ groups \in Seq(GroupMember) /\ Len(groups) \in Nat
      /\ DOMAIN groups = 1 .. Len(groups)
  BY DEF WellFormed
<1>2. /\ new \in Seq(GroupMember) /\ DOMAIN new = 1 .. Len(groups) + 1
      /\ new[Len(groups) + 1] = member
      /\ \A i \in DOMAIN groups : new[i] = groups[i]
  BY <1>1
<1> HIDE DEF new
<1>3. \A i \in DOMAIN new : i = Len(groups) + 1 \/ i \in DOMAIN groups
  BY <1>1, <1>2
<1>4. UniqueNames(new)
  BY <1>1, <1>2, <1>3 DEF WellFormed, UniqueNames
<1>5. \A i \in DOMAIN groups : LedByFirst(new, i)
  <2> SUFFICES ASSUME NEW i \in DOMAIN groups
               PROVE  LedByFirst(new, i)
    OBVIOUS
  <2>1. \A j \in 1 .. i - 1 : j \in DOMAIN groups /\ new[j] = groups[j]
    BY <1>1, <1>2
  <2>2. LedByFirst(groups, i)
    BY DEF WellFormed
  <2> QED BY <1>2, <2>1, <2>2 DEF LedByFirst
<1>6. LedByFirst(new, Len(groups) + 1)
  <2>1. 1 .. (Len(groups) + 1) - 1 = DOMAIN groups
    BY <1>1
  <2> QED BY <1>2, <2>1 DEF LedByFirst
<1> QED BY <1>2, <1>3, <1>4, <1>5, <1>6 DEF WellFormed, new

\* Removing a character keeps the vector well formed, except perhaps in the
\* group whose leader was removed.
LEMMA EraseWellFormed ==
    ASSUME NEW groups, WellFormed(groups), NEW n
    PROVE  /\ Erase(groups, n) \in Seq(GroupMember)
           /\ UniqueNames(Erase(groups, n))
           /\ \A k \in DOMAIN Erase(groups, n) :
                 (\A i \in EntriesOf(groups, n) :
                     groups[i].isLeader => groups[i].groupId # Erase(groups, n)[k].groupId)
                 => LedByFirst(Erase(groups, n), k)
<1> DEFINE left == Erase(groups, n)
<1>1. groups \in Seq(GroupMember)
  BY DEF WellFormed
<1>2. left \in Seq(GroupMember)
  BY <1>1, EraseProperties
<1>3. PICK from \in [DOMAIN left -> DOMAIN groups] :
         /\ \A k \in DOMAIN left : left[k] = groups[from[k]] /\ groups[from[k]].name # n
         /\ \A k, m \in DOMAIN left : k < m => from[k] < from[m]
         /\ \A i \in DOMAIN groups :
               groups[i].name # n => \E k \in DOMAIN left : from[k] = i
  BY <1>1, EraseProperties
<1> HIDE DEF left
<1>4. /\ \A k \in DOMAIN left : k \in Nat /\ k >= 1 /\ 1 .. k - 1 \subseteq DOMAIN left
      /\ \A i \in DOMAIN groups : i \in Nat /\ i >= 1 /\ 1 .. i - 1 \subseteq DOMAIN groups
  BY <1>1, <1>2
<1>5. \A k, m \in DOMAIN left : from[k] < from[m] => k < m
  <2> SUFFICES ASSUME NEW k \in DOMAIN left, NEW m \in DOMAIN left, from[k] < from[m]
               PROVE  k < m
    OBVIOUS
  <2>1. k \in Nat /\ m \in Nat /\ from[k] \in Nat /\ from[m] \in Nat
    BY <1>3, <1>4
  <2>2. m < k => from[m] < from[k]
    BY <1>3
  <2> QED BY <2>1, <2>2
<1>6. UniqueNames(left)
  <2> SUFFICES ASSUME NEW k \in DOMAIN left, NEW m \in DOMAIN left, left[k].name = left[m].name
               PROVE  k = m
    BY DEF UniqueNames
  <2>1. from[k] = from[m]
    BY <1>3 DEF WellFormed, UniqueNames
  <2>2. ~(k < m) /\ ~(m < k)
    BY <1>3, <1>4, <2>1
  <2> QED BY <1>4, <2>2
<1>7. ASSUME NEW k \in DOMAIN left,
             \A i \in EntriesOf(groups, n) :
                 groups[i].isLeader => groups[i].groupId # left[k].groupId
      PROVE  LedByFirst(left, k)
  <2>1. /\ from[k] \in DOMAIN groups /\ from[k] \in Nat
        /\ left[k] = groups[from[k]]
        /\ LedByFirst(groups, from[k])
    BY <1>3, <1>4 DEF WellFormed
  <2>2. ASSUME left[k].isLeader, NEW j \in 1 .. k - 1
        PROVE  left[j].groupId # left[k].groupId
    <3>1. j \in DOMAIN left /\ j < k
      BY <1>4
    <3>2. from[j] \in DOMAIN groups /\ from[j] < from[k] /\ left[j] = groups[from[j]]
      BY <1>3, <3>1
    <3>3. from[j] \in 1 .. from[k] - 1
      BY <1>4, <2>1, <3>2
    <3> QED BY <2>1, <2>2, <3>2, <3>3 DEF LedByFirst
  <2>3. ASSUME NEW i \in 1 .. from[k] - 1, groups[i].name # n,
               groups[i].groupId = left[k].groupId
        PROVE  \E j \in 1 .. k - 1 : left[j].groupId = left[k].groupId
    <3>1. i \in DOMAIN groups /\ i < from[k]
      BY <1>4, <2>1
    <3>2. PICK j \in DOMAIN left : from[j] = i
      BY <1>3, <2>3, <3>1
    <3>3. j < k /\ left[j] = groups[i]
      BY <1>3, <1>5, <3>1, <3>2
    <3>4. j \in 1 .. k - 1
      BY <1>4, <3>3
    <3> QED BY <2>3, <3>3, <3>4
  <2>4. ASSUME ~left[k].isLeader
        PROVE  \E j \in 1 .. k - 1 : left[j].groupId = left[k].groupId
    <3>1. PICK i \in 1 .. from[k] - 1 : groups[i].groupId = left[k].groupId
      BY <2>1, <2>4 DEF LedByFirst
    <3>2. i \in DOMAIN groups /\ i \in Nat /\ i < from[k]
      BY <1>4, <2>1
    <3>3. CASE groups[i].name # n
      BY <2>3, <3>1, <3>3
    <3>4. CASE groups[i].name = n
      <4>1. ~groups[i].isLeader
        BY <1>7, <3>1, <3>2, <3>4 DEF EntriesOf
      <4>2. LedByFirst(groups, i)
        BY <3>2 DEF WellFormed
      <4>3. PICK h \in 1 .. i - 1 : groups[h].groupId = left[k].groupId
        BY <3>1, <4>1, <4>2 DEF LedByFirst
      <4>4. h \in DOMAIN groups /\ h # i /\ h \in 1 .. from[k] - 1
        BY <1>4, <2>1, <3>2
      <4>5. groups[h].name # n
        BY <3>2, <3>4, <4>4 DEF WellFormed, UniqueNames
      <4> QED BY <2>3, <4>3, <4>4, <4>5
    <3> QED BY <3>3, <3>4
  <2> QED BY <2>2, <2>4 DEF LedByFirst
<1> QED BY <1>2, <1>6, <1>7 DEF left

\* AssignLeader repairs the one group that may have lost its leader and leaves
\* the others as they are.
LEMMA AssignLeaderWellFormed ==
    ASSUME NEW groups \in Seq(GroupMember), UniqueNames(groups), NEW g,
           \A i \in DOMAIN groups : groups[i].groupId # g => LedByFirst(groups, i)
    PROVE  WellFormed(AssignLeader(groups, g))
<1> DEFINE led == AssignLeader(groups, g)
<1>1. Len(groups) \in Nat /\ DOMAIN groups = 1 .. Len(groups) /\ DOMAIN led = DOMAIN groups
  BY DEF AssignLeader
<1>2. ASSUME NEW i \in DOMAIN groups
      PROVE  /\ led[i].name = groups[i].name /\ led[i].groupId = groups[i].groupId
             /\ groups[i].groupId # g => led[i] = groups[i]
             /\ groups[i].groupId = g =>
                  (led[i].isLeader <=> \A j \in 1 .. i - 1 : groups[j].groupId # g)
             /\ led[i] \in GroupMember
  <2>1. groups[i] \in GroupMember
    BY <1>1
  <2>2. led[i] = IF groups[i].groupId # g THEN groups[i]
                 ELSE [groups[i] EXCEPT !.isLeader = \A j \in 1 .. i - 1 : groups[j].groupId # g]
    BY DEF AssignLeader
  <2> HIDE DEF led
  <2>3. (\A j \in 1 .. i - 1 : groups[j].groupId # g) \in BOOLEAN
    OBVIOUS
  <2> QED BY <2>1, <2>2, <2>3 DEF GroupMember
<1>3. led \in Seq(GroupMember)
  <2>1. led \in [1 .. Len(groups) -> GroupMember]
    BY <1>1, <1>2 DEF AssignLeader
  <2> HIDE DEF led
  <2> QED BY <1>1, <2>1
<1> HIDE DEF led
<1>4. UniqueNames(led)
  BY <1>1, <1>2 DEF UniqueNames
<1>5. ASSUME NEW i \in DOMAIN led
      PROVE  LedByFirst(led, i)
  <2>1. i \in DOMAIN groups /\ \A j \in 1 .. i - 1 : j \in DOMAIN groups
    BY <1>1
  <2>2. led[i].groupId = groups[i].groupId
    BY <1>2, <2>1
  <2>3. \A j \in 1 .. i - 1 : led[j].groupId = groups[j].groupId
    BY <1>2, <2>1
  <2>4. CASE groups[i].groupId = g
    <3>1. led[i].isLeader <=> \A j \in 1 .. i - 1 : groups[j].groupId # g
      BY <1>2, <2>1, <2>4
    <3> QED BY <2>2, <2>3, <2>4, <3>1 DEF LedByFirst
  <2>5. CASE groups[i].groupId # g
    <3>1. led[i] = groups[i] /\ LedByFirst(groups, i)
      BY <1>2, <2>1, <2>5
    <3> QED BY <2>3, <3>1 DEF LedByFirst
  <2> QED BY <2>4, <2>5
<1> QED BY <1>3, <1>4, <1>5 DEF WellFormed, led

\* Presence: marking a character online or offline changes nothing else.
LEMMA SetMemberOnlineWellFormed ==
    ASSUME NEW groups, WellFormed(groups), NEW n, NEW online \in BOOLEAN
    PROVE  WellFormed(SetMemberOnline(groups, n, online))
<1> DEFINE set == SetMemberOnline(groups, n, online)
<1>1. Len(groups) \in Nat /\ DOMAIN groups = 1 .. Len(groups) /\ DOMAIN set = DOMAIN groups
  BY DEF SetMemberOnline, WellFormed
<1>2. ASSUME NEW i \in DOMAIN groups
      PROVE  /\ set[i].name = groups[i].name /\ set[i].groupId = groups[i].groupId
             /\ set[i].isLeader = groups[i].isLeader
             /\ set[i] \in GroupMember
  <2>1. groups[i] \in GroupMember
    BY <1>1 DEF WellFormed
  <2>2. set[i] \in {groups[i], [groups[i] EXCEPT !.isOnline = online]}
    BY DEF SetMemberOnline
  <2> HIDE DEF set
  <2> QED BY <2>1, <2>2 DEF GroupMember
<1>3. set \in Seq(GroupMember)
  <2>1. set \in [1 .. Len(groups) -> GroupMember]
    BY <1>1, <1>2 DEF SetMemberOnline
  <2> HIDE DEF set
  <2> QED BY <1>1, <2>1
<1> HIDE DEF set
<1>4. UniqueNames(set)
  BY <1>1, <1>2 DEF UniqueNames, WellFormed
<1>5. ASSUME NEW i \in DOMAIN set
      PROVE  LedByFirst(set, i)
  <2>1. \A j \in 1 .. i - 1 : set[j].groupId = groups[j].groupId
    BY <1>1, <1>2
  <2> QED BY <1>1, <1>2, <2>1 DEF LedByFirst, WellFormed
<1> QED BY <1>3, <1>4, <1>5 DEF WellFormed, set

-----------------------------------------------------------------------------

\* Leaving: the leader that AssignLeader picks is right whoever left.
LEMMA GroupDisbandWellFormed ==
    ASSUME NEW groups, WellFormed(groups), NEW n \in Names
    PROVE  WellFormed(GroupDisband(groups, n))
<1> DEFINE left == Erase(groups, n)
           g == GroupOf(groups, n)
<1>1. /\ left \in Seq(GroupMember)
      /\ UniqueNames(left)
      /\ \A k \in DOMAIN left :
            (\A i \in EntriesOf(groups, n) : groups[i].isLeader => groups[i].groupId # left[k].groupId)
            => LedByFirst(left, k)
  BY EraseWellFormed
<1>2. \A i \in EntriesOf(groups, n) : groups[i].groupId = g
  BY LookupProperties
<1>3. CASE IsLeader(groups, n)
  <2>1. \A k \in DOMAIN left : left[k].groupId # g => LedByFirst(left, k)
    <3> HIDE DEF left, g
    <3> QED BY <1>1, <1>2
  <2>2. WellFormed(AssignLeader(left, g))
    <3> HIDE DEF left, g
    <3> QED BY <1>1, <2>1, AssignLeaderWellFormed
  <2> QED BY <1>3, <2>2 DEF GroupDisband
<1>4. CASE ~IsLeader(groups, n)
  <2>1. \A i \in EntriesOf(groups, n) : ~groups[i].isLeader
    BY <1>4, LookupProperties
  <2>2. WellFormed(left)
    <3> HIDE DEF left
    <3> QED BY <1>1, <2>1 DEF WellFormed
  <2> QED BY <1>4, <2>2 DEF GroupDisband
<1> QED BY <1>3, <1>4

\* The memberships and leaders that lookups find.
LEMMA LookupTypes ==
    ASSUME NEW groups, WellFormed(groups)
    PROVE  /\ \A n \in Names : GroupOf(groups, n) \in GroupIds \cup {NoGroup}
           /\ \A g : LeaderOf(groups, g) \in Names \cup {NoName}
<1>1. \A i \in DOMAIN groups : groups[i] \in GroupMember /\ i \in Nat
  BY DEF WellFormed
<1>2. ASSUME NEW n \in Names
      PROVE  GroupOf(groups, n) \in GroupIds \cup {NoGroup}
  <2>1. CASE EntriesOf(groups, n) = {}
    BY <2>1 DEF GroupOf
  <2>2. CASE EntriesOf(groups, n) # {}
    <3>1. PICK i \in EntriesOf(groups, n) : GroupOf(groups, n) = groups[i].groupId
      BY <2>2, LookupProperties
    <3> QED BY <1>1, <3>1 DEF EntriesOf, GroupMember
  <2> QED BY <2>1, <2>2
<1>3. ASSUME NEW g
      PROVE  LeaderOf(groups, g) \in Names \cup {NoName}
  <2> DEFINE leaders == {i \in MembersOf(groups, g) : groups[i].isLeader}
  <2>1. CASE leaders = {}
    BY <2>1 DEF LeaderOf
  <2>2. CASE leaders # {}
    <3>1. PICK i \in leaders : TRUE
      BY <2>2
    <3>2. \A k \in leaders : ~(k < i) /\ ~(i < k)
      BY <1>1, <3>1 DEF WellFormed, LedByFirst, MembersOf
    <3>3. leaders = {i}
      BY <1>1, <3>1, <3>2 DEF MembersOf
    <3>4. Last({i}) = i
      BY <1>1 DEF Last, MembersOf
    <3>5. LeaderOf(groups, g) = groups[i].name
      BY <3>3, <3>4 DEF LeaderOf
    <3> QED BY <1>1, <3>1, <3>5 DEF MembersOf, GroupMember
  <2> QED BY <2>1, <2>2
<1> QED BY <1>2, <1>3

\* Founding keeps the vector well formed.
LEMMA StartWellFormed ==
    ASSUME NEW groups, WellFormed(groups), NEW n \in Names, GroupStartAccepted(groups, n),
           NEW g \in GroupIds \ GetUniqueGroupIds(groups)
    PROVE  WellFormed(GroupStartGroup(groups, n, g))
<1>1. NewMember(n, g, TRUE) \in GroupMember
  BY DEF NewMember, GroupMember
<1>2. \A i \in DOMAIN groups : groups[i].name # n
  BY LookupProperties DEF GroupStartAccepted, EntriesOf
<1>3. \A i \in DOMAIN groups : groups[i].groupId # g
  BY DEF GetUniqueGroupIds
<1> QED BY <1>1, <1>2, <1>3, AppendWellFormed DEF GroupStartGroup, NewMember

\* So does joining the group of somebody who has one.
LEMMA JoinWellFormed ==
    ASSUME NEW groups, WellFormed(groups), NEW n \in Names, NEW leader \in Names,
           GroupJoinAccepted(groups, n, leader)
    PROVE  WellFormed(GroupJoin(groups, n, leader))
<1> DEFINE g == GroupOf(groups, leader)
<1>1. g # NoGroup /\ GroupOf(groups, n) = NoGroup
  BY DEF GroupJoinAccepted
<1>2. PICK i \in DOMAIN groups : groups[i].groupId = g
  <2>1. EntriesOf(groups, leader) # {}
    BY <1>1 DEF GroupOf
  <2> QED BY <2>1, LookupProperties DEF EntriesOf
<1>3. g \in GroupIds
  BY <1>1, LookupTypes
<1>4. NewMember(n, g, FALSE) \in GroupMember
  BY <1>3 DEF NewMember, GroupMember
<1>5. \A k \in DOMAIN groups : groups[k].name # n
  BY <1>1, LookupProperties DEF EntriesOf
<1> HIDE DEF g
<1>6. WellFormed(Append(groups, NewMember(n, g, FALSE)))
  BY <1>2, <1>4, <1>5, AppendWellFormed DEF NewMember
<1> QED BY <1>6 DEF GroupJoin, g

\* And removing somebody who does not lead.
LEMMA KickWellFormed ==
    ASSUME NEW groups, WellFormed(groups), NEW n \in Names, NEW leader \in Names,
           GroupKickAccepted(groups, n, leader)
    PROVE  WellFormed(GroupKickMember(groups, n))
<1>1. ~IsLeader(groups, n)
  BY DEF GroupKickAccepted, IsLeader
<1>2. \A i \in EntriesOf(groups, n) : ~groups[i].isLeader
  BY <1>1, LookupProperties
<1> QED BY <1>2, EraseWellFormed DEF WellFormed, GroupKickMember

-----------------------------------------------------------------------------

\* Members of a group are finitely many positions of the vector.
LEMMA MembersFinite ==
    ASSUME NEW groups \in Seq(GroupMember), NEW g
    PROVE  /\ MembersOf(groups, g) \subseteq 1 .. Len(groups)
           /\ IsFiniteSet(MembersOf(groups, g))
           /\ MemberCount(groups, g) \in Nat
<1>1. MembersOf(groups, g) \subseteq 1 .. Len(groups) /\ Len(groups) \in Nat
  BY DEF MembersOf
<1>2. IsFiniteSet(1 .. Len(groups))
  BY <1>1, FS_Interval
<1>3. IsFiniteSet(MembersOf(groups, g))
  BY <1>1, <1>2, FS_Subset
<1> QED BY <1>1, <1>3, FS_CardinalityType DEF MemberCount

\* Removing a character adds no member to any group.
LEMMA EraseMemberCount ==
    ASSUME NEW groups \in Seq(GroupMember), NEW n, NEW g
    PROVE  MemberCount(Erase(groups, n), g) <= MemberCount(groups, g)
<1> DEFINE left == Erase(groups, n)
<1>1. left \in Seq(GroupMember)
  BY EraseProperties
<1>2. PICK from \in [DOMAIN left -> DOMAIN groups] :
         /\ \A k \in DOMAIN left : left[k] = groups[from[k]]
         /\ \A k, m \in DOMAIN left : k < m => from[k] < from[m]
  BY EraseProperties
<1> HIDE DEF left
<1> DEFINE map == [k \in MembersOf(left, g) |-> from[k]]
<1>3. map \in [MembersOf(left, g) -> MembersOf(groups, g)]
  BY <1>2 DEF MembersOf
<1>4. \A k, m \in MembersOf(left, g) : map[k] = map[m] => k = m
  <2> SUFFICES ASSUME NEW k \in MembersOf(left, g), NEW m \in MembersOf(left, g), k # m
               PROVE  from[k] # from[m]
    OBVIOUS
  <2>1. k \in DOMAIN left /\ m \in DOMAIN left /\ k \in Nat /\ m \in Nat
    BY <1>1 DEF MembersOf
  <2>2. from[k] \in Nat /\ from[m] \in Nat
    BY <1>2, <2>1
  <2>3. from[k] < from[m] \/ from[m] < from[k]
    BY <1>2, <2>1
  <2> QED BY <2>2, <2>3
<1>5. map \in Injection(MembersOf(left, g), MembersOf(groups, g))
  BY <1>3, <1>4 DEF Injection, IsInjective
<1>6. IsFiniteSet(MembersOf(groups, g))
  BY MembersFinite
<1>7. Cardinality(MembersOf(left, g)) <= Cardinality(MembersOf(groups, g))
  <2> HIDE DEF map
  <2> QED BY <1>5, <1>6, FS_Injection
<1> QED BY <1>7 DEF MemberCount, left

\* A new entry adds one member to its own group and none to the others.
LEMMA AppendMemberCount ==
    ASSUME NEW groups \in Seq(GroupMember), NEW member \in GroupMember, NEW g
    PROVE  MemberCount(Append(groups, member), g) =
               MemberCount(groups, g) + IF member.groupId = g THEN 1 ELSE 0
<1> DEFINE new == Append(groups, member)
           here == Len(groups) + 1
<1>1. /\ Len(groups) \in Nat /\ DOMAIN groups = 1 .. Len(groups)
      /\ DOMAIN new = 1 .. here /\ new[here] = member
      /\ \A i \in DOMAIN groups : new[i] = groups[i]
  OBVIOUS
<1>2. \A i \in DOMAIN new : i = here \/ i \in DOMAIN groups
  BY <1>1
<1>3. here \in DOMAIN new /\ here \notin MembersOf(groups, g) /\ DOMAIN groups \subseteq DOMAIN new
  BY <1>1 DEF MembersOf
<1>4. IsFiniteSet(MembersOf(groups, g)) /\ MemberCount(groups, g) \in Nat
  BY MembersFinite
<1> HIDE DEF new, here
<1>5. CASE member.groupId = g
  <2>1. MembersOf(new, g) = MembersOf(groups, g) \cup {here}
    BY <1>1, <1>2, <1>3, <1>5 DEF MembersOf
  <2> QED BY <1>3, <1>4, <1>5, <2>1, FS_AddElement DEF MemberCount, new
<1>6. CASE member.groupId # g
  <2>1. MembersOf(new, g) = MembersOf(groups, g)
    BY <1>1, <1>2, <1>3, <1>6 DEF MembersOf
  <2> QED BY <1>4, <1>6, <2>1 DEF MemberCount, new
<1> QED BY <1>5, <1>6

\* Moving the leader flag moves nobody.
LEMMA AssignLeaderMemberCount ==
    ASSUME NEW groups, NEW h, NEW g
    PROVE  MemberCount(AssignLeader(groups, h), g) = MemberCount(groups, g)
<1>1. /\ DOMAIN AssignLeader(groups, h) = DOMAIN groups
      /\ \A i \in DOMAIN groups : AssignLeader(groups, h)[i].groupId = groups[i].groupId
  BY DEF AssignLeader
<1> QED BY <1>1 DEF MembersOf, MemberCount

\* A departure adds no member to any group.
LEMMA GroupDisbandMemberCount ==
    ASSUME NEW groups \in Seq(GroupMember), NEW n, NEW g
    PROVE  /\ MemberCount(GroupDisband(groups, n), g) <= MemberCount(groups, g)
           /\ MemberCount(GroupDisband(groups, n), g) \in Nat
<1>1. MemberCount(Erase(groups, n), g) \in Nat
  BY EraseProperties, MembersFinite
<1> QED BY <1>1, EraseMemberCount, AssignLeaderMemberCount DEF GroupDisband

\* Neither does marking a character online or offline.
LEMMA SetMemberOnlineMemberCount ==
    ASSUME NEW groups, NEW n, NEW online \in BOOLEAN, NEW g
    PROVE  MemberCount(SetMemberOnline(groups, n, online), g) = MemberCount(groups, g)
<1>1. /\ DOMAIN SetMemberOnline(groups, n, online) = DOMAIN groups
      /\ \A i \in DOMAIN groups : SetMemberOnline(groups, n, online)[i].groupId = groups[i].groupId
  BY DEF SetMemberOnline
<1> QED BY <1>1 DEF MembersOf, MemberCount

\* A group does not vanish while a character other than n is in it.
LEMMA EraseKeepsGroups ==
    ASSUME NEW groups \in Seq(GroupMember), NEW n,
           NEW i \in DOMAIN groups, groups[i].name # n
    PROVE  groups[i].groupId \in GetUniqueGroupIds(Erase(groups, n))
<1>1. PICK from \in [DOMAIN Erase(groups, n) -> DOMAIN groups] :
         /\ \A k \in DOMAIN Erase(groups, n) :
               Erase(groups, n)[k] = groups[from[k]] /\ groups[from[k]].name # n
         /\ \A k, m \in DOMAIN Erase(groups, n) : k < m => from[k] < from[m]
         /\ \A h \in DOMAIN groups :
               groups[h].name # n => \E k \in DOMAIN Erase(groups, n) : from[k] = h
  BY EraseProperties
<1> QED BY <1>1 DEF GetUniqueGroupIds

\* Moving flags makes no group vanish.
LEMMA FlagsKeepGroups ==
    ASSUME NEW groups, NEW n, NEW h, NEW online \in BOOLEAN
    PROVE  /\ GetUniqueGroupIds(AssignLeader(groups, h)) = GetUniqueGroupIds(groups)
           /\ GetUniqueGroupIds(SetMemberOnline(groups, n, online)) = GetUniqueGroupIds(groups)
<1>1. /\ DOMAIN AssignLeader(groups, h) = DOMAIN groups
      /\ \A i \in DOMAIN groups : AssignLeader(groups, h)[i].groupId = groups[i].groupId
  BY DEF AssignLeader
<1>2. /\ DOMAIN SetMemberOnline(groups, n, online) = DOMAIN groups
      /\ \A i \in DOMAIN groups : SetMemberOnline(groups, n, online)[i].groupId = groups[i].groupId
  BY DEF SetMemberOnline
<1> QED BY <1>1, <1>2 DEF GetUniqueGroupIds

-----------------------------------------------------------------------------

\* What the registry sees of a vector.
GroupsOf(groups)  == [n \in Names |-> GroupOf(groups, n)]
LeadersOf(groups) == [g \in GroupIds |-> LeaderOf(groups, g)]
InGroup(groups, g) == {n \in Names : GroupOf(groups, n) = g}
OnlineOf(groups)  == {n \in Names : \E i \in EntriesOf(groups, n) : groups[i].isOnline}

\* Membership read off the entries.
LEMMA GroupOfProperties ==
    ASSUME NEW groups, WellFormed(groups), NEW n \in Names
    PROVE  /\ \A i \in DOMAIN groups : groups[i].name = n => GroupOf(groups, n) = groups[i].groupId
           /\ (\A i \in DOMAIN groups : groups[i].name # n) <=> GroupOf(groups, n) = NoGroup
           /\ n \in OnlineOf(groups) <=> \E i \in DOMAIN groups : groups[i].name = n /\ groups[i].isOnline
<1>1. \A i \in DOMAIN groups : groups[i] \in GroupMember
  BY DEF WellFormed
<1>2. \A i \in DOMAIN groups : groups[i].groupId # NoGroup
  BY <1>1, GroupIdsAssumption DEF GroupMember
<1> QED BY <1>2, LookupProperties DEF EntriesOf, GroupOf, OnlineOf

\* A group has a leader as long as it has a member, and its leader is the one
\* member with the flag.
LEMMA LeaderOfProperties ==
    ASSUME NEW groups, WellFormed(groups), NEW g \in GroupIds
    PROVE  /\ \A i \in MembersOf(groups, g) :
                 groups[i].isLeader => LeaderOf(groups, g) = groups[i].name
           /\ MembersOf(groups, g) = {} => LeaderOf(groups, g) = NoName
           /\ MembersOf(groups, g) # {} => \E i \in MembersOf(groups, g) : groups[i].isLeader
<1> DEFINE K == MembersOf(groups, g)
<1>1. /\ groups \in Seq(GroupMember) /\ Len(groups) \in Nat /\ DOMAIN groups = 1 .. Len(groups)
      /\ K \in SUBSET (1 .. Len(groups))
  BY DEF WellFormed, MembersOf
<1>2. ASSUME NEW i \in K, groups[i].isLeader
      PROVE  LeaderOf(groups, g) = groups[i].name
  <2> DEFINE leaders == {k \in K : groups[k].isLeader}
  <2>1. \A k \in leaders : ~(k < i) /\ ~(i < k)
    BY <1>1, <1>2 DEF WellFormed, LedByFirst, MembersOf
  <2>2. leaders = {i}
    BY <1>1, <1>2, <2>1
  <2>3. Last({i}) = i
    BY <1>1 DEF Last
  <2> QED BY <2>2, <2>3 DEF LeaderOf
<1>3. ASSUME K # {}
      PROVE  \E i \in K : groups[i].isLeader
  <2> DEFINE first == First(K)
  <2>1. first \in K /\ \A i \in K : first <= i
    <3> HIDE DEF K
    <3> QED BY <1>1, <1>3, FirstProperties
  <2> HIDE DEF first
  <2>2. /\ first \in DOMAIN groups /\ groups[first].groupId = g
        /\ \A j \in 1 .. first - 1 : j \in DOMAIN groups /\ ~(first <= j)
    BY <1>1, <2>1 DEF MembersOf
  <2>3. \A j \in 1 .. first - 1 : groups[j].groupId # g
    BY <2>1, <2>2 DEF MembersOf
  <2>4. groups[first].isLeader
    BY <2>2, <2>3 DEF WellFormed, LedByFirst
  <2> QED BY <2>1, <2>4
<1>4. K = {} => LeaderOf(groups, g) = NoName
  BY DEF LeaderOf
<1> QED BY <1>2, <1>3, <1>4

\* The registry counts as many members as the vector has entries.
LEMMA MembersAreEntries ==
    ASSUME NEW groups, WellFormed(groups), NEW g \in GroupIds
    PROVE  /\ InGroup(groups, g) = {groups[i].name : i \in MembersOf(groups, g)}
           /\ IsFiniteSet(InGroup(groups, g))
           /\ Cardinality(InGroup(groups, g)) \in Nat
           /\ Cardinality(InGroup(groups, g)) = MemberCount(groups, g)
<1> DEFINE in == InGroup(groups, g)
           members == MembersOf(groups, g)
<1>1. groups \in Seq(GroupMember) /\ \A i \in DOMAIN groups : groups[i].name \in Names
  <2>1. groups \in Seq(GroupMember) /\ \A i \in DOMAIN groups : groups[i] \in GroupMember
    BY DEF WellFormed
  <2> QED BY <2>1 DEF GroupMember
<1>2. in = {groups[i].name : i \in members}
  <2>1. \A n \in Names : n \in in <=> \E i \in members : groups[i].name = n
    BY GroupOfProperties, GroupIdsAssumption DEF MembersOf, InGroup
  <2>2. \A i \in members : groups[i].name \in Names
    BY <1>1 DEF MembersOf
  <2>3. in \subseteq Names
    BY DEF InGroup
  <2> HIDE DEF members, in
  <2> QED BY <2>1, <2>2, <2>3
<1>3. IsFiniteSet(members) /\ MemberCount(groups, g) = Cardinality(members)
  BY <1>1, MembersFinite DEF MemberCount
<1> DEFINE name == [i \in members |-> groups[i].name]
<1>4. name \in Surjection(members, in) /\ name \in Injection(members, in)
  <2>3. \A i, j \in members : groups[i].name = groups[j].name => i = j
    BY DEF WellFormed, UniqueNames, MembersOf
  <2> HIDE DEF in, members
  <2>1. name \in [members -> in]
    BY <1>2
  <2>2. \A n \in in : \E i \in members : name[i] = n
    BY <1>2
  <2> QED BY <2>1, <2>2, <2>3 DEF Surjection, Injection, IsInjective
<1>5. IsFiniteSet(in) /\ Cardinality(in) = Cardinality(members)
  <2> HIDE DEF in, members, name
  <2> QED BY <1>3, <1>4, FS_Surjection
<1> QED BY <1>2, <1>3, <1>5, FS_CardinalityType

-----------------------------------------------------------------------------

\* The entries of the characters other than n are in both vectors, in whatever
\* order and with whatever flags.
OthersKept(groups, new, n) ==
    /\ \A k \in DOMAIN new : new[k].name # n => \E i \in DOMAIN groups :
          /\ groups[i].name = new[k].name /\ groups[i].groupId = new[k].groupId
          /\ groups[i].isOnline = new[k].isOnline
    /\ \A i \in DOMAIN groups : groups[i].name # n => \E k \in DOMAIN new :
          /\ groups[i].name = new[k].name /\ groups[i].groupId = new[k].groupId
          /\ groups[i].isOnline = new[k].isOnline

\* Members of g with the leader flag are in both vectors.
LeaderKept(groups, new, g) ==
    /\ \A k \in MembersOf(new, g) : new[k].isLeader =>
          \E i \in MembersOf(groups, g) : groups[i].isLeader /\ groups[i].name = new[k].name
    /\ \A i \in MembersOf(groups, g) : groups[i].isLeader =>
          \E k \in MembersOf(new, g) : new[k].isLeader

\* The registry sees no difference in a character whose entry is kept.
LEMMA OthersUnchanged ==
    ASSUME NEW groups, WellFormed(groups), NEW new, WellFormed(new),
           NEW n, OthersKept(groups, new, n), NEW other \in Names, other # n
    PROVE  /\ GroupOf(new, other) = GroupOf(groups, other)
           /\ other \in OnlineOf(new) <=> other \in OnlineOf(groups)
<1>1. CASE \E i \in DOMAIN groups : groups[i].name = other
  <2>1. PICK i \in DOMAIN groups : groups[i].name = other
    BY <1>1
  <2>2. PICK k \in DOMAIN new : /\ new[k].name = other /\ new[k].groupId = groups[i].groupId
                                /\ new[k].isOnline = groups[i].isOnline
    BY <2>1 DEF OthersKept
  <2>3. /\ \A j \in DOMAIN groups : groups[j].name = other => j = i
        /\ \A j \in DOMAIN new : new[j].name = other => j = k
    BY <2>1, <2>2 DEF WellFormed, UniqueNames
  <2> QED BY <2>1, <2>2, <2>3, GroupOfProperties
<1>2. CASE ~\E i \in DOMAIN groups : groups[i].name = other
  <2>1. ~\E k \in DOMAIN new : new[k].name = other
    BY <1>2 DEF OthersKept
  <2> QED BY <1>2, <2>1, GroupOfProperties
<1> QED BY <1>1, <1>2

\* Nor in the leader of a group where the flags are kept.
LEMMA LeaderUnchanged ==
    ASSUME NEW groups, WellFormed(groups), NEW new, WellFormed(new),
           NEW g \in GroupIds, LeaderKept(groups, new, g)
    PROVE  LeaderOf(new, g) = LeaderOf(groups, g)
<1>1. CASE MembersOf(groups, g) = {}
  <2>1. MembersOf(new, g) = {}
    BY <1>1, LeaderOfProperties DEF LeaderKept
  <2> QED BY <1>1, <2>1, LeaderOfProperties
<1>2. CASE MembersOf(groups, g) # {}
  <2>1. PICK k \in MembersOf(new, g) : new[k].isLeader
    BY <1>2, LeaderOfProperties DEF LeaderKept
  <2> QED BY <2>1, LeaderOfProperties DEF LeaderKept
<1> QED BY <1>1, <1>2

-----------------------------------------------------------------------------

\* Founding and joining, as the registry sees them.
LEMMA AppendEffect ==
    ASSUME NEW groups, WellFormed(groups), NEW member \in GroupMember, member.isOnline,
           WellFormed(Append(groups, member)),
           \A i \in DOMAIN groups : groups[i].name # member.name
    PROVE  LET new == Append(groups, member)
           IN  /\ GroupsOf(new) = [GroupsOf(groups) EXCEPT ![member.name] = member.groupId]
               /\ OnlineOf(new) = OnlineOf(groups) \cup {member.name}
               /\ LeadersOf(new) =
                     IF member.isLeader THEN [LeadersOf(groups) EXCEPT ![member.groupId] = member.name]
                                        ELSE LeadersOf(groups)
<1> DEFINE new == Append(groups, member)
           last == Len(groups) + 1
<1>1. /\ groups \in Seq(GroupMember) /\ last \in DOMAIN new /\ new[last] = member
      /\ \A i \in DOMAIN groups : i \in DOMAIN new /\ new[i] = groups[i]
      /\ \A i \in DOMAIN new : i = last \/ i \in DOMAIN groups
  BY DEF WellFormed
<1>2. member.name \in Names /\ member.groupId \in GroupIds
  BY DEF GroupMember
<1> HIDE DEF new, last
<1>3. WellFormed(new)
  BY DEF new
<1>4. OthersKept(groups, new, member.name)
  BY <1>1 DEF OthersKept
<1>5. GroupOf(new, member.name) = member.groupId /\ member.name \in OnlineOf(new)
  BY <1>1, <1>2, <1>3, GroupOfProperties
<1>6. ASSUME NEW n \in Names
      PROVE  /\ GroupsOf(new)[n] = [GroupsOf(groups) EXCEPT ![member.name] = member.groupId][n]
             /\ n \in OnlineOf(new) <=> n \in OnlineOf(groups) \cup {member.name}
  BY <1>2, <1>3, <1>4, <1>5, OthersUnchanged DEF GroupsOf
<1>7. ASSUME NEW g \in GroupIds, ~(member.isLeader /\ member.groupId = g)
      PROVE  LeaderOf(new, g) = LeaderOf(groups, g)
  <2>1. LeaderKept(groups, new, g)
    BY <1>1, <1>7 DEF LeaderKept, MembersOf
  <2> QED BY <1>3, <2>1, LeaderUnchanged
<1>8. member.isLeader => LeaderOf(new, member.groupId) = member.name
  BY <1>1, <1>2, <1>3, LeaderOfProperties DEF MembersOf
<1>9. GroupsOf(new) = [GroupsOf(groups) EXCEPT ![member.name] = member.groupId]
  BY <1>6 DEF GroupsOf
<1>10. OnlineOf(new) = OnlineOf(groups) \cup {member.name}
  BY <1>2, <1>6 DEF OnlineOf
<1>11. CASE member.isLeader
  BY <1>2, <1>7, <1>8, <1>9, <1>10, <1>11 DEF LeadersOf, new
<1>12. CASE ~member.isLeader
  BY <1>7, <1>9, <1>10, <1>12 DEF LeadersOf, new
<1> QED BY <1>11, <1>12

\* A departure, as the registry sees it, but for the leader.
LEMMA DepartureEffect ==
    ASSUME NEW groups, WellFormed(groups), NEW new, WellFormed(new),
           NEW n \in Names, OthersKept(groups, new, n), \A k \in DOMAIN new : new[k].name # n
    PROVE  /\ GroupsOf(new) = [GroupsOf(groups) EXCEPT ![n] = NoGroup]
           /\ OnlineOf(new) = OnlineOf(groups) \ {n}
<1>1. GroupOf(new, n) = NoGroup /\ n \notin OnlineOf(new)
  BY GroupOfProperties
<1>2. \A other \in Names : other # n =>
         /\ GroupOf(new, other) = GroupOf(groups, other)
         /\ other \in OnlineOf(new) <=> other \in OnlineOf(groups)
  BY OthersUnchanged
<1>3. GroupsOf(new) = [GroupsOf(groups) EXCEPT ![n] = NoGroup]
  BY <1>1, <1>2 DEF GroupsOf
<1>4. OnlineOf(new) = OnlineOf(groups) \ {n}
  BY <1>1, <1>2 DEF OnlineOf
<1> QED BY <1>3, <1>4

\* Removal keeps the other characters, and the flags of their groups.
LEMMA EraseKeeps ==
    ASSUME NEW groups \in Seq(GroupMember), NEW n
    PROVE  /\ Erase(groups, n) \in Seq(GroupMember)
           /\ OthersKept(groups, Erase(groups, n), n)
           /\ \A k \in DOMAIN Erase(groups, n) : Erase(groups, n)[k].name # n
           /\ \A g : (\A i \in EntriesOf(groups, n) : groups[i].isLeader => groups[i].groupId # g)
                        => LeaderKept(groups, Erase(groups, n), g)
<1> DEFINE new == Erase(groups, n)
<1>1. PICK from \in [DOMAIN new -> DOMAIN groups] :
         /\ \A k \in DOMAIN new : new[k] = groups[from[k]] /\ groups[from[k]].name # n
         /\ \A k, m \in DOMAIN new : k < m => from[k] < from[m]
         /\ \A i \in DOMAIN groups : groups[i].name # n => \E k \in DOMAIN new : from[k] = i
  BY EraseProperties
<1>2. new \in Seq(GroupMember)
  BY EraseProperties
<1> HIDE DEF new
<1>3. /\ \A k \in DOMAIN new : from[k] \in DOMAIN groups /\ new[k] = groups[from[k]] /\ new[k].name # n
      /\ \A i \in DOMAIN groups : groups[i].name # n => \E k \in DOMAIN new : new[k] = groups[i]
  BY <1>1
<1>4. OthersKept(groups, new, n)
  BY <1>3 DEF OthersKept
<1>5. ASSUME NEW g, \A i \in EntriesOf(groups, n) : groups[i].isLeader => groups[i].groupId # g
      PROVE  LeaderKept(groups, new, g)
  BY <1>3, <1>5 DEF LeaderKept, MembersOf, EntriesOf
<1> QED BY <1>2, <1>3, <1>4, <1>5 DEF new

\* Choosing a new leader for group h keeps all members, and the flags of the
\* other groups.
LEMMA AssignLeaderKeeps ==
    ASSUME NEW groups, NEW left \in Seq(GroupMember), NEW n, NEW h, OthersKept(groups, left, n)
    PROVE  /\ OthersKept(groups, AssignLeader(left, h), n)
           /\ \A g : g # h /\ LeaderKept(groups, left, g) => LeaderKept(groups, AssignLeader(left, h), g)
<1> DEFINE led == AssignLeader(left, h)
<1>1. DOMAIN led = DOMAIN left
  BY DEF AssignLeader
<1>2. ASSUME NEW i \in DOMAIN left
      PROVE  led[i] = IF left[i].groupId # h THEN left[i]
                      ELSE [left[i] EXCEPT !.isLeader = \A j \in 1 .. i - 1 : left[j].groupId # h]
  BY DEF AssignLeader
<1> HIDE DEF led
<1>3. \A i \in DOMAIN left :
         /\ led[i].name = left[i].name /\ led[i].groupId = left[i].groupId
         /\ led[i].isOnline = left[i].isOnline
         /\ left[i].groupId # h => led[i].isLeader = left[i].isLeader
  <2>1. \A i \in DOMAIN left : left[i] \in GroupMember
    OBVIOUS
  <2> QED BY <1>2, <2>1 DEF GroupMember
<1>4. OthersKept(groups, led, n)
  BY <1>1, <1>3 DEF OthersKept
<1>5. ASSUME NEW g, g # h, LeaderKept(groups, left, g)
      PROVE  LeaderKept(groups, led, g)
  <2>1. MembersOf(led, g) = MembersOf(left, g)
    BY <1>1, <1>3 DEF MembersOf
  <2>2. \A k \in MembersOf(left, g) : led[k].name = left[k].name /\ led[k].isLeader = left[k].isLeader
    BY <1>3, <1>5 DEF MembersOf
  <2> QED BY <1>5, <2>1, <2>2 DEF LeaderKept
<1> QED BY <1>4, <1>5 DEF led

-----------------------------------------------------------------------------

\* What each operation is for the registry, in the terms of its actions.
LEMMA StartFounds ==
    ASSUME NEW groups, WellFormed(groups), NEW n \in Names, GroupStartAccepted(groups, n),
           NEW g \in GroupIds \ GetUniqueGroupIds(groups)
    PROVE  LET new == GroupStartGroup(groups, n, g)
           IN  /\ GroupsOf(groups)[n] = NoGroup
               /\ InGroup(groups, g) = {}
               /\ GroupsOf(new) = [GroupsOf(groups) EXCEPT ![n] = g]
               /\ LeadersOf(new) = [LeadersOf(groups) EXCEPT ![g] = n]
               /\ OnlineOf(new) = OnlineOf(groups) \cup {n}
<1> DEFINE member == NewMember(n, g, TRUE)
<1>1. /\ member \in GroupMember /\ member.isOnline /\ member.isLeader
      /\ member.name = n /\ member.groupId = g
  BY DEF NewMember, GroupMember
<1>2. \A i \in DOMAIN groups : groups[i].name # n
  BY GroupOfProperties DEF GroupStartAccepted
<1>3. InGroup(groups, g) = {}
  <2>1. MembersOf(groups, g) = {}
    BY DEF MembersOf, GetUniqueGroupIds
  <2>2. InGroup(groups, g) = {groups[i].name : i \in MembersOf(groups, g)}
    BY MembersAreEntries
  <2> QED BY <2>1, <2>2
<1>4. GroupsOf(groups)[n] = NoGroup
  BY DEF GroupStartAccepted, GroupsOf
<1>5. GroupStartGroup(groups, n, g) = Append(groups, member) /\ WellFormed(Append(groups, member))
  BY StartWellFormed DEF GroupStartGroup
<1> HIDE DEF member
<1>6. /\ GroupsOf(Append(groups, member)) = [GroupsOf(groups) EXCEPT ![n] = g]
      /\ LeadersOf(Append(groups, member)) = [LeadersOf(groups) EXCEPT ![g] = n]
      /\ OnlineOf(Append(groups, member)) = OnlineOf(groups) \cup {n}
  BY <1>1, <1>2, <1>5, AppendEffect
<1> QED BY <1>3, <1>4, <1>5, <1>6

\* A join puts the name in the group that it joins and moves nobody else.
LEMMA JoinEnters ==
    ASSUME NEW groups, WellFormed(groups), NEW n \in Names, NEW leader \in Names,
           GroupJoinAccepted(groups, n, leader)
    PROVE  LET new == GroupJoin(groups, n, leader)
               g == GroupOf(groups, leader)
               in == InGroup(groups, g)
           IN  /\ g \in GroupIds
               /\ GroupsOf(groups)[n] = NoGroup
               /\ in # {} /\ Cardinality(in) < MyMaxGroupMembers
               /\ GroupsOf(new) = [GroupsOf(groups) EXCEPT ![n] = g]
               /\ LeadersOf(new) = LeadersOf(groups)
               /\ OnlineOf(new) = OnlineOf(groups) \cup {n}
<1> DEFINE g == GroupOf(groups, leader)
           in == InGroup(groups, g)
           member == NewMember(n, g, FALSE)
<1>1. g # NoGroup /\ MemberCount(groups, g) < MyMaxGroupMembers /\ GroupOf(groups, n) = NoGroup
  BY DEF GroupJoinAccepted
<1>2. PICK i \in DOMAIN groups : groups[i].name = leader
  BY <1>1, GroupOfProperties
<1>3. g \in GroupIds
  <2>1. groups[i] \in GroupMember
    BY DEF WellFormed
  <2> QED BY <1>2, <2>1, GroupOfProperties DEF GroupMember
<1>4. in # {} /\ Cardinality(in) < MyMaxGroupMembers
  <2>1. leader \in in
    BY DEF InGroup
  <2>2. /\ Cardinality(in) \in Nat /\ Cardinality(in) <= MemberCount(groups, g)
        /\ MemberCount(groups, g) \in Nat
    BY <1>3, MembersAreEntries, MembersFinite DEF WellFormed
  <2> QED BY <1>1, <2>1, <2>2, LimitsAssumption
<1>5. /\ member \in GroupMember /\ member.isOnline /\ ~member.isLeader
      /\ member.name = n /\ member.groupId = g
  BY <1>3 DEF NewMember, GroupMember
<1>6. \A k \in DOMAIN groups : groups[k].name # n
  BY <1>1, GroupOfProperties
<1>7. GroupsOf(groups)[n] = NoGroup
  BY <1>1 DEF GroupsOf
<1>8. GroupJoin(groups, n, leader) = Append(groups, member) /\ WellFormed(Append(groups, member))
  BY JoinWellFormed DEF GroupJoin
<1> HIDE DEF member, in, g
<1>9. /\ GroupsOf(Append(groups, member)) = [GroupsOf(groups) EXCEPT ![n] = g]
      /\ LeadersOf(Append(groups, member)) = LeadersOf(groups)
      /\ OnlineOf(Append(groups, member)) = OnlineOf(groups) \cup {n}
  BY <1>5, <1>6, <1>8, AppendEffect
<1> QED BY <1>3, <1>4, <1>7, <1>8, <1>9 DEF in, g

\* A member that is not the leader goes.
LEMMA KickLeaves ==
    ASSUME NEW groups, WellFormed(groups), NEW n \in Names, NEW leader \in Names,
           GroupKickAccepted(groups, n, leader)
    PROVE  LET new == GroupKickMember(groups, n)
               g == GroupOf(groups, n)
           IN  /\ g \in GroupIds
               /\ LeaderOf(groups, g) # n
               /\ GroupsOf(new) = [GroupsOf(groups) EXCEPT ![n] = NoGroup]
               /\ LeadersOf(new) = LeadersOf(groups)
               /\ OnlineOf(new) = OnlineOf(groups) \ {n}
<1> DEFINE g == GroupOf(groups, n)
           new == Erase(groups, n)
<1>1. n # leader /\ g # NoGroup /\ LeaderOf(groups, g) = leader
  BY DEF GroupKickAccepted, IsLeader
<1>2. groups \in Seq(GroupMember) /\ \A i \in DOMAIN groups : groups[i] \in GroupMember
  BY DEF WellFormed
<1>3. g \in GroupIds
  <2>1. PICK i \in DOMAIN groups : groups[i].name = n
    BY <1>1, GroupOfProperties
  <2> QED BY <1>2, <2>1, GroupOfProperties DEF GroupMember
<1>4. \A i \in EntriesOf(groups, n) : ~groups[i].isLeader
  <2>1. ~IsLeader(groups, n)
    BY <1>1 DEF IsLeader
  <2> QED BY <2>1, LookupProperties
<1>5. /\ OthersKept(groups, new, n) /\ \A k \in DOMAIN new : new[k].name # n
      /\ \A h \in GroupIds : LeaderKept(groups, new, h)
  BY <1>2, <1>4, EraseKeeps
<1>6. WellFormed(new)
  BY KickWellFormed DEF GroupKickMember
<1> HIDE DEF new, g
<1>7. LeadersOf(new) = LeadersOf(groups)
  BY <1>5, <1>6, LeaderUnchanged DEF LeadersOf
<1>8. /\ GroupsOf(new) = [GroupsOf(groups) EXCEPT ![n] = NoGroup]
      /\ OnlineOf(new) = OnlineOf(groups) \ {n}
  BY <1>5, <1>6, DepartureEffect
<1> QED BY <1>1, <1>3, <1>7, <1>8 DEF GroupKickMember, new, g

\* A character goes by itself.  If it led its group, one of those that stay leads
\* it now; if it had none, nothing has changed.
LEMMA DisbandLeaves ==
    ASSUME NEW groups, WellFormed(groups), NEW n \in Names
    PROVE  LET new == GroupDisband(groups, n)
               g == GroupOf(groups, n)
               in == InGroup(groups, g)
           IN  /\ GroupsOf(new) = [GroupsOf(groups) EXCEPT ![n] = NoGroup]
               /\ OnlineOf(new) = OnlineOf(groups) \ {n}
               /\ g = NoGroup => /\ n \notin OnlineOf(groups)
                                 /\ LeadersOf(new) = LeadersOf(groups)
               /\ g # NoGroup => /\ g \in GroupIds
                                 /\ LeaderOf(groups, g) # n => LeadersOf(new) = LeadersOf(groups)
                                 /\ LeaderOf(groups, g) = n =>
                                       \E heir \in IF in = {n} THEN {NoName} ELSE in \ {n} :
                                          LeadersOf(new) = [LeadersOf(groups) EXCEPT ![g] = heir]
<1> DEFINE g == GroupOf(groups, n)
           in == InGroup(groups, g)
           left == Erase(groups, n)
           new == GroupDisband(groups, n)
<1>1. groups \in Seq(GroupMember) /\ \A i \in DOMAIN groups : groups[i] \in GroupMember
  BY DEF WellFormed
<1>2. WellFormed(new)
  BY GroupDisbandWellFormed
<1>3. /\ left \in Seq(GroupMember) /\ OthersKept(groups, left, n)
      /\ \A k \in DOMAIN left : left[k].name # n
      /\ \A h : (\A i \in EntriesOf(groups, n) : groups[i].isLeader => groups[i].groupId # h)
                   => LeaderKept(groups, left, h)
  BY <1>1, EraseKeeps
<1>4. \A i \in EntriesOf(groups, n) : groups[i].groupId = g
  BY LookupProperties
<1>5. new = IF IsLeader(groups, n) THEN AssignLeader(left, g) ELSE left
  BY DEF GroupDisband
<1> HIDE DEF left, new, g, in
<1>6. OthersKept(groups, new, n)
  BY <1>3, <1>5, AssignLeaderKeeps
<1>7. \A k \in DOMAIN new : new[k].name # n
  <2>1. /\ DOMAIN AssignLeader(left, g) = DOMAIN left
        /\ \A k \in DOMAIN left : AssignLeader(left, g)[k].name = left[k].name
    <3>1. \A k \in DOMAIN left : left[k] \in GroupMember
      BY <1>3
    <3> QED BY <3>1 DEF AssignLeader, GroupMember
  <2> QED BY <1>3, <1>5, <2>1
<1>8. /\ GroupsOf(new) = [GroupsOf(groups) EXCEPT ![n] = NoGroup]
      /\ OnlineOf(new) = OnlineOf(groups) \ {n}
  BY <1>2, <1>6, <1>7, DepartureEffect
<1>9. ASSUME NEW h \in GroupIds, h # g \/ ~IsLeader(groups, n)
      PROVE  LeaderOf(new, h) = LeaderOf(groups, h)
  <2>1. LeaderKept(groups, left, h)
    BY <1>3, <1>4, <1>9, LookupProperties
  <2>2. LeaderKept(groups, new, h)
    BY <1>3, <1>5, <1>9, <2>1, AssignLeaderKeeps
  <2> QED BY <1>2, <2>2, LeaderUnchanged
<1>10. CASE g = NoGroup
  <2>1. ~IsLeader(groups, n)
    BY <1>10 DEF IsLeader, g
  <2>2. n \notin OnlineOf(groups)
    BY <1>10, GroupOfProperties DEF g
  <2>3. LeadersOf(new) = LeadersOf(groups)
    BY <1>9, <2>1 DEF LeadersOf
  <2> QED BY <1>8, <1>10, <2>2, <2>3 DEF new, g
<1>11. CASE g # NoGroup
  <2>1. g \in GroupIds
    <3>1. PICK i \in DOMAIN groups : groups[i].name = n
      BY <1>11, GroupOfProperties DEF g
    <3> QED BY <1>1, <3>1, GroupOfProperties DEF GroupMember, g
  <2>2. IsLeader(groups, n) <=> LeaderOf(groups, g) = n
    BY <1>11 DEF IsLeader, g
  <2>3. ASSUME LeaderOf(groups, g) # n
        PROVE  LeadersOf(new) = LeadersOf(groups)
    BY <1>9, <2>2, <2>3 DEF LeadersOf
  <2>4. ASSUME LeaderOf(groups, g) = n
        PROVE  \E heir \in IF in = {n} THEN {NoName} ELSE in \ {n} :
                  LeadersOf(new) = [LeadersOf(groups) EXCEPT ![g] = heir]
    <3>1. LeadersOf(new) = [LeadersOf(groups) EXCEPT ![g] = LeaderOf(new, g)]
      BY <1>9 DEF LeadersOf
    <3>2. n \in in
      BY DEF in, g, InGroup
    <3>3. InGroup(new, g) = in \ {n}
      BY <1>8, <2>1, GroupIdsAssumption DEF in, InGroup, GroupsOf
    <3>4. in \ {n} = {new[k].name : k \in MembersOf(new, g)}
      BY <1>2, <2>1, <3>3, MembersAreEntries
    <3>5. CASE in = {n}
      <4>1. MembersOf(new, g) = {}
        BY <3>4, <3>5
      <4> QED BY <1>2, <2>1, <3>1, <3>5, <4>1, LeaderOfProperties
    <3>6. CASE in # {n}
      <4>1. MembersOf(new, g) # {}
        BY <3>2, <3>4, <3>6
      <4>2. PICK k \in MembersOf(new, g) : new[k].isLeader
        BY <1>2, <2>1, <4>1, LeaderOfProperties
      <4>3. LeaderOf(new, g) = new[k].name /\ new[k].name \in in \ {n}
        BY <1>2, <2>1, <3>4, <4>2, LeaderOfProperties
      <4> QED BY <3>1, <3>6, <4>3
    <3> QED BY <3>5, <3>6
  <2> QED BY <1>8, <1>11, <2>1, <2>3, <2>4 DEF new, g, in
<1> QED BY <1>10, <1>11

\* Marking a character changes only whether a member is online.
LEMMA OnlineEffect ==
    ASSUME NEW groups, WellFormed(groups), NEW n \in Names, NEW online \in BOOLEAN
    PROVE  LET new == SetMemberOnline(groups, n, online)
           IN  /\ GroupsOf(new) = GroupsOf(groups)
               /\ LeadersOf(new) = LeadersOf(groups)
               /\ OnlineOf(new) = IF GroupOf(groups, n) # NoGroup /\ online
                                  THEN OnlineOf(groups) \cup {n} ELSE OnlineOf(groups) \ {n}
<1> DEFINE new == SetMemberOnline(groups, n, online)
<1>1. \A i \in DOMAIN groups : groups[i] \in GroupMember
  BY DEF WellFormed
<1>2. WellFormed(new) /\ DOMAIN new = DOMAIN groups
  BY SetMemberOnlineWellFormed DEF SetMemberOnline
<1>3. ASSUME NEW i \in DOMAIN groups
      PROVE  /\ new[i].name = groups[i].name /\ new[i].groupId = groups[i].groupId
             /\ new[i].isLeader = groups[i].isLeader
             /\ new[i].isOnline = IF groups[i].name = n THEN online ELSE groups[i].isOnline
  <2>1. groups[i].name = n <=> i \in EntriesOf(groups, n)
    BY DEF EntriesOf
  <2>2. new[i] = IF groups[i].name = n THEN [groups[i] EXCEPT !.isOnline = online] ELSE groups[i]
    BY <2>1, LookupProperties DEF SetMemberOnline
  <2> HIDE DEF new
  <2> QED BY <1>1, <2>2 DEF GroupMember
<1> HIDE DEF new
<1>4. OthersKept(groups, new, n) /\ \A g : LeaderKept(groups, new, g)
  BY <1>2, <1>3 DEF OthersKept, LeaderKept, MembersOf
<1>5. GroupOf(new, n) = GroupOf(groups, n) /\ (n \in OnlineOf(new) <=> GroupOf(groups, n) # NoGroup /\ online)
  <2>1. CASE \E i \in DOMAIN groups : groups[i].name = n
    <3>1. PICK i \in DOMAIN groups : groups[i].name = n
      BY <2>1
    <3>2. \A k \in DOMAIN new : new[k].name = n => k = i
      BY <1>2, <1>3, <3>1 DEF WellFormed, UniqueNames
    <3> QED BY <1>2, <1>3, <3>1, <3>2, GroupOfProperties
  <2>2. CASE ~\E i \in DOMAIN groups : groups[i].name = n
    BY <1>2, <1>3, <2>2, GroupOfProperties
  <2> QED BY <2>1, <2>2
<1>6. \A other \in Names : other # n =>
         /\ GroupOf(new, other) = GroupOf(groups, other)
         /\ other \in OnlineOf(new) <=> other \in OnlineOf(groups)
  BY <1>2, <1>4, OthersUnchanged
<1>7. GroupsOf(new) = GroupsOf(groups)
  BY <1>5, <1>6 DEF GroupsOf
<1>8. LeadersOf(new) = LeadersOf(groups)
  BY <1>2, <1>4, LeaderUnchanged DEF LeadersOf
<1>9. OnlineOf(new) = IF GroupOf(groups, n) # NoGroup /\ online
                      THEN OnlineOf(groups) \cup {n} ELSE OnlineOf(groups) \ {n}
  BY <1>5, <1>6 DEF OnlineOf
<1> QED BY <1>7, <1>8, <1>9 DEF new

-----------------------------------------------------------------------------

\* The same once more for one character: n is now in group g or in none, and
\* marked online or not; nothing is different for the others, and only the group
\* that n was in, or is in now, may have another leader.
Moved(groups, new, n, g, online) ==
    /\ WellFormed(new)
    /\ \A m \in Names :
          /\ GroupOf(new, m) = IF m = n THEN g ELSE GroupOf(groups, m)
          /\ m \in OnlineOf(new) <=> IF m = n THEN online ELSE m \in OnlineOf(groups)
    /\ \A h \in GroupIds : h \notin {g, GroupOf(groups, n)} => LeaderOf(new, h) = LeaderOf(groups, h)

\* What the registry's functions say at a point.
LEMMA ViewAtPoint ==
    ASSUME NEW groups
    PROVE  /\ \A m \in Names : GroupsOf(groups)[m] = GroupOf(groups, m)
           /\ \A g \in GroupIds : LeadersOf(groups)[g] = LeaderOf(groups, g)
  BY DEF GroupsOf, LeadersOf

\* Seen from the registry, setting the online flag of a name moves nobody.
LEMMA OnlineMoves ==
    ASSUME NEW groups, WellFormed(groups), NEW n \in Names, NEW online \in BOOLEAN
    PROVE  LET new == SetMemberOnline(groups, n, online)
               g == GroupOf(groups, n)
           IN  /\ Moved(groups, new, n, g, g # NoGroup /\ online)
               /\ \A h \in GroupIds : LeaderOf(new, h) = LeaderOf(groups, h)
<1> DEFINE new == SetMemberOnline(groups, n, online)
<1>1. /\ GroupsOf(new) = GroupsOf(groups) /\ LeadersOf(new) = LeadersOf(groups)
      /\ OnlineOf(new) = IF GroupOf(groups, n) # NoGroup /\ online
                         THEN OnlineOf(groups) \cup {n} ELSE OnlineOf(groups) \ {n}
  BY OnlineEffect
<1>2. WellFormed(new)
  BY SetMemberOnlineWellFormed
<1> HIDE DEF new
<1> QED BY <1>1, <1>2, ViewAtPoint DEF new, Moved

\* Seen from the registry, starting a group moves its founder and nobody else.
LEMMA StartMoves ==
    ASSUME NEW groups, WellFormed(groups), NEW n \in Names, GroupStartAccepted(groups, n),
           NEW g \in GroupIds \ GetUniqueGroupIds(groups)
    PROVE  LET new == GroupStartGroup(groups, n, g)
           IN  Moved(groups, new, n, g, TRUE) /\ MemberCount(new, g) = 1
<1> DEFINE new == GroupStartGroup(groups, n, g)
<1>1. /\ InGroup(groups, g) = {}
      /\ GroupsOf(new) = [GroupsOf(groups) EXCEPT ![n] = g]
      /\ LeadersOf(new) = [LeadersOf(groups) EXCEPT ![g] = n]
      /\ OnlineOf(new) = OnlineOf(groups) \cup {n}
  BY StartFounds
<1>2. WellFormed(new)
  BY StartWellFormed
<1> HIDE DEF new
<1>3. Moved(groups, new, n, g, TRUE)
  <2>1. /\ \A m \in Names : GroupOf(new, m) = IF m = n THEN g ELSE GroupOf(groups, m)
        /\ \A h \in GroupIds : LeaderOf(new, h) = IF h = g THEN n ELSE LeaderOf(groups, h)
    <3>1. \A m \in Names : GroupsOf(new)[m] = IF m = n THEN g ELSE GroupsOf(groups)[m]
      BY <1>1 DEF GroupsOf
    <3>2. \A h \in GroupIds : LeadersOf(new)[h] = IF h = g THEN n ELSE LeadersOf(groups)[h]
      BY <1>1 DEF LeadersOf
    <3> QED BY <3>1, <3>2, ViewAtPoint
  <2> QED BY <1>1, <1>2, <2>1 DEF Moved
<1>4. InGroup(new, g) = {n}
  BY <1>1, <1>3 DEF Moved, InGroup
<1> QED BY <1>2, <1>3, <1>4, MembersAreEntries, FS_Singleton DEF new

\* Seen from the registry, a join moves the one who joins and nobody else.
LEMMA JoinMoves ==
    ASSUME NEW groups, WellFormed(groups), NEW n \in Names, NEW leader \in Names,
           GroupJoinAccepted(groups, n, leader)
    PROVE  LET g == GroupOf(groups, leader)
           IN  g \in GroupIds /\ Moved(groups, GroupJoin(groups, n, leader), n, g, TRUE)
<1> DEFINE new == GroupJoin(groups, n, leader)
           g == GroupOf(groups, leader)
<1>1. /\ g \in GroupIds
      /\ GroupsOf(new) = [GroupsOf(groups) EXCEPT ![n] = g]
      /\ LeadersOf(new) = LeadersOf(groups)
      /\ OnlineOf(new) = OnlineOf(groups) \cup {n}
  BY JoinEnters
<1>2. WellFormed(new)
  BY JoinWellFormed
<1> HIDE DEF new, g
<1>3. \A m \in Names : GroupOf(new, m) = IF m = n THEN g ELSE GroupOf(groups, m)
  <2>1. \A m \in Names : GroupsOf(new)[m] = IF m = n THEN g ELSE GroupsOf(groups)[m]
    BY <1>1 DEF GroupsOf
  <2> QED BY <2>1, ViewAtPoint
<1> QED BY <1>1, <1>2, <1>3, ViewAtPoint DEF new, g, Moved

\* Seen from the registry, leaving moves the leaver and nobody else.
LEMMA DisbandMoves ==
    ASSUME NEW groups, WellFormed(groups), NEW n \in Names
    PROVE  Moved(groups, GroupDisband(groups, n), n, NoGroup, FALSE)
<1> DEFINE new == GroupDisband(groups, n)
           g == GroupOf(groups, n)
<1>1. /\ GroupsOf(new) = [GroupsOf(groups) EXCEPT ![n] = NoGroup]
      /\ OnlineOf(new) = OnlineOf(groups) \ {n}
      /\ g = NoGroup => LeadersOf(new) = LeadersOf(groups)
      /\ g # NoGroup =>
            /\ g \in GroupIds
            /\ LeaderOf(groups, g) # n => LeadersOf(new) = LeadersOf(groups)
            /\ LeaderOf(groups, g) = n =>
                  \E heir : LeadersOf(new) = [LeadersOf(groups) EXCEPT ![g] = heir]
  BY DisbandLeaves
<1>2. WellFormed(new)
  BY GroupDisbandWellFormed
<1> HIDE DEF new, g
<1>3. \A m \in Names : GroupOf(new, m) = IF m = n THEN NoGroup ELSE GroupOf(groups, m)
  <2>1. \A m \in Names : GroupsOf(new)[m] = IF m = n THEN NoGroup ELSE GroupsOf(groups)[m]
    BY <1>1 DEF GroupsOf
  <2> QED BY <2>1, ViewAtPoint
<1>4. \A h \in GroupIds : h # g => LeaderOf(new, h) = LeaderOf(groups, h)
  <2>1. \E heir : \A h \in GroupIds : h # g => LeadersOf(new)[h] = LeadersOf(groups)[h]
    BY <1>1 DEF LeadersOf
  <2> QED BY <2>1, ViewAtPoint
<1> QED BY <1>1, <1>2, <1>3, <1>4 DEF new, g, Moved

\* Two vectors with the same members of a group say the same of it.
LEMMA RosterOfView ==
    ASSUME NEW groups, WellFormed(groups), NEW new, WellFormed(new), NEW g \in GroupIds,
           LeaderOf(new, g) = LeaderOf(groups, g),
           \A n \in Names : /\ GroupOf(new, n) = g <=> GroupOf(groups, n) = g
                            /\ GroupOf(groups, n) = g => (n \in OnlineOf(new) <=> n \in OnlineOf(groups))
    PROVE  Roster(new, g) = Roster(groups, g) /\ MemberCount(new, g) = MemberCount(groups, g)
<1>1. InGroup(new, g) = InGroup(groups, g)
  BY DEF InGroup
<1>2. MemberCount(new, g) = MemberCount(groups, g)
  BY <1>1, MembersAreEntries
<1>3. ASSUME NEW some, WellFormed(some)
      PROVE  Roster(some, g) =
                [leaderName |-> LeaderOf(some, g),
                 members |-> {[name |-> n, isOnline |-> n \in OnlineOf(some)] : n \in InGroup(some, g)}]
  <2> DEFINE entry(i) == [name |-> some[i].name, isOnline |-> some[i].isOnline]
             seen(n) == [name |-> n, isOnline |-> n \in OnlineOf(some)]
  <2>1. InGroup(some, g) = {some[i].name : i \in MembersOf(some, g)}
    BY <1>3, MembersAreEntries
  <2>2. ASSUME NEW i \in MembersOf(some, g)
        PROVE  entry(i) = seen(some[i].name)
    <3>1. /\ i \in DOMAIN some /\ some[i] \in GroupMember
          /\ \A j \in DOMAIN some : some[j].name = some[i].name => j = i
      BY <1>3 DEF WellFormed, UniqueNames, MembersOf
    <3>2. some[i].name \in Names /\ some[i].isOnline \in BOOLEAN
      BY <3>1 DEF GroupMember
    <3>3. some[i].name \in OnlineOf(some) <=> some[i].isOnline
      BY <1>3, <3>1, <3>2, GroupOfProperties
    <3>4. (some[i].name \in OnlineOf(some)) = some[i].isOnline
      BY <3>2, <3>3
    <3> QED BY <3>4
  <2> HIDE DEF entry, seen
  <2>3. {entry(i) : i \in MembersOf(some, g)} = {seen(n) : n \in InGroup(some, g)}
    BY <2>1, <2>2
  <2> QED BY <2>3 DEF Roster, entry, seen
<1>4. {[name |-> n, isOnline |-> n \in OnlineOf(new)] : n \in InGroup(new, g)}
        = {[name |-> n, isOnline |-> n \in OnlineOf(groups)] : n \in InGroup(groups, g)}
  <2>1. \A n \in InGroup(groups, g) : (n \in OnlineOf(new)) = (n \in OnlineOf(groups))
    BY DEF InGroup
  <2> QED BY <1>1, <2>1
<1> QED BY <1>2, <1>3, <1>4

\* A character that is alone in its group leaves it and joins another, in one
\* command: the container accepts the second half whenever there is room.
LEMMA SoloMoves ==
    ASSUME NEW groups, WellFormed(groups), NEW n \in Names, NEW leader \in Names,
           GroupOf(groups, n) # NoGroup,
           MemberCount(groups, GroupOf(groups, n)) = 1,
           GroupOf(groups, leader) \notin {NoGroup, GroupOf(groups, n)},
           MemberCount(groups, GroupOf(groups, leader)) < MyMaxGroupMembers
    PROVE  LET own == GroupOf(groups, n)
               g == GroupOf(groups, leader)
               left == GroupDisband(groups, n)
               new == GroupJoin(left, n, leader)
           IN  /\ GroupJoinAccepted(left, n, leader)
               /\ GroupOf(left, leader) = g /\ g \in GroupIds /\ own \in GroupIds
               /\ InGroup(groups, own) = {n}
               /\ Moved(groups, new, n, g, TRUE)
               /\ \A h \in GroupIds : LeaderOf(new, h) = IF h = own THEN NoName ELSE LeaderOf(groups, h)
<1> DEFINE own == GroupOf(groups, n)
           g == GroupOf(groups, leader)
           left == GroupDisband(groups, n)
           new == GroupJoin(left, n, leader)
<1>1. own \in GroupIds /\ g \in GroupIds /\ leader # n /\ own # g
  BY LookupTypes
<1>2. Moved(groups, left, n, NoGroup, FALSE)
  BY DisbandMoves
<1>3. WellFormed(left) /\ GroupOf(left, leader) = g /\ GroupOf(left, n) = NoGroup
  BY <1>1, <1>2 DEF Moved
<1>4. MemberCount(left, g) = MemberCount(groups, g)
  <2> HIDE DEF own, g, left
  <2>1. LeaderOf(left, g) = LeaderOf(groups, g)
    BY <1>1, <1>2, GroupIdsAssumption DEF Moved, own
  <2>2. \A m \in Names : /\ GroupOf(left, m) = g <=> GroupOf(groups, m) = g
                         /\ GroupOf(groups, m) = g => (m \in OnlineOf(left) <=> m \in OnlineOf(groups))
    BY <1>1, <1>2, GroupIdsAssumption DEF Moved, own
  <2> QED BY <1>1, <1>3, <2>1, <2>2, RosterOfView
<1>5. GroupJoinAccepted(left, n, leader)
  BY <1>1, <1>3, <1>4 DEF GroupJoinAccepted
<1>6. InGroup(groups, own) = {n}
  <2>1. n \in InGroup(groups, own) /\ IsFiniteSet(InGroup(groups, own)) /\ Cardinality(InGroup(groups, own)) = 1
    BY <1>1, MembersAreEntries DEF InGroup
  <2> QED BY <2>1, FS_Singleton
<1>7. LeaderOf(groups, own) = n
  <2>1. MembersOf(groups, own) # {} /\ \A i \in MembersOf(groups, own) : groups[i].name = n
    BY <1>1, <1>6, MembersAreEntries
  <2> HIDE DEF own
  <2> QED BY <1>1, <2>1, LeaderOfProperties
<1>8. \A h \in GroupIds : LeaderOf(left, h) = IF h = own THEN NoName ELSE LeaderOf(groups, h)
  <2>1. LeadersOf(left) = [LeadersOf(groups) EXCEPT ![own] = NoName]
    BY <1>1, <1>6, <1>7, DisbandLeaves, GroupIdsAssumption
  <2> HIDE DEF left, own
  <2>2. \A h \in GroupIds : LeadersOf(left)[h] = IF h = own THEN NoName ELSE LeadersOf(groups)[h]
    BY <1>1, <2>1 DEF LeadersOf
  <2> QED BY <2>2, ViewAtPoint
<1> HIDE DEF left, own, g
<1>9. Moved(left, new, n, g, TRUE) /\ LeadersOf(new) = LeadersOf(left)
  BY <1>3, <1>5, JoinMoves, JoinEnters
<1> HIDE DEF new
<1>10. \A h \in GroupIds : LeaderOf(new, h) = LeaderOf(left, h)
  BY <1>9, ViewAtPoint
<1>11. Moved(groups, new, n, g, TRUE)
  BY <1>2, <1>8, <1>9, <1>10 DEF Moved, own
<1> QED BY <1>1, <1>3, <1>5, <1>6, <1>8, <1>10, <1>11 DEF left, own, g, new

=============================================================================
