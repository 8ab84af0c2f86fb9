----------------------------- MODULE RoomsProofs -----------------------------
(***************************************************************************)
(* What the rooms promise, proved for any accounts, courses, ids and       *)
(* capacities.  The type invariant is inductive by itself.  The counters   *)
(* are inductive with it, through one fact about leaving (RoomsLeftCount): *)
(* the table a leaver leaves counts exactly the others.                    *)
(***************************************************************************)
EXTENDS Rooms, FiniteSetTheorems, TLAPS

-----------------------------------------------------------------------------
(* Typing. *)

(* What a leaver leaves of the room table is a room table. *)
LEMMA RoomsLeftType ==
    ASSUME RoomsTypeOK, NEW a \in Account
    PROVE  RoomsLeft(a) \in [RoomId -> RoomRow]
<1>1. member[a].room \in RoomId \cup {NoRoom}
    BY DEF RoomsTypeOK, MemberRow
<1>2. \A r \in RoomId : room[r].players \in Nat /\ room[r].course \in Course \cup {NoCourse}
    BY DEF RoomsTypeOK, RoomRow
<1> QED
    BY <1>1, <1>2 DEF RoomsTypeOK, RoomsLeft, RoomRow, NoRoomRow, Open

(* Leaving a group either leaves the groups alone, ends the group, or      *)
(* takes one member off it and lets it keep or pass on its leader.         *)
LEMMA GroupsLeftCases ==
    ASSUME RoomsTypeOK, NEW a \in Account, NEW G \in GroupsLeft(a)
    PROVE  LET g == member[a].group
           IN  \/ /\ g = NoGroup \/ ~Exists(g)
                  /\ G = group
               \/ /\ g # NoGroup /\ Exists(g)
                  /\ group[g].members - 1 <= 0
                  /\ G = [group EXCEPT ![g] = NoGroupRow]
               \/ /\ g # NoGroup /\ Exists(g)
                  /\ group[g].members - 1 > 0
                  /\ \E l \in Account \cup {NoAccount} :
                        /\ IF group[g].leader = a /\ Heirs(a) # {}
                           THEN l \in Heirs(a) ELSE l = group[g].leader
                        /\ G = [group EXCEPT ![g] = Group(group[g].room, l, group[g].members - 1)]
<1> DEFINE g == member[a].group
<1> SUFFICES ASSUME g # NoGroup, Exists(g) PROVE
               \/ /\ group[g].members - 1 <= 0
                  /\ G = [group EXCEPT ![g] = NoGroupRow]
               \/ /\ group[g].members - 1 > 0
                  /\ \E l \in Account \cup {NoAccount} :
                        /\ IF group[g].leader = a /\ Heirs(a) # {}
                           THEN l \in Heirs(a) ELSE l = group[g].leader
                        /\ G = [group EXCEPT ![g] = Group(group[g].room, l, group[g].members - 1)]
    BY DEF GroupsLeft
<1>1. g \in GroupId /\ group[g] \in GroupRow
    BY DEF RoomsTypeOK, MemberRow
<1>2. group[g].members \in Int /\ group[g].leader \in Account \cup {NoAccount}
    BY <1>1, RoomsAssumption DEF GroupRow
<1>3. CASE group[g].members - 1 <= 0
    BY <1>3 DEF GroupsLeft
<1>4. CASE ~(group[g].members - 1 <= 0)
  <2> DEFINE next == IF group[g].leader = a /\ Heirs(a) # {} THEN Heirs(a) ELSE {group[g].leader}
  <2>1. PICK l \in next : G = [group EXCEPT ![g] = Group(@.room, l, @.members - 1)]
    BY <1>4 DEF GroupsLeft
  <2>2. l \in Account \cup {NoAccount}
    BY <1>2 DEF Heirs
  <2>3. IF group[g].leader = a /\ Heirs(a) # {} THEN l \in Heirs(a) ELSE l = group[g].leader
    OBVIOUS
  <2>4. G = [group EXCEPT ![g] = Group(group[g].room, l, group[g].members - 1)]
    BY <2>1
  <2>5. group[g].members - 1 > 0
    BY <1>2, <1>4
  <2> HIDE DEF next
  <2> QED
    BY <2>2, <2>3, <2>4, <2>5
<1> QED
    BY <1>3, <1>4

(* And so is each group table that leave_group_state may leave. *)
LEMMA GroupsLeftType ==
    ASSUME RoomsTypeOK, NEW a \in Account, NEW G \in GroupsLeft(a)
    PROVE  G \in [GroupId -> GroupRow]
<1> DEFINE g == member[a].group
<1>1. g \in GroupId \cup {NoGroup}
    BY DEF RoomsTypeOK, MemberRow
<1>2. \A h \in GroupId : /\ group[h].members \in 0..GroupCapacity
                         /\ group[h].room \in RoomId \cup {NoRoom}
    BY DEF RoomsTypeOK, GroupRow
<1>3. NoGroupRow \in GroupRow
    BY RoomsAssumption DEF NoGroupRow, Group, GroupRow
<1>4. ASSUME g # NoGroup, group[g].members - 1 > 0, NEW l \in Account \cup {NoAccount}
      PROVE  Group(group[g].room, l, group[g].members - 1) \in GroupRow
  <2>1. g \in GroupId
    BY <1>1, <1>4
  <2>2. group[g].members \in 0..GroupCapacity /\ group[g].room \in RoomId \cup {NoRoom}
    BY <1>2, <2>1
  <2>3. group[g].members - 1 > 0
    BY <1>4
  <2> HIDE DEF g
  <2>4. group[g].members - 1 \in 0..GroupCapacity
    BY <2>2, <2>3, RoomsAssumption
  <2> QED
    BY <2>2, <2>4 DEF GroupRow, Group
<1> QED
    BY <1>1, <1>3, <1>4, GroupsLeftCases DEF RoomsTypeOK

(* The type invariant holds of every reachable state, join_group's         *)
(* capacity included; it is inductive by itself.                           *)
THEOREM RoomsTyped == RoomsSpec => []RoomsTypeOK
<1>1. RoomsInit => RoomsTypeOK
    BY RoomsAssumption DEF RoomsInit, RoomsTypeOK, RoomRow, MemberRow, GroupRow,
        NoRoomRow, NoMemberRow, NoGroupRow, Group
<1>2. RoomsTypeOK /\ [RoomsNext]_roomVars => RoomsTypeOK'
  <2> SUFFICES ASSUME RoomsTypeOK, [RoomsNext]_roomVars PROVE RoomsTypeOK'
    OBVIOUS
  <2>1. ASSUME NEW a \in Account, NEW c \in Course, JoinCourse(a, c) PROVE RoomsTypeOK'
    <3>1. PICK r \in ChosenRooms(RoomsLeft(a), c) :
            /\ room' = [RoomsLeft(a) EXCEPT ![r] = [course |-> c, players |-> @.players + 1]]
            /\ member' = [member EXCEPT ![a] = [room |-> r, group |-> NoGroup]]
        BY <2>1 DEF JoinCourse
    <3>2. r \in RoomId
        BY DEF ChosenRooms, WithSpace
    <3>3. room' \in [RoomId -> RoomRow]
        BY <3>1, <3>2, RoomsLeftType DEF RoomRow
    <3>4. member' \in [Account -> MemberRow]
        BY <3>1, <3>2 DEF RoomsTypeOK, MemberRow
    <3>5. group' \in [GroupId -> GroupRow]
        BY <2>1, GroupsLeftType DEF JoinCourse
    <3> QED
        BY <2>1, <3>3, <3>4, <3>5 DEF JoinCourse, RoomsTypeOK
  <2>2. ASSUME NEW a \in Account, LeaveRoom(a) PROVE RoomsTypeOK'
    <3>1. room' \in [RoomId -> RoomRow] /\ group' \in [GroupId -> GroupRow]
        BY <2>2, RoomsLeftType, GroupsLeftType DEF LeaveRoom
    <3>2. member' \in [Account -> MemberRow]
        BY <2>2 DEF LeaveRoom, RoomsTypeOK, MemberRow, NoMemberRow
    <3> QED
        BY <2>2, <3>1, <3>2 DEF LeaveRoom, RoomsTypeOK
  <2>3. ASSUME NEW a \in Account, CreateGroup(a) PROVE RoomsTypeOK'
    <3>1. PICK g \in GroupId :
            /\ group' = [group EXCEPT ![g] = Group(member[a].room, a, 1)]
            /\ member' = [member EXCEPT ![a].group = g]
        BY <2>3 DEF CreateGroup
    <3>2. Group(member[a].room, a, 1) \in GroupRow
        BY RoomsAssumption DEF RoomsTypeOK, MemberRow, GroupRow, Group
    <3>3. group' \in [GroupId -> GroupRow]
        BY <3>1, <3>2 DEF RoomsTypeOK
    <3>4. member' \in [Account -> MemberRow]
        BY <3>1 DEF RoomsTypeOK, MemberRow
    <3> QED
        BY <2>3, <3>3, <3>4 DEF CreateGroup, RoomsTypeOK
  <2>4. ASSUME NEW a \in Account, NEW g \in GroupId, JoinGroup(a, g) PROVE RoomsTypeOK'
    <3>1. group[g].members + 1 \in 0..GroupCapacity
        BY <2>4, RoomsAssumption DEF RoomsTypeOK, GroupRow, JoinGroup
    <3>2. group' \in [GroupId -> GroupRow]
        BY <2>4, <3>1 DEF RoomsTypeOK, GroupRow, JoinGroup
    <3>3. member' \in [Account -> MemberRow]
        BY <2>4 DEF RoomsTypeOK, MemberRow, JoinGroup
    <3> QED
        BY <2>4, <3>2, <3>3 DEF JoinGroup, RoomsTypeOK
  <2>5. ASSUME NEW a \in Account, LeaveGroup(a) PROVE RoomsTypeOK'
    <3>1. group' \in [GroupId -> GroupRow]
        BY <2>5, GroupsLeftType DEF LeaveGroup
    <3>2. member' \in [Account -> MemberRow]
        BY <2>5 DEF LeaveGroup, RoomsTypeOK, MemberRow
    <3> QED
        BY <2>5, <3>1, <3>2 DEF LeaveGroup, RoomsTypeOK
  <2>6. CASE Republish
    BY <2>6 DEF Republish, RoomsTypeOK
  <2>7. CASE UNCHANGED roomVars
    BY <2>7 DEF roomVars, RoomsTypeOK
  <2> QED
    BY <2>1, <2>2, <2>3, <2>4, <2>5, <2>6, <2>7 DEF RoomsNext, GroupStep
<1> QED
    BY <1>1, <1>2, PTL DEF RoomsSpec

-----------------------------------------------------------------------------
(* Counting. *)

Others(a, r) == {b \in Account \ {a} : member[b].room = r}

(* Taking one player out of a room takes one off its count, if they were   *)
(* there.                                                                  *)
LEMMA OthersCount ==
    ASSUME RoomsTypeOK, NEW a \in Account, NEW r \in RoomId
    PROVE  /\ IsFiniteSet(Others(a, r)) /\ IsFiniteSet(Occupants(r))
           /\ Cardinality(Others(a, r)) \in Nat /\ Cardinality(Occupants(r)) \in Nat
           /\ Cardinality(Others(a, r)) = 0 <=> Others(a, r) = {}
           /\ Cardinality(Occupants(r)) = 0 <=> Occupants(r) = {}
           /\ Cardinality(Others(a, r) \cup {a}) = Cardinality(Others(a, r)) + 1
           /\ Cardinality(Occupants(r)) = IF member[a].room = r
                                          THEN Cardinality(Others(a, r)) + 1
                                          ELSE Cardinality(Others(a, r))
<1>1. IsFiniteSet(Account)
    BY RoomsAssumption
<1>2. IsFiniteSet(Others(a, r)) /\ IsFiniteSet(Occupants(r))
    BY <1>1, FS_Subset DEF Others, Occupants
<1>3. Occupants(r) = IF member[a].room = r THEN Others(a, r) \cup {a} ELSE Others(a, r)
    BY DEF Others, Occupants
<1>4. a \notin Others(a, r)
    BY DEF Others
<1>5. Cardinality(Others(a, r)) \in Nat /\ Cardinality(Occupants(r)) \in Nat
    BY <1>2, FS_CardinalityType
<1>6. Cardinality(Others(a, r)) = 0 <=> Others(a, r) = {}
    BY <1>2, FS_EmptySet
<1>7. Cardinality(Occupants(r)) = 0 <=> Occupants(r) = {}
    BY <1>2, FS_EmptySet
<1>8. Cardinality(Others(a, r) \cup {a}) = Cardinality(Others(a, r)) + 1
    BY <1>2, <1>4, FS_AddElement
<1> QED
    BY <1>2, <1>3, <1>5, <1>6, <1>7, <1>8

(* The room table a leaver leaves counts the others, and holds a room's    *)
(* course exactly while there are others in it.                            *)
LEMMA RoomsLeftCount ==
    ASSUME RoomsTypeOK, RoomsCountMembers, NEW a \in Account, NEW r \in RoomId
    PROVE  /\ RoomsLeft(a)[r].players = Cardinality(Others(a, r))
           /\ RoomsLeft(a)[r].players <= RoomCapacity
           /\ RoomsLeft(a)[r].course = IF Others(a, r) = {} THEN NoCourse ELSE room[r].course
<1>1. /\ room[r].players = Cardinality(Occupants(r))
      /\ Open(r) <=> Occupants(r) # {}
      /\ room[r].players <= RoomCapacity
    BY DEF RoomsCountMembers
<1>2. r # NoRoom /\ RoomCapacity \in Nat /\ RoomCapacity > 0
    BY RoomsAssumption DEF NoRoom
<1>3. CASE member[a].room # r
  <2>1. Occupants(r) = Others(a, r)
    BY <1>3 DEF Occupants, Others
  <2>2. RoomsLeft(a)[r] = room[r]
    BY <1>3 DEF RoomsLeft, RoomsTypeOK
  <2> QED
    BY <1>1, <2>1, <2>2 DEF Open
<1>4. CASE member[a].room = r
  <2>1. Open(r)
    BY <1>1, <1>4 DEF Occupants
  <2>2. room[r].players = Cardinality(Others(a, r)) + 1 /\ Cardinality(Others(a, r)) \in Nat
    BY <1>1, <1>4, OthersCount
  <2>3. Cardinality(Others(a, r)) = 0 <=> Others(a, r) = {}
    BY OthersCount
  <2>4. CASE Others(a, r) = {}
    <3>1. RoomsLeft(a) = [room EXCEPT ![r] = NoRoomRow]
      BY <1>2, <1>4, <2>1, <2>2, <2>3, <2>4 DEF RoomsLeft
    <3> QED
      BY <1>2, <2>3, <2>4, <3>1 DEF NoRoomRow, RoomsTypeOK
  <2>5. CASE Others(a, r) # {}
    <3>1. RoomsLeft(a) = [room EXCEPT ![r].players = @ - 1]
      BY <1>2, <1>4, <2>1, <2>2, <2>3, <2>5 DEF RoomsLeft
    <3>2. /\ RoomsLeft(a)[r].players = room[r].players - 1
          /\ RoomsLeft(a)[r].course = room[r].course
      BY <3>1 DEF RoomsTypeOK, RoomRow
    <3> QED
      BY <1>1, <1>2, <2>2, <2>5, <3>2
  <2> QED
    BY <2>4, <2>5
<1> QED
    BY <1>3, <1>4

(* The room a joiner gets has space without them, and is of their course   *)
(* or empty.                                                               *)
LEMMA ChosenHasSpace ==
    ASSUME RoomsTypeOK, RoomsCountMembers, NEW a \in Account, NEW c \in Course,
           NEW r \in ChosenRooms(RoomsLeft(a), c)
    PROVE  /\ r \in RoomId
           /\ RoomsLeft(a)[r].players < RoomCapacity
           /\ Others(a, r) # {} => room[r].course = c
<1>1. r \in RoomId
    BY DEF ChosenRooms, WithSpace
<1>2. CASE WithSpace(RoomsLeft(a), c) # {}
    BY <1>1, <1>2, RoomsLeftCount DEF ChosenRooms, WithSpace
<1>3. CASE WithSpace(RoomsLeft(a), c) = {}
  <2>1. RoomsLeft(a)[r].players = 0
    BY <1>3 DEF ChosenRooms, NoRoomRow
  <2>2. Cardinality(Others(a, r)) = 0
    BY <1>1, <2>1, RoomsLeftCount
  <2>3. Others(a, r) = {}
    BY <1>1, <2>2, OthersCount
  <2> QED
    BY <1>1, <2>1, <2>3, RoomsAssumption
<1> QED
    BY <1>2, <1>3

-----------------------------------------------------------------------------
(* Nobody but the caller of join_course or leave_room_state moves. *)
LEMMA JoinCounts ==
    ASSUME RoomsTypeOK, RoomsCountMembers, NEW a \in Account, NEW c \in Course, JoinCourse(a, c)
    PROVE  RoomsCountMembers'
<1>1. PICK r \in ChosenRooms(RoomsLeft(a), c) :
        /\ room' = [RoomsLeft(a) EXCEPT ![r] = [course |-> c, players |-> @.players + 1]]
        /\ member' = [member EXCEPT ![a] = [room |-> r, group |-> NoGroup]]
    BY DEF JoinCourse
<1>2. r \in RoomId /\ RoomsLeft(a)[r].players < RoomCapacity
    BY ChosenHasSpace
<1> SUFFICES ASSUME NEW s \in RoomId
             PROVE  /\ room'[s].players = Cardinality(Occupants(s)')
                    /\ room'[s].course # NoCourse <=> Occupants(s)' # {}
                    /\ room'[s].players <= RoomCapacity
    BY DEF RoomsCountMembers, Open
<1>3. RoomsLeft(a) \in [RoomId -> RoomRow]
    BY RoomsLeftType
<1>4. /\ RoomsLeft(a)[s].players = Cardinality(Others(a, s))
      /\ RoomsLeft(a)[s].players <= RoomCapacity
      /\ RoomsLeft(a)[s].course = IF Others(a, s) = {} THEN NoCourse ELSE room[s].course
    BY RoomsLeftCount
<1>5. Cardinality(Others(a, s)) \in Nat /\ RoomCapacity \in Nat /\ c # NoCourse
    BY OthersCount, RoomsAssumption
<1>6. CASE s = r
  <2>1. Occupants(s)' = Others(a, s) \cup {a}
    BY <1>1, <1>6 DEF Occupants, Others, RoomsTypeOK
  <2>2. room'[s].players = RoomsLeft(a)[s].players + 1 /\ room'[s].course = c
    BY <1>1, <1>2, <1>3, <1>6
  <2>3. Cardinality(Others(a, s) \cup {a}) = Cardinality(Others(a, s)) + 1
    BY OthersCount
  <2> QED
    BY <1>2, <1>4, <1>5, <1>6, <2>1, <2>2, <2>3
<1>7. CASE s # r
  <2>1. Occupants(s)' = Others(a, s)
    BY <1>1, <1>7 DEF Occupants, Others, RoomsTypeOK
  <2>2. room'[s] = RoomsLeft(a)[s]
    BY <1>1, <1>3, <1>7
  <2>3. Others(a, s) # {} => room[s].course # NoCourse
    BY DEF Others, Occupants, RoomsCountMembers, Open
  <2> QED
    BY <1>4, <2>1, <2>2, <2>3
<1> QED
    BY <1>6, <1>7

(* leave_room_state keeps the counts. *)
LEMMA LeaveCounts ==
    ASSUME RoomsTypeOK, RoomsCountMembers, NEW a \in Account, LeaveRoom(a)
    PROVE  RoomsCountMembers'
<1> SUFFICES ASSUME NEW s \in RoomId
             PROVE  /\ room'[s].players = Cardinality(Occupants(s)')
                    /\ room'[s].course # NoCourse <=> Occupants(s)' # {}
                    /\ room'[s].players <= RoomCapacity
    BY DEF RoomsCountMembers, Open
<1>1. s # NoRoom
    BY RoomsAssumption DEF NoRoom
<1>2. Occupants(s)' = Others(a, s)
    BY <1>1 DEF LeaveRoom, Occupants, Others, NoMemberRow, RoomsTypeOK
<1>3. room' = RoomsLeft(a)
    BY DEF LeaveRoom
<1>4. Others(a, s) # {} => room[s].course # NoCourse
    BY DEF Others, Occupants, RoomsCountMembers, Open
<1> QED
    BY <1>2, <1>3, <1>4, RoomsLeftCount

(* A group's steps move nobody between rooms. *)
LEMMA GroupStepStays ==
    ASSUME RoomsTypeOK, NEW a \in Account, GroupStep(a)
    PROVE  /\ room' = room
           /\ \A b \in Account : member'[b].room = member[b].room
<1>1. CASE CreateGroup(a)
    BY <1>1 DEF CreateGroup, RoomsTypeOK, MemberRow
<1>2. ASSUME NEW g \in GroupId, JoinGroup(a, g) 
      PROVE  room' = room /\ \A b \in Account : member'[b].room = member[b].room
    BY <1>2 DEF JoinGroup, RoomsTypeOK, MemberRow
<1>3. CASE LeaveGroup(a)
    BY <1>3 DEF LeaveGroup, RoomsTypeOK, MemberRow
<1> QED
    BY <1>1, <1>2, <1>3 DEF GroupStep

(* For any number of players, rooms and any capacity: player_count is the  *)
(* number of members, no open room is empty or over full, no member is in  *)
(* a closed room. Inductive with the type invariant.                       *)
THEOREM RoomsCounted == RoomsSpec => []RoomsCountMembers
<1>1. RoomsInit => RoomsCountMembers
  <2> SUFFICES ASSUME RoomsInit, NEW r \in RoomId
               PROVE  /\ room[r].players = Cardinality(Occupants(r))
                      /\ Open(r) <=> Occupants(r) # {}
                      /\ room[r].players <= RoomCapacity
    BY DEF RoomsCountMembers
  <2>1. Occupants(r) = {}
    BY RoomsAssumption DEF RoomsInit, Occupants, NoMemberRow, NoRoom
  <2> QED
    BY <2>1, FS_EmptySet, RoomsAssumption DEF RoomsInit, NoRoomRow, Open
<1>2. RoomsTypeOK /\ RoomsCountMembers /\ [RoomsNext]_roomVars => RoomsCountMembers'
  <2> SUFFICES ASSUME RoomsTypeOK, RoomsCountMembers, [RoomsNext]_roomVars
               PROVE  RoomsCountMembers'
    OBVIOUS
  <2>1. ASSUME room' = room, \A b \in Account : member'[b].room = member[b].room
        PROVE  RoomsCountMembers'
    BY <2>1 DEF RoomsCountMembers, Open, Occupants
  <2>2. ASSUME NEW a \in Account, NEW c \in Course, JoinCourse(a, c) PROVE RoomsCountMembers'
    BY <2>2, JoinCounts
  <2>3. ASSUME NEW a \in Account, LeaveRoom(a) PROVE RoomsCountMembers'
    BY <2>3, LeaveCounts
  <2>4. ASSUME NEW a \in Account, GroupStep(a) PROVE RoomsCountMembers'
    BY <2>1, <2>4, GroupStepStays
  <2>5. CASE Republish
    BY <2>1, <2>5 DEF Republish
  <2>6. CASE UNCHANGED roomVars
    BY <2>1, <2>6 DEF roomVars
  <2> QED
    BY <2>2, <2>3, <2>4, <2>5, <2>6 DEF RoomsNext
<1> QED
    BY <1>1, <1>2, RoomsTyped, PTL DEF RoomsSpec

-----------------------------------------------------------------------------
(* Groups. *)

GroupSound(g) ==
    /\ group[g].members = Cardinality(GroupOf(g))
    /\ Exists(g) <=> GroupOf(g) # {}
    /\ Exists(g) => /\ group[g].leader \in GroupOf(g)
                    /\ \A a \in GroupOf(g) : member[a].room = group[g].room

(* A group's members can be counted. *)
LEMMA GroupsFinite == \A g : IsFiniteSet(GroupOf(g))
    BY RoomsAssumption, FS_Subset DEF GroupOf

(* Leaving, wherever the leaver goes, keeps every group sound. *)
LEMMA GroupsLeftSound ==
    ASSUME RoomsTypeOK, GroupsSound, NEW a \in Account,
           group' \in GroupsLeft(a), member'[a].group = NoGroup,
           \A b \in Account \ {a} : member'[b] = member[b]
    PROVE  GroupsSound'
<1> DEFINE g == member[a].group
<1>1. g \in GroupId \cup {NoGroup}
    BY DEF RoomsTypeOK, MemberRow
<1> SUFFICES ASSUME NEW h \in GroupId PROVE GroupSound(h)'
    BY DEF GroupsSound, GroupSound
<1>2. GroupSound(h)
    BY DEF GroupsSound, GroupSound
<1>3. h # NoGroup
    BY RoomsAssumption DEF NoGroup
<1>4. GroupOf(h)' = GroupOf(h) \ {a}
    BY <1>3 DEF GroupOf
<1>5. CASE h # g
  <2>1. a \notin GroupOf(h) /\ GroupOf(h)' = GroupOf(h)
    BY <1>4, <1>5 DEF GroupOf
  <2>2. group'[h] = group[h]
    BY <1>5, GroupsLeftCases DEF RoomsTypeOK
  <2>3. \A b \in GroupOf(h) : member'[b] = member[b]
    BY <2>1 DEF GroupOf
  <2> QED
    BY <1>2, <2>1, <2>2, <2>3 DEF GroupSound, Exists
<1>6. CASE h = g
  <2>0. group[h].members \in Int
    BY RoomsAssumption DEF RoomsTypeOK, GroupRow
  <2>1. a \in GroupOf(h) /\ Exists(h) /\ g # NoGroup
    BY <1>2, <1>3, <1>6 DEF GroupOf, GroupSound
  <2>2. IsFiniteSet(GroupOf(h)) /\ IsFiniteSet(GroupOf(h)')
    BY <1>4, GroupsFinite, FS_RemoveElement
  <2>3. Cardinality(GroupOf(h)') = group[h].members - 1 /\ Cardinality(GroupOf(h)') \in Nat
    BY <1>2, <1>4, <2>1, <2>2, FS_RemoveElement, FS_CardinalityType DEF GroupSound
  <2>4. Cardinality(GroupOf(h)') = 0 <=> GroupOf(h)' = {}
    BY <2>2, FS_EmptySet
  <2>5. CASE group[h].members - 1 <= 0
    <3>1. group'[h] = NoGroupRow
      BY <1>6, <2>0, <2>1, <2>5, GroupsLeftCases DEF RoomsTypeOK
    <3>2. Cardinality(GroupOf(h)') = 0
      BY <2>0, <2>3, <2>5
    <3>3. GroupOf(h)' = {}
      BY <2>4, <3>2
    <3>4. group'[h].members = 0 /\ group'[h].room = NoRoom
      BY <3>1 DEF NoGroupRow, Group
    <3> QED
      BY <3>2, <3>3, <3>4 DEF GroupSound, Exists
  <2>6. CASE group[h].members - 1 > 0
    <3>1. PICK l \in Account \cup {NoAccount} :
            /\ IF group[h].leader = a /\ Heirs(a) # {} THEN l \in Heirs(a) ELSE l = group[h].leader
            /\ group' = [group EXCEPT ![h] = Group(group[h].room, l, group[h].members - 1)]
      BY <1>6, <2>0, <2>1, <2>6, GroupsLeftCases
    <3>2. Heirs(a) = GroupOf(h)'
      BY <1>2, <1>4, <1>6, <2>1 DEF Heirs, GroupOf, GroupSound
    <3>3. GroupOf(h)' # {}
      BY <2>3, <2>4, <2>6
    <3>4. l \in GroupOf(h)'
      BY <1>2, <1>4, <2>1, <3>1, <3>2, <3>3 DEF GroupSound
    <3>5. group'[h] = Group(group[h].room, l, group[h].members - 1)
      BY <3>1 DEF RoomsTypeOK
    <3>6. \A b \in GroupOf(h)' : member'[b].room = group[h].room
      BY <1>2, <1>4, <2>1 DEF GroupSound, GroupOf
    <3> QED
      BY <2>1, <2>3, <3>3, <3>4, <3>5, <3>6 DEF GroupSound, Exists, Group
  <2> QED
    BY <2>0, <2>5, <2>6
<1> QED
    BY <1>5, <1>6

(* A member joining an existing group of their room, or starting one. *)
LEMMA JoinGroupSound ==
    ASSUME RoomsTypeOK, GroupsSound, NEW a \in Account, NEW g \in GroupId, JoinGroup(a, g)
    PROVE  GroupsSound'
<1> SUFFICES ASSUME NEW h \in GroupId PROVE GroupSound(h)'
    BY DEF GroupsSound, GroupSound
<1>1. GroupSound(h) /\ h # NoGroup
    BY RoomsAssumption DEF GroupsSound, GroupSound, NoGroup
<1>2. member[a].group = NoGroup /\ \A b \in Account : member'[b].room = member[b].room
    BY DEF JoinGroup, RoomsTypeOK, MemberRow
<1>3. CASE h # g
  <2>1. GroupOf(h)' = GroupOf(h) /\ group'[h] = group[h]
    BY <1>1, <1>2, <1>3 DEF JoinGroup, GroupOf, RoomsTypeOK, MemberRow
  <2>2. GroupOf(h) \subseteq Account
    BY DEF GroupOf
  <2> QED
    BY <1>1, <1>2, <2>1, <2>2 DEF GroupSound, Exists
<1>4. CASE h = g
  <2>1. GroupOf(h)' = GroupOf(h) \cup {a} /\ a \notin GroupOf(h)
    BY <1>1, <1>2, <1>4 DEF JoinGroup, GroupOf, RoomsTypeOK, MemberRow
  <2>2. /\ group'[h].members = group[h].members + 1
        /\ group'[h].leader = group[h].leader
        /\ group'[h].room = group[h].room
    BY <1>4 DEF JoinGroup, RoomsTypeOK, GroupRow
  <2>3. Cardinality(GroupOf(h)') = Cardinality(GroupOf(h)) + 1
    BY <2>1, GroupsFinite, FS_AddElement
  <2>4. Exists(h) /\ group[h].room = member[a].room
    BY <1>4 DEF JoinGroup
  <2> QED
    BY <1>1, <1>2, <2>1, <2>2, <2>3, <2>4 DEF GroupSound, Exists, GroupOf
<1> QED
    BY <1>3, <1>4

(* create_group on a free id starts a sound group of one. *)
LEMMA CreateGroupSound ==
    ASSUME RoomsTypeOK, GroupsSound, NEW a \in Account, CreateGroup(a)
    PROVE  GroupsSound'
<1>1. PICK g \in GroupId :
        /\ ~Exists(g)
        /\ group' = [group EXCEPT ![g] = Group(member[a].room, a, 1)]
        /\ member' = [member EXCEPT ![a].group = g]
    BY DEF CreateGroup
<1> SUFFICES ASSUME NEW h \in GroupId PROVE GroupSound(h)'
    BY DEF GroupsSound, GroupSound
<1>2. GroupSound(h) /\ h # NoGroup
    BY RoomsAssumption DEF GroupsSound, GroupSound, NoGroup
<1>3. /\ member[a].group = NoGroup /\ member[a].room # NoRoom
      /\ \A b \in Account : member'[b].room = member[b].room
    BY <1>1 DEF CreateGroup, Present, RoomsTypeOK, MemberRow
<1>4. CASE h # g
  <2>1. GroupOf(h)' = GroupOf(h) /\ group'[h] = group[h]
    BY <1>1, <1>2, <1>3, <1>4 DEF GroupOf, RoomsTypeOK, MemberRow
  <2>2. GroupOf(h) \subseteq Account
    BY DEF GroupOf
  <2> QED
    BY <1>2, <1>3, <2>1, <2>2 DEF GroupSound, Exists
<1>5. CASE h = g
  <2>1. GroupOf(h)' = {a}
    BY <1>1, <1>2, <1>3, <1>5 DEF GroupOf, GroupSound, RoomsTypeOK, MemberRow
  <2>2. group'[h] = Group(member[a].room, a, 1)
    BY <1>1, <1>5 DEF RoomsTypeOK
  <2>3. Cardinality(GroupOf(h)') = 1
    BY <2>1, FS_Singleton
  <2>4. /\ group'[h].room = member[a].room
        /\ group'[h].leader = a
        /\ group'[h].members = 1
    BY <2>2 DEF Group
  <2>5. GroupOf(h)' # {} /\ a \in GroupOf(h)'
    BY <2>1
  <2>6. \A b \in GroupOf(h)' : member'[b].room = group'[h].room
    BY <1>3, <2>1, <2>4
  <2> QED
    BY <1>3, <2>3, <2>4, <2>5, <2>6 DEF GroupSound, Exists
<1> QED
    BY <1>4, <1>5

(* A join or a leaving of the room is, for the groups, a leaving. *)
LEMMA Leavers ==
    ASSUME RoomsTypeOK, NEW a \in Account,
           \/ \E c \in Course : JoinCourse(a, c)
           \/ LeaveRoom(a)
           \/ LeaveGroup(a)
    PROVE  /\ group' \in GroupsLeft(a)
           /\ member'[a].group = NoGroup
           /\ \A b \in Account \ {a} : member'[b] = member[b]
BY DEF JoinCourse, LeaveRoom, LeaveGroup, RoomsTypeOK, MemberRow, NoMemberRow

(* Every group's count, leader and room agree with its members' rows,      *)
(* through every order of joining, leaving and being put out.              *)
THEOREM GroupsStaySound == RoomsSpec => []GroupsSound
<1>1. RoomsInit => GroupsSound
  <2> SUFFICES ASSUME RoomsInit, NEW g \in GroupId PROVE GroupSound(g)
    BY DEF GroupsSound, GroupSound
  <2>1. GroupOf(g) = {} /\ group[g] = NoGroupRow
    BY RoomsAssumption DEF RoomsInit, GroupOf, NoMemberRow, NoGroup
  <2> QED
    BY <2>1, FS_EmptySet DEF GroupSound, Exists, NoGroupRow, Group
<1>2. RoomsTypeOK /\ GroupsSound /\ [RoomsNext]_roomVars => GroupsSound'
  <2> SUFFICES ASSUME RoomsTypeOK, GroupsSound, [RoomsNext]_roomVars PROVE GroupsSound'
    OBVIOUS
  <2>1. ASSUME NEW a \in Account,
               (\E c \in Course : JoinCourse(a, c)) \/ LeaveRoom(a) \/ LeaveGroup(a)
        PROVE  GroupsSound'
    BY <2>1, Leavers, GroupsLeftSound
  <2>2. ASSUME NEW a \in Account, CreateGroup(a) PROVE GroupsSound'
    BY <2>2, CreateGroupSound
  <2>3. ASSUME NEW a \in Account, NEW g \in GroupId, JoinGroup(a, g) PROVE GroupsSound'
    BY <2>3, JoinGroupSound
  <2>4. CASE Republish \/ UNCHANGED roomVars
    BY <2>4 DEF Republish, roomVars, GroupsSound, Exists, GroupOf
  <2> QED
    BY <2>1, <2>2, <2>3, <2>4 DEF RoomsNext, GroupStep
<1> QED
    BY <1>1, <1>2, RoomsTyped, PTL DEF RoomsSpec

-----------------------------------------------------------------------------
(* What a step may not do. *)

(* No step hands a group on but its leader's own leaving. *)
THEOREM LeadersKeepGroups == RoomsSpec => LeaderKeepsGroup
<1> DEFINE Kept == \A g \in GroupId :
                      Exists(g) /\ Exists(g)' /\ group[g].leader # group'[g].leader
                      => member'[group[g].leader].group # g
<1>1. RoomsTypeOK /\ [RoomsNext]_roomVars => [Kept]_roomVars
  <2> SUFFICES ASSUME RoomsTypeOK, RoomsNext,
                      NEW g \in GroupId, Exists(g), Exists(g)', group[g].leader # group'[g].leader
               PROVE  member'[group[g].leader].group # g
    OBVIOUS
  <2>1. g # NoGroup
    BY RoomsAssumption DEF NoGroup
  <2>2. ASSUME NEW a \in Account,
               (\E c \in Course : JoinCourse(a, c)) \/ LeaveRoom(a) \/ LeaveGroup(a)
        PROVE  member'[group[g].leader].group # g
    <3>1. group' \in GroupsLeft(a) /\ member'[a].group = NoGroup
      BY <2>2, Leavers
    <3>2. g = member[a].group /\ group[g].leader = a
      <4> DEFINE h == member[a].group
      <4>1. g = h
        BY <3>1, GroupsLeftCases DEF RoomsTypeOK
      <4>2. CASE group[h].members - 1 <= 0 /\ group' = [group EXCEPT ![h] = NoGroupRow]
        BY <4>1, <4>2 DEF RoomsTypeOK, Exists, NoGroupRow, Group
      <4>3. ASSUME NEW l,
                   IF group[h].leader = a /\ Heirs(a) # {}
                   THEN l \in Heirs(a) ELSE l = group[h].leader,
                   group' = [group EXCEPT ![h] = Group(group[h].room, l, group[h].members - 1)]
            PROVE  group[g].leader = a
        <5>1. group'[g].leader = l
          BY <4>1, <4>3 DEF RoomsTypeOK, Group
        <5> QED
          BY <4>1, <4>3, <5>1
      <4> QED
        BY <3>1, <4>1, <4>2, <4>3, GroupsLeftCases
    <3> QED
      BY <2>1, <3>1, <3>2
  <2>3. ASSUME NEW a \in Account, CreateGroup(a) PROVE FALSE
    BY <2>3 DEF CreateGroup, RoomsTypeOK
  <2>4. ASSUME NEW a \in Account, NEW h \in GroupId, JoinGroup(a, h) PROVE FALSE
    BY <2>4 DEF JoinGroup, RoomsTypeOK, GroupRow
  <2>5. CASE Republish
    BY <2>5 DEF Republish
  <2> QED
    BY <2>2, <2>3, <2>4, <2>5 DEF RoomsNext, GroupStep
<1> QED
    BY <1>1, RoomsTyped, PTL DEF RoomsSpec, LeaderKeepsGroup

(* A room opens only when every other room of the course is full, as       *)
(* join_course sees them with the caller already out.                      *)
THEOREM RoomsFill == RoomsSpec => RoomsFillBeforeNewOnesOpen
<1> DEFINE Filled == \A r, s \in RoomId :
                        /\ ~Open(r) /\ Open(r)'
                        /\ r # s /\ room'[s].course = room'[r].course
                        => room'[s].players >= RoomCapacity
<1>1. RoomsTypeOK /\ RoomsCountMembers /\ [RoomsNext]_roomVars => [Filled]_roomVars
  <2> SUFFICES ASSUME RoomsTypeOK, RoomsCountMembers, RoomsNext,
                      NEW r \in RoomId, NEW s \in RoomId,
                      ~Open(r), Open(r)', r # s, room'[s].course = room'[r].course
               PROVE  room'[s].players >= RoomCapacity
    OBVIOUS
  <2>1. ASSUME NEW a \in Account, NEW c \in Course, JoinCourse(a, c)
        PROVE  room'[s].players >= RoomCapacity
    <3>1. PICK q \in ChosenRooms(RoomsLeft(a), c) :
            room' = [RoomsLeft(a) EXCEPT ![q] = [course |-> c, players |-> @.players + 1]]
      BY <2>1 DEF JoinCourse
    <3>2. q \in RoomId /\ RoomsLeft(a) \in [RoomId -> RoomRow]
      BY RoomsLeftType DEF ChosenRooms, WithSpace
    <3>3. RoomsLeft(a)[r].course = NoCourse
      BY RoomsLeftCount DEF Open
    <3>4. q = r
      BY <3>1, <3>2, <3>3 DEF Open
    <3>5. r \notin WithSpace(RoomsLeft(a), c)
      BY <3>3, RoomsAssumption DEF WithSpace
    <3>6. WithSpace(RoomsLeft(a), c) = {}
      BY <3>4, <3>5 DEF ChosenRooms
    <3>7. room'[s] = RoomsLeft(a)[s] /\ room'[r].course = c
      BY <3>1, <3>2, <3>4
    <3>8. ~(RoomsLeft(a)[s].players < RoomCapacity)
      BY <3>6, <3>7 DEF WithSpace
    <3>9. RoomsLeft(a)[s].players \in Nat /\ RoomCapacity \in Nat
      BY <3>2, RoomsAssumption DEF RoomRow
    <3> QED
      BY <3>7, <3>8, <3>9
  <2>2. ASSUME NEW a \in Account, LeaveRoom(a) PROVE FALSE
    BY <2>2, RoomsLeftCount DEF LeaveRoom, Open
  <2>3. ASSUME NEW a \in Account, GroupStep(a) PROVE FALSE
    BY <2>3, GroupStepStays DEF Open
  <2>4. CASE Republish
    BY <2>4 DEF Republish, Open
  <2> QED
    BY <2>1, <2>2, <2>3, <2>4 DEF RoomsNext
<1> QED
    BY <1>1, RoomsTyped, RoomsCounted, PTL DEF RoomsSpec, RoomsFillBeforeNewOnesOpen

-----------------------------------------------------------------------------
(* The rows implement the lobby. *)

(* The instance counts with the same Cardinality. *)
LEMMA SameCardinality == \A S : Seats!Cardinality(S) = Cardinality(S)
    BY DEF Seats!Cardinality, Cardinality

(* join_course is the lobby's Enter: the chosen room has space by the      *)
(* players really in it.                                                   *)
LEMMA JoinEnters ==
    ASSUME RoomsTypeOK, RoomsCountMembers, NEW a \in Account, NEW c \in Course, JoinCourse(a, c)
    PROVE  \E r \in RoomId : Seats!Enter(a, c, r)
<1>1. PICK r \in ChosenRooms(RoomsLeft(a), c) :
        /\ room' = [RoomsLeft(a) EXCEPT ![r] = [course |-> c, players |-> @.players + 1]]
        /\ member' = [member EXCEPT ![a] = [room |-> r, group |-> NoGroup]]
    BY DEF JoinCourse
<1>2. /\ r \in RoomId
      /\ RoomsLeft(a)[r].players < RoomCapacity
      /\ Others(a, r) # {} => room[r].course = c
    BY ChosenHasSpace
<1>3. RoomsLeft(a) \in [RoomId -> RoomRow]
    BY RoomsLeftType
<1>4. \A s \in RoomId : Seats!Others(a, s) = Others(a, s)
    BY DEF Seats!Others, Others
<1>5. Cardinality(Seats!Others(a, r)) < RoomCapacity
    BY <1>2, <1>4, RoomsLeftCount
<1>6. [b \in Account |-> member'[b].room] = [[b \in Account |-> member[b].room] EXCEPT ![a] = r]
    BY <1>1 DEF RoomsTypeOK
<1>7. [s \in RoomId |-> room'[s].course] = [Seats!Closing(a) EXCEPT ![r] = c]
    BY <1>1, <1>2, <1>3, <1>4, RoomsLeftCount DEF Seats!Closing
<1> QED
    BY <1>2, <1>4, <1>5, <1>6, <1>7, SameCardinality DEF Seats!Enter

(* leave_room_state is the lobby's Leave. *)
LEMMA LeaveLeaves ==
    ASSUME RoomsTypeOK, RoomsCountMembers, NEW a \in Account, LeaveRoom(a)
    PROVE  Seats!Leave(a)
<1>1. \A s \in RoomId : Seats!Others(a, s) = Others(a, s)
    BY DEF Seats!Others, Others
<1>2. [b \in Account |-> member'[b].room] = [[b \in Account |-> member[b].room] EXCEPT ![a] = 0]
    BY DEF LeaveRoom, RoomsTypeOK, NoMemberRow, NoRoom
<1>3. [s \in RoomId |-> room'[s].course] = Seats!Closing(a)
    BY <1>1, RoomsLeftCount DEF LeaveRoom, Seats!Closing
<1> QED
    BY <1>2, <1>3 DEF Seats!Leave, LeaveRoom, NoRoom

(* The counted tables implement the lobby of sets: initial states map to   *)
(* initial states and every step to a move of one player or a stutter.     *)
THEOREM RoomsImplementLobby == RoomsSpec => ImplementsLobby
<1>1. RoomsInit => Seats!LobbyInit
    BY DEF RoomsInit, Seats!LobbyInit, NoMemberRow, NoRoomRow, NoRoom
<1>2. RoomsTypeOK /\ RoomsCountMembers /\ [RoomsNext]_roomVars => [Seats!LobbyNext]_(Seats!lobbyVars)
  <2> SUFFICES ASSUME RoomsTypeOK, RoomsCountMembers, [RoomsNext]_roomVars
               PROVE  [Seats!LobbyNext]_(Seats!lobbyVars)
    OBVIOUS
  <2>1. ASSUME NEW a \in Account, NEW c \in Course, JoinCourse(a, c) PROVE Seats!LobbyNext
    BY <2>1, JoinEnters DEF Seats!LobbyNext
  <2>2. ASSUME NEW a \in Account, LeaveRoom(a) PROVE Seats!LobbyNext
    BY <2>2, LeaveLeaves DEF Seats!LobbyNext
  <2>3. ASSUME NEW a \in Account, GroupStep(a) PROVE UNCHANGED Seats!lobbyVars
    BY <2>3, GroupStepStays DEF Seats!lobbyVars
  <2>4. CASE Republish \/ UNCHANGED roomVars
    BY <2>4 DEF Republish, roomVars, Seats!lobbyVars
  <2> QED
    BY <2>1, <2>2, <2>3, <2>4 DEF RoomsNext
<1> QED
    BY <1>1, <1>2, RoomsTyped, RoomsCounted, PTL DEF RoomsSpec, ImplementsLobby, Seats!LobbySpec

=============================================================================
