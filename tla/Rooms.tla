------------------------------- MODULE Rooms -------------------------------
(***************************************************************************)
(* The rooms and golf groups of the server module (lib.cpp): the tables    *)
(* room, room_member and golf_group, and every reducer that writes them.   *)
(* A reducer is one transaction, so it is one action; a call that the code *)
(* refuses with Err leaves every row as it was and is no step.             *)
(*                                                                         *)
(* Who may call at all (the session, the name) is decided in Accounts; the *)
(* positions that gate some calls are left out, so a call within reach is  *)
(* always possible here.                                                   *)
(***************************************************************************)
EXTENDS Integers, FiniteSets

CONSTANTS
    Account,        \* players' accounts
    Course,         \* courses a module's content may have
    RoomId,         \* ids of rooms
    GroupId,        \* ids of golf groups
    NoAccount,      \* account id 0: nobody
    NoCourse,       \* the course of a room that is not in the table
    RoomCapacity,   \* tuning server.room_capacity
    GroupCapacity   \* tuning server.group_capacity

ASSUME RoomsAssumption ==
    /\ IsFiniteSet(Account)
    /\ NoAccount \notin Account
    /\ NoCourse \notin Course
    /\ RoomId \subseteq Nat \ {0}
    /\ GroupId \subseteq Nat \ {0}
    /\ RoomCapacity \in Nat \ {0}
    /\ GroupCapacity \in Nat \ {0}

VARIABLES
    content,    \* the courses of the published content (module_cache)
    room,       \* table room, by id
    member,     \* table room_member, by account
    group       \* table golf_group, by id

roomVars == <<content, room, member, group>>

-----------------------------------------------------------------------------
(* Rows.  A key with no row holds the row of all zeroes. *)

NoRoom == 0
NoGroup == 0
NoRoomRow == [course |-> NoCourse, players |-> 0]
NoMemberRow == [room |-> NoRoom, group |-> NoGroup]
Group(r, l, n) == [room |-> r, leader |-> l, members |-> n]
NoGroupRow == Group(NoRoom, NoAccount, 0)

RoomRow == [course : Course \cup {NoCourse}, players : Nat]
MemberRow == [room : RoomId \cup {NoRoom}, group : GroupId \cup {NoGroup}]
GroupRow ==
    [room : RoomId \cup {NoRoom}, leader : Account \cup {NoAccount}, members : 0..GroupCapacity]

Open(r) == room[r].course # NoCourse
Exists(g) == group[g].room # NoRoom
Occupants(r) == {a \in Account : member[a].room = r}
GroupOf(g) == {a \in Account : member[a].group = g}

(* The room's course is in the content: a republish may have dropped it. *)
CourseKnown(a) == room[member[a].room].course \in content

(* caller_member: the caller is in a room whose course is still known. *)
Present(a) == member[a].room # NoRoom /\ CourseKnown(a)

-----------------------------------------------------------------------------
(* leave_group_state: the group tables that may result when a leaves its   *)
(* group.  A leader's place goes to some other member of the group in the  *)
(* room, whichever the index yields first.                                 *)

GroupsLeftLeaderStays(a) ==
    LET g == member[a].group
    IN  IF g = NoGroup \/ ~Exists(g) THEN {group}
        ELSE IF group[g].members - 1 <= 0
             THEN {[group EXCEPT ![g] = NoGroupRow]}
             ELSE {[group EXCEPT ![g].members = @ - 1]}

Heirs(a) ==
    {b \in Account \ {a} : /\ member[b].room = member[a].room
                           /\ member[b].group = member[a].group}

GroupsLeft(a) ==
    LET g == member[a].group
        next == IF group[g].leader = a /\ Heirs(a) # {}
                THEN Heirs(a) ELSE {group[g].leader}
    IN  IF g = NoGroup \/ ~Exists(g) THEN {group}
        ELSE IF group[g].members - 1 <= 0
             THEN {[group EXCEPT ![g] = NoGroupRow]}
             ELSE {[group EXCEPT ![g] = Group(@.room, l, @.members - 1)] : l \in next}

(* leave_room_state: the room table once a is out; an empty room closes. *)
RoomsLeftOpen(a) ==
    IF member[a].room = NoRoom \/ ~Open(member[a].room) THEN room
    ELSE [room EXCEPT ![member[a].room].players = @ - 1]

RoomsLeft(a) ==
    LET r == member[a].room
    IN  IF r = NoRoom \/ ~Open(r) THEN room
        ELSE IF room[r].players - 1 <= 0 THEN [room EXCEPT ![r] = NoRoomRow]
        ELSE [room EXCEPT ![r].players = @ - 1]

(* choose_room: the fullest room of the course with space, the oldest      *)
(* (lowest id) among equals; none when every room is full.                 *)
WithSpaceOverfull(rooms, c) ==
    {r \in RoomId : rooms[r].course = c /\ rooms[r].players <= RoomCapacity}

WithSpace(rooms, c) ==
    {r \in RoomId : rooms[r].course = c /\ rooms[r].players < RoomCapacity}

Fuller(rooms, r, s) ==
    \/ rooms[r].players > rooms[s].players
    \/ rooms[r].players = rooms[s].players /\ r < s

ChosenAny(rooms, c) == {r \in RoomId : rooms[r] = NoRoomRow}

(* The room a joiner of c gets: the chosen one, else a new row.  An insert *)
(* draws a fresh id; ids of closed rooms are drawn again here, because no  *)
(* row outlives its room (RoomsCountMembers, GroupsSound).                 *)
ChosenRooms(rooms, c) ==
    IF WithSpace(rooms, c) # {}
    THEN {r \in WithSpace(rooms, c) : \A s \in WithSpace(rooms, c) \ {r} : Fuller(rooms, r, s)}
    ELSE {r \in RoomId : rooms[r] = NoRoomRow}

-----------------------------------------------------------------------------
(* The reducers. *)

(* join_course: out of any room first, then into the chosen one. *)
JoinCourse(a, c) ==
    /\ c \in content
    /\ group' \in GroupsLeft(a)
    /\ \E r \in ChosenRooms(RoomsLeft(a), c) :
          /\ room' = [RoomsLeft(a) EXCEPT ![r] = [course |-> c, players |-> @.players + 1]]
          /\ member' = [member EXCEPT ![a] = [room |-> r, group |-> NoGroup]]
    /\ UNCHANGED content

(* leave_room_state: for leave_room, a disconnect, a newer session, a      *)
(* deleted account, a redeemed link code, and any reducer of a member      *)
(* whose course is gone (caller_member's sent_out).                        *)
LeaveRoom(a) ==
    /\ member[a].room # NoRoom
    /\ group' \in GroupsLeft(a)
    /\ member' = [member EXCEPT ![a] = NoMemberRow]
    /\ room' = RoomsLeft(a)
    /\ UNCHANGED content

CreateGroup(a) ==
    /\ Present(a)
    /\ member[a].group = NoGroup
    /\ \E g \in GroupId :
          /\ ~Exists(g)
          /\ group' = [group EXCEPT ![g] = Group(member[a].room, a, 1)]
          /\ member' = [member EXCEPT ![a].group = g]
    /\ UNCHANGED <<content, room>>

JoinGroupOverfull(a, g) ==
    /\ Present(a)
    /\ member[a].group = NoGroup
    /\ Exists(g)
    /\ group[g].room = member[a].room
    /\ group' = [group EXCEPT ![g].members = @ + 1]
    /\ member' = [member EXCEPT ![a].group = g]
    /\ UNCHANGED <<content, room>>

JoinGroup(a, g) ==
    /\ Present(a)
    /\ member[a].group = NoGroup
    /\ Exists(g)
    /\ group[g].room = member[a].room
    /\ group[g].members < GroupCapacity
    /\ group' = [group EXCEPT ![g].members = @ + 1]
    /\ member' = [member EXCEPT ![a].group = g]
    /\ UNCHANGED <<content, room>>

LeaveGroup(a) ==
    /\ Present(a)
    /\ member[a].group # NoGroup
    /\ group' \in GroupsLeft(a)
    /\ member' = [member EXCEPT ![a].group = NoGroup]
    /\ UNCHANGED <<content, room>>

(* A new module is published over the running database: its content may    *)
(* lack a course, or have one back.                                        *)
Republish ==
    /\ content' \in SUBSET Course
    /\ UNCHANGED <<room, member, group>>

-----------------------------------------------------------------------------

RoomsInit ==
    /\ content = Course
    /\ room = [r \in RoomId |-> NoRoomRow]
    /\ member = [a \in Account |-> NoMemberRow]
    /\ group = [g \in GroupId |-> NoGroupRow]

GroupStep(a) ==
    \/ CreateGroup(a)
    \/ \E g \in GroupId : JoinGroup(a, g)
    \/ LeaveGroup(a)

RoomsNext ==
    \/ \E a \in Account :
          \/ \E c \in Course : JoinCourse(a, c)
          \/ LeaveRoom(a)
          \/ GroupStep(a)
    \/ Republish

RoomsSpec == RoomsInit /\ [][RoomsNext]_roomVars

-----------------------------------------------------------------------------
(* What the rooms promise. *)

(* Every table holds rows of its type, and join_group lets no group past   *)
(* its capacity.                                                           *)
RoomsTypeOK ==
    /\ content \subseteq Course
    /\ room \in [RoomId -> RoomRow]
    /\ member \in [Account -> MemberRow]
    /\ group \in [GroupId -> GroupRow]

(* A room's player_count is what join_course fills rooms by and what       *)
(* closes an empty one: whatever the order of joins, moves and leavings,   *)
(* it is the number of room_member rows of that room, an open room is      *)
(* neither empty nor over capacity, and nobody is in a room that closed.   *)
RoomsCountMembers ==
    \A r \in RoomId :
        /\ room[r].players = Cardinality(Occupants(r))
        /\ Open(r) <=> Occupants(r) # {}
        /\ room[r].players <= RoomCapacity

(* A group's member_count, leader and room agree with its members' rows    *)
(* through every way of leaving (leave_group, leave_room_state): the       *)
(* leader is one of them, they all share its room, and it ends with its    *)
(* last member.                                                            *)
GroupsSound ==
    \A g \in GroupId :
        /\ group[g].members = Cardinality(GroupOf(g))
        /\ Exists(g) <=> GroupOf(g) # {}
        /\ Exists(g) => /\ group[g].leader \in GroupOf(g)
                        /\ \A a \in GroupOf(g) : member[a].room = group[g].room

(* A group keeps its leader until that leader leaves it: nobody else's     *)
(* joining, leaving or disconnecting hands the group on.                   *)
LeaderKeepsGroup ==
    [][\A g \in GroupId :
          Exists(g) /\ Exists(g)' /\ group[g].leader # group'[g].leader
          => member'[group[g].leader].group # g]_roomVars

(* "The fullest room with space, so rooms fill before new ones open"       *)
(* (play_rules.h): the step that opens a room leaves no other open room of *)
(* that course with space, counting the place the joiner itself vacated.   *)
RoomsFillBeforeNewOnesOpen ==
    [][\A r, s \in RoomId :
          /\ ~Open(r) /\ Open(r)'
          /\ r # s /\ room'[s].course = room'[r].course
          => room'[s].players >= RoomCapacity]_roomVars

(* The counters implement the lobby: with the rows read as who is where,   *)
(* every reducer is one player's move (or no move), into a room with space *)
(* for them.                                                               *)
Seats == INSTANCE Lobby WITH
    at <- [a \in Account |-> member[a].room],
    plays <- [r \in RoomId |-> room[r].course]

ImplementsLobby == Seats!LobbySpec

=============================================================================
